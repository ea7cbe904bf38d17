# Verification of adrai

adrai keeps decision records in a Git repository and serves them from SQLite indexes that
it builds and caches, on the command line and in a local web application. This directory
models the parts of it that several threads, processes or machines' worth of accidents can
disturb, checks them with TLC on small instances, and proves with TLAPS what matters most
for every size. Source paths below are relative to `src/src/Adrai/`.

* [The system](#the-system)
* [Modules and the code](#modules-and-the-code)
* [Runs](#runs)
* [Fairness](#fairness)
* [Proofs](#proofs)
* [Disagreements found](#disagreements-found)
* [What is not modelled](#what-is-not-modelled)
* [Plan](#plan)

Run `tlc -config MCParts.cfg MCParts` and its like for the runs, `tlapm GitLockProofs.tla` and
its like for the proofs (a few minutes each). `PROJECT.json` relates every definition to
the lines it models and every property to a mutant of the model that breaks it.

## The system

A *mutation* takes the repository's mutation lock, writes its files, builds a commit beside
the branch and moves the branch with a compare-and-swap; afterwards an index of the new
commit is built from an older one and installed. A *reader* asks for the exact revision's
archive, repairs the shared alias to it or has it compiled; compilation may start from a
private copy of another revision's archive (a *lease*). Placement evidence lives in a second
database, the *overlay*, which every index copies. The *web server* runs one compilation
per revision, watches the repository, and tells its browsers when to fetch again.

| Component | State it keeps | Operations | Hard behaviour | What makes it correct |
|---|---|---|---|---|
| Mutation lock (`Provenance/Git/Lock.hs`, `Lock/Native.hs`) | admission queue, reservations and tokens, owners, blocked probe; a native flock | acquire with a deadline, release, release again, status | three layers of exclusion, closes that fail, late releases, process death | one owner over all processes; no handle forgotten; FIFO; waiters answered |
| Transaction (`Service/Transaction.hs`) | snapshot, written files, candidate commit, the branch | commit, publish, roll back | outside commits, failing CAS that took effect, cancellation, git children that survive | no commit lost; answer true; all or nothing |
| Bootstrap (`Service/Transaction.hs`, `Service/Mutation.hs`) | backups, candidate | init and its rollback | rollback outside the lock | only an unpublished init rolls back |
| Compilation coordinator (`Service/Compilation.hs`) | flights, results, workers | acquire, detach, stop | election against shutdown, fork failure | single flight; nobody stuck |
| Event coordinator (`Web/Events.hs`) | generation, subscribers, bounded queues | publish, register, read | overflow, end of the clock | no silent gap, order |
| Watcher (`Web/Watch.hs`) | active files, epoch, snapshot | verify, hint | HEAD and logs read at two times, superseded scans | publishes for the current interests; converges |
| Web application (`Web/Application.hs`, `Web/Socket.hs`) | sessions, samples | subscribe, fetch, publish mutations | subscription over many steps | later stamp, later state; no orphan slot |
| Overlay lock (`Provenance/Lock.hs`) | a SQLite write transaction, committed claims of old programs | bounded and waiting acquisition | failed rollback or close, dead owner | claims never stolen |
| Overlay file (`Provenance/Overlay.hs`, `Read.hs`, `Service/Runtime.hs`, `CliRunner.hs`) | shape, coverage, rows, journal | refresh, hydrate, copy | reads after the lock, half-built schema, hot journal | evidence kept and not mixed |
| Provenance refresh (`Provenance/Ensure.hs`, `Discovery.hs`, `Classification.hs`) | observed commits, roots, placements, certificates, landings | refresh for a target, read of its evidence | one overlay for all targets; git moves, deletes and collects meanwhile | evidence shown = evidence there is |
| Index publication (`Service/PostCommitIndex`) | target, candidate, sidecars, backup | build, install, reconcile, sweep | failure after the effect, crash, two publishers | readers see whole databases; no last copy deleted |
| Exact archives (`Compiler/CacheSelection/Internal.hs`, `Service/Runtime.hs`, `CliRunner.hs`) | archives, the alias, SQLite reservations | doctor, compile, web ensure | alias replaced between repair and read | answer about the revision asked |
| Cache lease (`Compiler/CacheLease/Internal.hs`) | lifecycle, private directories | prepare, accept, discard, retire | every cleanup can fail | validated copy only; nothing leaks |
| Vector table (`TextEmbedding/Native/sqlite-vec.c`, used by `TextEmbedding.hs`) | seven shadow tables of chunks, bitmaps, vectors, texts | insert, update, delete, k nearest, by rowid, scan, plan | a statement is many writes; eight rows share a byte; filters on deleted rows; NaN | each statement whole or not at all; the k nearest are the k nearest |
| Owner of a test's process tree (`src/tools/RetainedTests/linux_owner.c`) | commands, lines, a PID namespace | activate, go, signal, kill, reap | two processes, a pipe, signals and deaths in any order | no payload without owner; lines true; the tree ends |

They interact as follows. The mutation lock encloses transactions, web observations and
publications; `ExclusiveLock` is what `Transaction`, `Bootstrap` and `LiveFeed` rely on and
what `GitLock` and `OverlayLock` are shown to implement. `Repo` is shared by both
transactions. `LiveFeed` uses the operators of `Events`. `Overlay` takes the overlay lock as
exclusive, and the refresh in it, its step `Ensure`, is what `Provenance` models;
`ExactArchive` takes index publication as one atomic rename (`AtomicPublication`
of `Publication` says why it may), and the compilation in `Compilation` is
an outcome (`ExactArchive` says which). Retrieval fills a vector table inside a transaction
that rolls back on any error, asks it for the k nearest, and refuses distances that are not
finite; the table is linked into the program, so what `sqlite-vec.c` does is what the program
does. The owner runs each test of the retained suite and has no part in the program itself.

## Modules and the code

One action is one atomic step of the code: an `atomically` block, one system call, one git
process, or a stretch of code that touches only the caller's own state. Each `try` of the
code shows as a disjunct that fails, asynchronous exceptions as a disjunct that is
cancelled, wherever the code is not masked.

* **ExclusiveLock** – the abstraction: a set `inside` with at most one member.
* **GitLock** – `pc` follows `withGitLockWaitWith` from the admission queue (`Enqueue`,
  `Admit`, `TimeOut`, `Retire`) over the local reservation (`TryReserve`) and the native
  lock (`OpenNative`) to release (`Release`, `CloseOwner`, `CloseOwnerSticks`), with second releases of
  any old handle (`ReleaseAgain`) and the status probe (`StartProbe` … `CloseRetriedProbe`).
  `Crash` closes a process's handles. A probe drops its reservation with its end (`EndProbe`), one
  step after the close that proved it clean. The owner's name in the lock file is left out.
* **Repo** – branch tips, HEAD, commits, index and worktree, with git's commands as
  operators and the outsiders who use them. A file's content is who wrote it, and whether whole.
* **Transaction** – `commitAppendOnlyOperationMaybeCheckedWithHooks`, stage by stage.
  `variant` is rigid: the web's mutations publish to an index and check the basis, the plain
  ones do neither. Merges come and go without the lock, so each check may meet one. `Swap` is `git update-ref` with the expected value; a failing one may
  have happened. `StrayChildSwaps` is a git child that outlived its termination, which may
  happen to the writers in `Outliving`.
* **Bootstrap** – `prepareInitCommand` and `commitBootstrapFiles`: backup, lock, files,
  commit, swap, then, without the lock, the inspection and the rollback.
* **Compilation** – a flight is named by the caller elected for it; election, fork, record, result, shutdown.
* **Events, LiveFeed** – `Events` holds each STM transaction as an operator, `LiveFeed` gives
  them to threads: watcher, subscriptions, mutation, sender. A version counts changes of
  HEAD, which alternates between two commits, so that HEAD alone cannot tell versions apart (ABA) while the logs can.
* **OverlayLock** – `attemptOverlayLock` and both wrappers; a program of the former protocol,
  which commits a row as its claim, is external.
* **Overlay** – the file's shape as `overlaySchemaState` sees it, under the lock taken as given.
* **Provenance** – the refresh inside that transaction: `Begin` seeds the operations of the
  target and lists the refs, `ReadReflog`, then `FastPath` or `Discover`, `Classify`, `ReadTips`
  and `Land`, each with what git answers at that moment. The history is given and
  immutable: git moves and deletes branches in it (`Move`, `Delete`) and forgets commits
  between refreshes (`Collect`). A failure at any point rolls back. `Evidence` is what a reader sees.
* **Publication** – `publishCandidateOwned`; the install primitive is a dependency of the
  code, so publishers install by the production rename, but for those in `Replacing`,
  which go through the backup path. The backup's reconciliation is unreachable with the production rename.
* **ExactArchive** – a database is the revision it is about, a build number and its validity.
* **CacheLease** – the cascade of ranked candidates and the lease's lifecycle.
* **VecTable** – the abstraction of a vector table: rows under rowids, one row per statement, transactions.
* **Vec0** – its storage. One action is one write to a shadow table, and each may fail. SQLite
  undoes the writes of a failed statement that runs alone; `vec0Update` starts no
  savepoint, so in a transaction they stay until the application rolls back (`Fail`). A bitmap is
  the set of its 1 bits, written byte by byte (`ByteWritten`). The table has one column of each kind.
* **VecQuery** – `vec0Filter` and the cursor. A query begins with any table and any query of
  `Inputs`; a bound that is no integer is converted as `sqlite3_value_int64` does (`NumberMatches`) and
  cut to an `int` for a boolean column (`CInt`); the bound of a partition is SQL's to compare. `FilterChunk` filters one chunk, takes its nearest (`MinIdx`) and merges them into the
  result (`Merge`); distances are numbers or NaN, which `Leq` compares with nothing.
* **VecPlan** – `vec0BestIndex` writes `idxStr`, and the column of the query's vector into `idxNum`;
  `vec0Filter` reads them again beside the values SQLite passes by position.
* **Owner** – the owner's poll loop, part by part, and its PID1 from `namespace_init`; the kernel
  (pidfds, namespaces, the death signal, and `reset`, the ECONNRESET that the owner's socket holds after PID1 ended with a
  command unread), the payload and the controller are external.
* **MC…** – instances. Where components do not interact, a run puts them side by side, and
  a rigid variable says which one a behaviour is of; each property then
  speaks of its own component. A component that theorems are about is EXTENDed, so that run and
  theorem state the same definition, and waits in an initial state while another one runs; the
  others are instances. Components that are EXTENDed together have names of their own for the
  parts of their specifications (`FeedInit`, `OverlayInit`, `TreeInit`, `StorageInit`). `MCTransaction` has
  an operation alone, two that meet, and the refresh of the overlay; `MCBootstrap` the
  bootstrap and the safety of the live feed; `MCPublication` the publishers and the live feed's
  liveness; `MCCacheLease` the lease and the owner of a process tree; `MCParts`
  the coordinator, the overlay file and the vector table. In `MCTransaction` a
  behaviour ends with its operations (`Over`): no property looks at what outsiders
  do afterwards. `MCVec` has the tables, queries and constraints of VecQuery and VecPlan.

## Runs

| Run | Question | Bounds |
|---|---|---|
| MCGitLock | Does the lock exclude, and implement `ExclusiveLock`, through late releases, probes, stuck closes and crashes? | 2 processes, one with 2 threads; 2 tokens per process: a stale token and a newer one |
| MCGitLockQueue | Is admission fair, is every waiter answered? | 3 threads, a queue of 2: one caller finds it full |
| MCTransaction | Is one operation's answer true and a failure all or nothing? Is a commit ever lost or announced out of order? Does a refreshed overlay show what the history has? | 1 writer, 2 files, 2 branches, edits, both variants, failure and cancellation at each stage, 3 commits; or 2 writers on paths of their own, outside commits, surviving children, crashes, 4 commits; or 3 commits on 2 branches, 3 operations with 4 files |
| MCBootstrap | May inits race? Does a browser miss an event, or a later stamp carry an older state? | 2 writers, 1 file, unborn or born branch, 3 commits; or 1 browser that reconnects, 1 file, a queue of 2, 4 generations, so that queues overflow and the clock ends |
| MCPublication | Is an index ever lost, missing or unfinished, and is the report true? Does the browser show the present in the end? | 2 publishers by rename, or 1 beside 1 through the backup with 2 restores; or 1 browser, a queue of 1, 3 generations |
| MCCacheLease | Is only a validated copy opened, and does the scope end clean? Does a test's tree end, and is its owner told the truth? | 2 candidates; or 3 commands of any kind, two of them waiting at a time, 1 signal, 1 descendant of the payload, kills that are refused, polls and receives that fail |
| MCOverlayLock | Does a transaction outlive its caller, is a claim stolen, an old one reported? | 2 bounded callers with 1 retry, 1 waiting, 1 old program |
| MCExactArchive | Is the answer about what was asked, and does it come? | 2 requests of any kind, 2 revisions, 2 compilations |
| MCParts | The promises of Compilation, Overlay and the vector table | 3 callers, 3 keys, 2 flights; 2 refreshers and 2 hydrators; 4 statements on 2 chunks of 2 rows with 1 failing write; queries of 2 chunks of 2 rows; plans of up to 5 constraints |
| MCTransactionMerge, MCBootstrapRace, MCTopK | see [Disagreements](#disagreements-found) | |

All passing runs are exhaustive. The bounds are the smallest in which the hazards of
`PROJECT.json` occur: two actors for every race between two, one token, retry, version or
generation more than the first, a queue and a pool smaller than the number of those who want
in, a byte with two bits of which a statement sets one, texts up to one character longer than
a view of two. Deadlock is checked where a system that stops is an error; the other models stop
when every bounded request has been made. The properties that carry most:

* *GitLock*: `ImplementsExclusiveLock`, and `IInv`, which holds the parts of its argument.
* *Transaction*: `AnswerIsTrue`; that a failure leaves nothing excepts a cancelled operation and one
  that reports a failed rollback, as the code's types do. What an operation is told of the branch is
  promised as long as its own git child does not outlive it, whatever children the
  others leave (`Writer \ Outliving`); that it leaves none of its bytes is promised to all.
  `HistoryIsKept` and `PublicationInOrder` hold with such children, too.
* *Bootstrap*: `OutcomesAreTrue`: a result means a published commit on top of the expected one, and
  only an unpublished init rolls back or reports a failure. `FailureRestores` is only promised to an init that no other interferes with;
  `DeletesOnlyItsOwn` shows what happens otherwise.
* *LiveFeed*: `StampsInOrder` relates the order of generations to that of repository states,
  `SubscribersAreServed` counts what a subscriber was told against what was published and asks
  who holds each slot.
* *Provenance*: `RefreshIsRight` compares what a refresh leaves, for its target, with a search
  of the target's whole history, after any earlier refreshes for other targets. The history of the
  run has an operation in its root and two that are squashed into the line, one with a file more
  than its branch has, so that its registration changes, and changes back; an operation is
  first asked for long after its commit was observed; and the branch's commit, where one was
  placed, is collected. The landings are written with their failures swallowed (`Ensure.hs:1193`), and
  SQLite may fail between any two of them (`LandingResults`) when the target is in `Breaking`. It has
  no merge commit, and the branch of the logical line only goes forward.
* *Publication*: `NothingLost` over all wrong guesses of the reconciliation, `AtomicPublication`
  for readers beside those who rename, `ReportIsTrue` for the caller. That the target is there is
  only promised to a publisher beside whom nobody installs through the backup path
  (`Undisturbed(p)`): between the other's two moves it is not.
* *Overlay*: `CopyIsOwn`, although the tables are copied in separate transactions;
  `EvidenceKept`, whoever fails or dies.
* *CacheLease*: `EndsClean`: only a validated copy is opened while the source is republished, and
  nothing is left over every failing cleanup.
* *Compilation*: `SingleFlight`; `StopDrains`, a shutdown against elections and forks under way; `NobodyIsStuck`.
* *Vec0*: `ImplementsVecTable` over all failing writes. `ScansAgree` is what a rowid query and a
  bitmap query need in common; nothing in the code checks it.
* *VecQuery*: `QueriesAreExact` against the definition of the k nearest, over every table
  and query of `MCVec`. It leaves out what the code decides otherwise than SQL (`Decided`): a
  range over a text as long as a view, which is compared as if it were cut (`< 12` at
  `sqlite-vec.c:6082`, `<= 12` where it is stored), or over a longer one that is a
  prefix of the bound; rowids that differ by more than an `int` (`_cmp`, line 1048); a text key
  that is unknown, for which the query ends early without rows; a bound on an integer or a boolean
  column that is no integer (lines 6335, 6346, 6977), or one on a boolean that is not 0 but whose low 32 bits are. A
  bound of NULL on a text column is not among the queries. adrai's own table is
  asked for the k nearest only and meets none of these.
* *VecPlan*: `PlanIsCarriedOut` says for constraints in any order that each value reaches the
  column and operator it was given for, and the vector the column that `idxNum` names.
* *Owner*: `TreeIsOwned` (`PayloadIsOwned` and `LinesAreTrue`), `TreeEnds`. An exit that PID1
  reported is told, unless PID1 ended with a command unread: see [below](#disagreements-found).
* *ExactArchive*: `AnswersWhatWasAsked` and `GoodArchiveStays` while others publish the alias.

## Fairness

`GitLock`: a thread that has called into the lock keeps running, its timer fires; the
protected action may run for ever. `OverlayLock`: as much for an attempt; SQLite's hand-over
is not fair, so `UnknownOwnerReported` is conditional on the others leaving the database
alone. `LiveFeed`: threads run; the lock's FIFO admission gives strong fairness to those who
wait for it, and strong fairness of the scan says that not every scan fails, since the
periodic loop repeats it and the model lets each one fail; and no hint or change of
interest comes (`Undisturbed` of `LiveFeed`, and `MaxEpoch = 0` in `MCPublication`), because hints that never
end supersede every scan and the code promises nothing then. With hints only the safety
properties are checked (`MCBootstrap`). `ExactArchive`: a request's thread runs. `Owner`: both processes, the exec and the
kernel get on, so that a poll does not fail for ever; the payload need never end. Callers, controllers,
outsiders, faults, crashes and cancellations are never fair. `Compilation`'s `NobodyIsStuck`
states progress as a state predicate (some step is enabled); every step of a flight
can be taken once, so scheduled threads then end.

## Proofs

Twelve components have proofs, in eight modules, for every value of their constants. A property of
several steps is hardly ever inductive; what each proof adds, and why, is said below. Each
inductive invariant was model-checked before it was proved.

**GitLockProofs** (any sets of processes and threads, any queue limit, any number of
tokens): `MutualExclusion`, `LocalExclusion`, `HeldMeansReserved`, type correctness,
that the lock implements `ExclusiveLock`, and `NoOvertaking`. They assume what `GitLock` assumes
of its constants: threads live in processes, the bounds are natural numbers and `None` is none of
them. Mutual exclusion is not inductive: a thread about to close a handle must know that the
handle is its own, and a late release must not meet a newer generation. `IInv` adds, per stage of a
thread, what it knows of the owner registry and the native lock (`HandlesOK`, `OwnersOK`,
`ProbesOK`), that every token in use is below the next one (`TokensOK`, `RegistriesOK`), and that
two threads with one token are never at stages that would make them act twice
(`GenerationsOK`). Lemmas `Quiet` and `NewReservation` treat the frequent kinds of steps;
then there is one lemma per action. `NoOvertaking` rests on `FifoInv`: a ticket is in its queue
once and only during a call (`LineOK`, `TicketOK`), and who joined while `t` waited stands behind
`t`, also when it left and came back (`TurnOK`); `WithoutKeeps` says that retiring a
ticket leaves the others in their order.

**TransactionProofs** (any writers, branches, paths, files and number of commits, and any writers
whose git child may outlive them; from `TransactionConstants` and `Repo`'s
`RepoAssumption`): `HistoryIsKept`, `PublishedAsPlanned`, `AnswerIsTrue`,
`PublicationInOrder`. The invariant is built in layers, each inductive over those before. `Typed`: types, the
exclusion of the lock, what an operation holds at each stage. `History`: every writer's commit
sits on its own basis and on no branch but the pinned one, and branches only grow, late
children included. `AnswerOK`: what each stage, down to the proof before a rollback, knows of
the branch. `BytesOK`: at which paths an operation's bytes may be, by its cursor in the writing and in the
rollback. `OrderOK`: a commit that is not announced is in the history of no announced one.

**BootstrapProofs** (any inits, branches, files and number of commits; from `FilesAssumption`
and `RepoAssumption`): `OutcomesAreTrue` and `FailureRestores`. The handler of an init inspects
the branch after it has given the lock away, so that its answer rests on what the stages before
leave behind: an init's commit sits on what it expected, is nobody else's and is on no branch
but the one it read (`History`), and what the candidate it recorded and the stage say of the
branch (`AnswerOK`). `RestoredOK` says up to which path an undisturbed rollback has come.

**WebProofs**, of the coordinator (any callers, keys and limit; from `CompilationConstants`):
`SingleFlight`, `StopDrains`. `Flights` says who a registered flight is and what a caller and its flight
have at each stage, `CancelOK` that only a shutdown cancels, `DrainOK` which flights it
has still to wait for, although a caller may be between its election and its fork when it begins.
That no more producers run than the limit allows follows from an injection of the producers
into the registered flights, whose number the election bounds (`Limited`).

**WebProofs**, of the live feed (any browsers, files, queue and limits; from `FeedConstants`):
`SubscribersAreServed` (with `NoSilentGap` in it), `StampsInOrder` and that `PublishObserved` publishes
for the present interests. A step of the feed is at most one transaction of the event coordinator
(`FeedStepIsEventStep`), and each of those keeps the queues in order and the count of what was told
(`EventsInv`). That a subscriber belongs to somebody, or was cancelled in its report, needs the stage of each session
(`SessionOK`); that a later stamp is a later state needs that its owner read HEAD under the lock,
after the last stamp (`LockOK`); that a scan is of the present interests, that the epoch
is the one it was started in (`ScanOK`).

**IndexProofs**, of the publication (any publishers, any of which install through the backup path,
any limit of restores; from `PublicationConstants`): `NothingLost`, `AtomicPublication`, `ReportIsTrue`. `FilesOK`
says what each path holds at each stage, `KeptOK` which publisher has the last copy, and that it
will not sweep it; `ToldOK`, `ReportOK` and `Standing` what it has recorded for its report.

**IndexProofs**, of the vector table's storage (any values of the columns, any chunk size that is a
whole number of bytes, any bounds of rows, chunks, statements and failing writes; from `VecConstants`):
`ScansAgree` and the refinement `ImplementsVecTable`. A statement writes up to nine shadow tables,
each write may fail, and a failed statement in a transaction stays half written. So `StorageInv`
compares the tables with `before`, those the statement began with, which agree
(`Agree(before)`). `ElsewhereKept`: they differ at one row and one position only, although an INSERT
writes back a byte of the bitmap as it read it some writes ago and a DELETE clears a bit of one.
`InsertOK`, `DeleteOK` and `UpdateOK`: what the steps so far have written there, that the position was
free and the key unused. With both, the last write of a statement leaves tables that agree
again (`Agree(db)`) and show just the row it was asked for, which is the step of `VecTable` it maps to;
every other write is a stutter. Beside the bounds `VecConstants` says of the values that
`NoValue` is no key, that the marks of an empty and of a cut view are no long texts, that no
statement gives the mark `Cut` as its text, and that an explicit rowid is within `MaxRowid`.

**LeaseAndTreeProofs**, of the lease (any candidates; from `CacheLeaseConstants`): `OpenIsValidated`, `EndsClean`.
`StageOK` says where the lease is at each step, `OpenOK` what was validated, `OwnedOK` that a
directory's cleanup is registered or has failed, `TellsOK` that what the scope is about to end
with knows of every cancellation and failed removal.

**LeaseAndTreeProofs**, of the owner of a process tree (any number of commands; kills that may be refused or not, polls and receives that fail): `TreeIsOwned`.
The owner's lines are about a process it cannot see, through one it hears from late. `ToldOK` says
that its lines are what it has heard, in an order that makes sense; `ChannelOK` and `SaidOK`, what PID1 has said at each of
its steps and which of it waits in the channel; `LaunchOK`, that a payload there is was let go by the owner under a PID1
that the kernel kills with it; `PlacesOK`, which places of the two go together, so that the
owner ends only after it has read the last event, or has met the reset, which it can only when PID1
ended with a command unread (`LeftUnread`); `EndOK`, what it has told by then.

**OverlayProofs**, of the lock (any clients and retries): `ClaimIsNeverStolen`, `NoOrphanTransaction` and the
implementation of `ExclusiveLock` with the old program as one more client, by
`OwnershipKnown` (steps between BEGIN and ROLLBACK own the transaction; a committed row is
a former owner's) and `RetriesLeft`.

**OverlayProofs**, of the file (any refreshers and hydrators; from `OverlayConstants`): `CopyIsOwn`,
`EvidenceKept`. The holder of the lock is the one user at a stage under it (`HolderOK`); nobody else
changes the shape it found (`ShapeOK`), only version 2 holds evidence, so that what is removed holds none
(`EvidenceOK`), and the rows a refresher copies, in two transactions, are its own (`CopyOK`).

**ExactArchiveProofs** (any requests, kinds, revisions and number of compilations):
`AnswersWhatWasAsked` and `GoodArchiveStays`. A request answers from what it validated some steps
ago, or from a path that others replace meanwhile. `IInv` adds that an archive is
about the revision it is filed under (`ArchivesOK`); that what a request holds is valid and of
its revision, that the archive at that path, perhaps a newer one, stays valid, and that a copy
about to be published is valid (`HoldingsOK`); and that a hit was found equal to the archive
held by a validation, after which nobody puts an invalid database under the alias (`HitsOK`).
`ColdsOK` says why a request is about to compile: the archive was no good, and what is there
since has a build of its own, or it was put out. Assumed is, beside
the bounds, that `None` is no database and no question (`NoneAssumption`).

Constants' assumptions are all that is assumed: `None`, or `Absent`, is no value of the data, bounds are
numbers, `Replacing` and `Outliving` are subsets. Where a component runs beside others, they are an
operator (`TransactionConstants`) that the theorem has as its hypothesis and the run asserts of
its own constants.

Only model-checked are

* liveness: `WaiterResolves`, `UnknownOwnerReported`, `EveryRequestEnds`, `Converges`, `TreeEnds`,
  and `NobodyIsStuck`, which speaks of ENABLED;
* `RefreshIsRight`, `QueriesAreExact` and `PlanIsCarriedOut`: each compares what a program of folds
  and loops computes with a definition over data of any size (the searches of a history, the order of
  distances, the entries of an `idxStr`), which needs induction over that data.

## Disagreements found

* `MCTransactionMerge` – stage 3 runs its three checks and discards their results
  (`Service/Transaction.hs:1216`), so an operation is published while a merge is active;
  the comment at 1155 says the state is validated.
* `MCBootstrapRace` – the rollback of an init runs without the lock
  (`Service/Transaction.hs:1675`) and deletes files that another init has committed
  meanwhile; the comment at 1717 says it deletes the file it created.

* `MCTopK` – the nearest are found with `<=` (`sqlite-vec.c:5801` and 5704), false both ways for NaN: a
  row at distance NaN that comes first in its chunk hides nearer rows behind it, in the chunk or in
  the merge. The comment at 6456 promises a true top k. adrai inserts finite nonzero vectors and
  asks for the cosine, whose squared magnitudes may still leave the range of float; it refuses
  the distance it is handed, but is not handed the hidden rows.

Six more were seen in the models:

* With a git child that survives `terminateCapturedProcess` (`Git.hs:215`),
  the promise of
  `RollbackOnlyIfUnpublished`, a part of `AnswerIsTrue`, fails for that operation: the rollback looks at the
  branch once. (Read `Writer` for `Writer \ Outliving` in it.)
* `PublicationFailed` may be reported with the new index in place
  (`Service/PostCommitIndex/Internal.hs:840`), when the directory's synchronisation or a
  cleanup fails after the rename; the module's header says a failure leaves the prior index.
* `createOverlaySchema` (`Provenance/Overlay.hs:560`) commits statement by statement, while
  its comment speaks of a single transaction; a refresher that fails in between
  leaves an overlay every later user rejects. The model's refreshers can die there, too.
* A refresh checks that every placement outside the target's history is of a commit that is
  there (`Provenance/Ensure.hs:437`), long before `pruneUnavailablePlacements` would remove those that are not,
  and it reads every recovery candidate with `git show`. So after git has collected a
  deleted branch, refreshes of a target with an operation that was placed there can
  fail (`PlacementIsGone`, `CommitIsGone`) until the commit is back or the overlay is
  removed. The comment at 388 calls this fail-closed; step f of the comment at 736 prunes.
* After the commands A, G, G the second G is never read, so that PID1's end makes the owner's next
  `recv` fail with ECONNRESET before it yields what is queued (`linux_owner.c:201`, `RecvFails`): the owner may write
  TREE without the ROOT that PID1 had reported. `LinesAreTrue` excepts this case and no other. EXEC, on the other hand, may be
  told of a payload that was killed before its exec: an empty error pipe says no more than that.
* A second attempt of a subscription that succeeds is reported to stderr (`Web/Application.hs:580`) after the
  handler that would unregister it and before the bracket (`Web/Socket.hs:92`) that owns it. A cancellation that
  meets the report loses the slot for the life of the process (`CancelReport`); `NoOrphanSubscriber`
  excepts it (`"lost"`).

## What is not modelled

Formats, parsing, rendering, HTTP and the terminal keep no shared state. Ranking, embeddings and
the arithmetic of distances are floating-point computations. Of the provenance refresh, the recovery witness, shallow
clones, recorded issues and the text of git's answers are left out. What the compiler and the
graph compute is next in the plan; in the present models a database is valid or not, and
rows are the user who wrote them. Directories made for new files, the lock file's text, and
SQLite's and git's internals are left out. Of `sqlite-vec.c`, CREATE and DROP of a table, the parsers of
column definitions and vectors, and the scalar and table-valued functions are not modelled;
neither are `connect.c` (one Windows connect with a deadline) and the platform's thin
lock and watch bindings, whose effect is in `GitLock` and `LiveFeed`. Every component is listed in
`PROJECT.json` with its status.

## Plan

Done, with proofs: the mutation lock, the overlay lock and file, both transactions, the compilation
coordinator, the live feed, publication, leases and archives, the storage of a vector table and the owner
of a test's process tree. Done, model-checked: the refresh of the overlay, the queries and plans of
a vector table.

1. **Provenance, continued**: a history with merges and octopuses, the recovery witness
   (`Provenance/RecoveryWitness.hs`), hydration by a reader (`Provenance/Read.hs`), shallow clones.
2. **Graph and state** (`Graph.hs`, `State.hs`, `Integrity.hs`): operations to states and heads,
   conflicts, merges, as functions checked against their definitions on all small inputs.
3. **Compiler snapshot and attribution** (`Compiler/Snapshot.hs`, `Attribution.hs`, `CacheSync.hs`):
   reuse of an older snapshot equals a cold compile.
4. **Cache ranking** (`CacheSelection/Internal.hs`): discovery and ranking by ancestry, feeding `CacheLease`.
5. **Mutations** (`Service/Mutation.hs`): create, amend, resolve; staleness of their basis; then
   a composition of Transaction, Publication and ExactArchive.
6. **Web server and sockets** (`Web/Server.hs`, `Socket.hs`): startup, shutdown over
   `Compilation` and `LiveFeed`, authentication of a session.
7. **Query** (`Service/Query.hs`, `Pagination.hs`, `Scope.hs`): cursors, scope matching.
8. **Columns of a vector table** (`vec0_parse_*`, `vec0_init`): which declarations are accepted.

Small independent parts join `MCParts`; pure algorithms share one run that picks
its input at the start. Abstract specifications worth stating: an atomic commit for
Transaction, an atomic register for Publication, a map from revision to answer for
ExactArchive. Theorems still worth having: the parts of `RefreshIsRight` that
one transaction of the refresh promises the next, and that a query's rows are rows of the table.
