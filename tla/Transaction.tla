----------------------------- MODULE Transaction -----------------------------
(***************************************************************************)
(* The append-only transaction engine of src/src/Adrai/Service/            *)
(* Transaction.hs: an operation planned against an observed HEAD takes the *)
(* mutation lock, pins the branch, writes its files, builds a one-parent   *)
(* commit through a temporary index, compares-and-swaps the branch, tells  *)
(* the index publisher, refreshes the caller's index, and on a failure     *)
(* reconciles what it wrote with what the branch says.                     *)
(*                                                                         *)
(* A writer runs one transaction.  Sync failures are exceptions and git    *)
(* errors, async ones are cancellations.  Directories, file parsing and    *)
(* the containment checks of managed paths are left out.                   *)
(***************************************************************************)
EXTENDS Repo

CONSTANTS
  Files,           \* per writer, the sequence of paths it generates
  Variants,        \* the variants of the operation that callers use
  MayCancel,       \* may a transaction be cancelled?
  MayMerge,        \* may others merge in the repository?
  Outliving        \* the writers whose git child may survive its bounded termination

TransactionConstants ==
  /\ RepoConstants
  /\ Files \in [Writer -> Seq(Path)]
  /\ Variants \subseteq [publishes : BOOLEAN, checksBasis : BOOLEAN]
  /\ {MayCancel, MayMerge} \subseteq BOOLEAN
  /\ Outliving \subseteq Writer

VARIABLES
  variant,       \* per writer, the variant it runs; it never changes
  pc,            \* per writer, its stage
  basis,         \* expectedBasis and configExpectedHead: observed before the lock
  target,        \* targetRef: the branch pinned under the lock
  snapshot,      \* AppendOnlySnapshot: index and preimages, or None
  written,       \* writtenFilesRef: how many of Files[w] are recorded
  newCommit,     \* newCommitRef, 0 before commit-tree
  failure,       \* the original failure: "none", "sync" or "async"
  cursor,        \* how many written files the rollback has dealt with
  outcome,       \* what the caller gets
  publications,  \* the commits handed to the publisher, in order
  stray,         \* a git child that outlived its transaction may still CAS
  sawMerge       \* history: the stage 3 check of w found an active operation

found == <<variant, basis, target, snapshot>>
made == <<written, newCommit>>
history == <<publications, stray, sawMerge>>
txnVars == <<found, pc, made, failure, cursor, outcome, history>>
vars == <<repoVars, inside, txnVars>>

\* Is a commit publisher installed?  Is the observed HEAD part of the basis?
Publishes(w) == variant[w].publishes
ChecksBasis(w) == variant[w].checksBasis

PC == {"idle", "planned", "checks", "pin", "resolve", "snapshot", "exists", "write",
       "build", "cas", "classify", "publish", "refresh", "inspect", "index",
       "restore", "remove", "putback", "release", "done", "dead"}
Outcome == {"none", "ok", "failed", "cancelled", "unsafe", "unclassified"}
Failure == {"none", "sync", "async"}
Snapshot == [index : [Path -> Content], files : [Path -> Content]]

TypeOK ==
  /\ RepoTypeOK
  /\ variant \in [Writer -> Variants]
  /\ pc \in [Writer -> PC]
  /\ basis \in [Writer -> [ref : Branch \cup {None}, commit : 0..MaxCommit]]
  /\ target \in [Writer -> Branch \cup {None}]
  /\ DOMAIN snapshot = Writer
  /\ \A w \in Writer : snapshot[w] # None => snapshot[w] \in Snapshot
  /\ written \in [Writer -> Nat] /\ cursor \in [Writer -> Nat]
  /\ \A w \in Writer : written[w] <= Len(Files[w]) /\ cursor[w] <= written[w]
  /\ newCommit \in [Writer -> 0..MaxCommit]
  /\ failure \in [Writer -> Failure]
  /\ outcome \in [Writer -> Outcome]
  /\ publications \in Seq(1..MaxCommit)
  /\ stray \in [Writer -> BOOLEAN]
  /\ sawMerge \in [Writer -> BOOLEAN]
  /\ \A w \in inside : pc[w] \notin {"idle", "planned", "done", "dead"}

Init ==
  /\ Lock!Init
  /\ head \in Branch
  /\ tip = [b \in Branch |-> 1]
  /\ commits = <<[past |-> {1}, parent |-> 0, files |-> Nothing]>>
  /\ worktree = Nothing /\ index = Nothing
  /\ everTip = [b \in Branch |-> {1}]
  /\ variant \in [Writer -> Variants]
  /\ pc = [w \in Writer |-> "idle"]
  /\ basis = [w \in Writer |-> [ref |-> None, commit |-> 0]]
  /\ target = [w \in Writer |-> None]
  /\ snapshot = [w \in Writer |-> None]
  /\ written = [w \in Writer |-> 0] /\ cursor = [w \in Writer |-> 0]
  /\ newCommit = [w \in Writer |-> 0]
  /\ failure = [w \in Writer |-> "none"]
  /\ outcome = [w \in Writer |-> "none"]
  /\ publications = <<>>
  /\ stray = [w \in Writer |-> FALSE] /\ sawMerge = [w \in Writer |-> FALSE]

(***************************************************************************)
(* Control.                                                                *)
(***************************************************************************)
At(w, stage) == pc[w] = stage
Goto(w, stage) == pc' = [pc EXCEPT ![w] = stage]
Owned(w) == {Files[w][i] : i \in DOMAIN Files[w]}

\* The exceptions a restored (interruptible) piece of a transaction may raise.
Raised == {"sync"} \cup (IF MayCancel THEN {"async"} ELSE {})

End(w, result) ==
  /\ outcome' = [outcome EXCEPT ![w] = result]
  /\ Goto(w, "release")
Told(kind) == IF kind = "async" THEN "cancelled" ELSE "failed"

\* Mutant: the lock is kept.
AbandonLocked(w) ==
  /\ \E kind \in Raised : outcome' = [outcome EXCEPT ![w] = Told(kind)]
  /\ Goto(w, "done")
  /\ UNCHANGED <<repoVars, inside, found, made, failure, cursor, history>>

\* Before the snapshot there is nothing to roll back.
Abandon(w) ==
  /\ \E kind \in Raised : End(w, Told(kind))
  /\ UNCHANGED <<repoVars, inside, found, made, failure, cursor, history>>

\* After it, every failure goes to rollbackAppendOnlyFailure.
Fail(w) ==
  /\ \E kind \in Raised : failure' = [failure EXCEPT ![w] = kind]
  /\ Goto(w, "inspect")

(***************************************************************************)
(* Stages 1 to 4.                                                          *)
(***************************************************************************)
\* The commit of HEAD, of a branch or not.
HeadCommit == IF head = None THEN DOMAIN commits ELSE {tip[head]}

\* observeTransactionBasis and the planning of the operation, outside the lock.  One git
\* child reads HEAD's branch and another its commit: HEAD may name any branch at the first
\* and another one, or none, at the second.
Observe(w) ==
  /\ At(w, "idle")
  /\ \E ref \in Branch, commit \in HeadCommit :
       basis' = [basis EXCEPT ![w] = [ref |-> ref, commit |-> commit]]
  /\ Goto(w, "planned")
  /\ UNCHANGED <<repoVars, inside, variant, target, snapshot, made, failure, cursor, outcome,
                 history>>

\* Mutant: the lock excludes nobody.
AcquireNothing(w) ==
  /\ At(w, "planned")
  /\ inside' = inside \cup {w}
  /\ Goto(w, "checks")
  /\ UNCHANGED <<repoVars, found, made, failure, cursor, outcome, history>>

AcquireLock(w) ==
  /\ At(w, "planned")
  /\ Lock!Enter(w)
  /\ Goto(w, "checks")
  /\ UNCHANGED <<repoVars, found, made, failure, cursor, outcome, history>>

LockFails(w) ==
  /\ At(w, "planned")
  /\ \E kind \in Raised : outcome' = [outcome EXCEPT ![w] = Told(kind)]
  /\ Goto(w, "done")
  /\ UNCHANGED <<repoVars, inside, found, made, failure, cursor, history>>

\* Stage 3.  The three checks run; their Left results are discarded.  Others start
\* and end merges as they like, so one may be active at any check.
CheckState(w) ==
  /\ At(w, "checks")
  /\ \E merging \in {MayMerge, FALSE} : sawMerge' = [sawMerge EXCEPT ![w] = merging]
  /\ Goto(w, "pin")
  /\ UNCHANGED <<repoVars, inside, found, made, failure, cursor, outcome, publications, stray>>

\* Mutant: the branch HEAD names now is taken, observed or not.
PinAnyHead(w) ==
  /\ At(w, "pin") /\ head # None
  /\ target' = [target EXCEPT ![w] = head]
  /\ Goto(w, "resolve")
  /\ UNCHANGED <<repoVars, inside, variant, basis, snapshot, made, failure, cursor, outcome,
                 history>>

PinHead(w) ==
  /\ At(w, "pin")
  /\ head # None
  /\ ChecksBasis(w) => head = basis[w].ref
  /\ target' = [target EXCEPT ![w] = head]
  /\ Goto(w, "resolve")
  /\ UNCHANGED <<repoVars, inside, variant, basis, snapshot, made, failure, cursor, outcome,
                 history>>

ResolveTip(w) ==
  /\ At(w, "resolve")
  /\ tip[target[w]] = basis[w].commit
  /\ Goto(w, "snapshot")
  /\ UNCHANGED <<repoVars, inside, found, made, failure, cursor, outcome, history>>

\* A mismatch, a git failure or a cancellation in these stages.
EarlyFailure(w) ==
  /\ pc[w] \in {"checks", "pin", "resolve", "snapshot"}
  /\ Abandon(w)

CaptureSnapshot(w) ==
  /\ At(w, "snapshot")
  /\ snapshot' = [snapshot EXCEPT ![w] =
       [index |-> index,
        files |-> [p \in Path |-> IF p \in Owned(w) THEN worktree[p] ELSE Absent]]]
  /\ Goto(w, "exists")
  /\ UNCHANGED <<repoVars, inside, variant, basis, target, made, failure, cursor, outcome,
                 history>>

(***************************************************************************)
(* Stages 5 to 7.                                                          *)
(***************************************************************************)
NextPath(w) == Files[w][written[w] + 1]
LastPath(w) == Files[w][written[w]]

\* The file is recorded as written before the first byte is.
RecordFile(w) ==
  /\ At(w, "exists")
  /\ written[w] < Len(Files[w])
  /\ worktree[NextPath(w)] = Absent
  /\ written' = [written EXCEPT ![w] = @ + 1]
  /\ Goto(w, "write")
  /\ UNCHANGED <<repoVars, inside, found, newCommit, failure, cursor, outcome, history>>

WriteFile(w) ==
  /\ At(w, "write")
  /\ worktree' = [worktree EXCEPT ![LastPath(w)] = Whole(w)]
  /\ Goto(w, IF written[w] = Len(Files[w]) THEN "build" ELSE "exists")
  /\ UNCHANGED <<head, tip, commits, index, everTip, inside, found, made, failure, cursor,
                 outcome, history>>

\* "append-only path already exists", or any other exception.
RecordFails(w) ==
  /\ At(w, "exists")
  /\ Fail(w)
  /\ UNCHANGED <<repoVars, inside, found, made, cursor, outcome, history>>

\* A failed write leaves the file as it was, or some prefix, or all of it.
WriteFails(w) ==
  /\ At(w, "write")
  /\ Fail(w)
  /\ \E c \in {worktree[LastPath(w)], Part(w), Whole(w)} :
       worktree' = [worktree EXCEPT ![LastPath(w)] = c]
  /\ UNCHANGED <<head, tip, commits, index, everTip, inside, found, made, cursor, outcome,
                 history>>

\* read-tree, add, write-tree in a temporary index, and commit-tree: the tree
\* of the pinned commit with what the worktree now has at the generated paths.
BuildCommit(w) ==
  LET old == basis[w].commit IN
  /\ At(w, "build")
  /\ \A p \in Owned(w) : worktree[p] # Absent
  /\ CommitTree(old, [p \in Path |-> IF p \in Owned(w) THEN worktree[p]
                                                     ELSE FilesOf(old)[p]])
  /\ newCommit' = [newCommit EXCEPT ![w] = NewOid]
  /\ Goto(w, "cas")
  /\ UNCHANGED <<head, tip, worktree, index, everTip, inside, found, written, failure, cursor,
                 outcome, history>>

BuildFails(w) ==
  /\ At(w, "build")
  /\ Fail(w)
  /\ UNCHANGED <<repoVars, inside, found, made, cursor, outcome, history>>

(***************************************************************************)
(* Stage 8: the compare-and-swap and what follows it.                      *)
(***************************************************************************)
\* Mutant: the branch is set, whatever it names.
SwapBlindly(w) ==
  /\ tip' = [tip EXCEPT ![target[w]] = newCommit[w]]
  /\ everTip' = [everTip EXCEPT ![target[w]] = @ \cup {newCommit[w]}]

Swap(w) == UpdateRef(target[w], newCommit[w], basis[w].commit)

CasSucceeds(w) ==
  /\ At(w, "cas")
  /\ Swap(w)
  /\ Goto(w, IF Publishes(w) THEN "publish" ELSE "refresh")
  /\ UNCHANGED <<head, commits, worktree, index, inside, found, made, failure, cursor, outcome,
                 history>>

\* Mutant: a failed update counts as not applied.
CasFailsUnasked(w) ==
  /\ At(w, "cas")
  /\ \E kind \in Raised : failure' = [failure EXCEPT ![w] = kind]
  /\ Goto(w, "index")
  /\ Swap(w) \/ UNCHANGED <<tip, everTip>>
  /\ UNCHANGED <<head, commits, worktree, index, inside, found, made, cursor, outcome, history>>

\* update-ref is refused, fails or is cancelled; it may have been applied, or,
\* when its process outlives the bounded termination, be applied later.
CasFails(w) ==
  /\ At(w, "cas")
  /\ \E kind \in Raised : failure' = [failure EXCEPT ![w] = kind]
  /\ Goto(w, IF Publishes(w) THEN "classify" ELSE "inspect")
  /\ \/ Swap(w) /\ UNCHANGED stray
     \/ UNCHANGED <<tip, everTip, stray>>
     \/ /\ w \in Outliving
        /\ stray' = [stray EXCEPT ![w] = TRUE]
        /\ UNCHANGED <<tip, everTip>>
  /\ UNCHANGED <<head, commits, worktree, index, inside, found, made, cursor, outcome,
                 publications, sawMerge>>

StrayChildSwaps(w) ==
  /\ stray[w]
  /\ stray' = [stray EXCEPT ![w] = FALSE]
  /\ Swap(w) \/ (tip[target[w]] # basis[w].commit /\ UNCHANGED <<tip, everTip>>)
  /\ UNCHANGED <<head, commits, worktree, index, inside, found, pc, made, failure, cursor,
                 outcome, publications, sawMerge>>

\* Mutant: an applied update is not told from a refused one.
ClassifyAsFailed(w) ==
  /\ At(w, "classify")
  /\ Goto(w, "inspect")
  /\ UNCHANGED <<repoVars, inside, found, made, failure, cursor, outcome, history>>

\* The publisher's path asks the branch what the failed update did.
Classify(w) ==
  LET actual == tip[target[w]] IN
  /\ At(w, "classify")
  /\ CASE actual = newCommit[w] -> Goto(w, "publish") /\ UNCHANGED outcome
       [] actual = basis[w].commit -> Goto(w, "inspect") /\ UNCHANGED outcome
       [] OTHER -> End(w, IF failure[w] = "async" THEN "cancelled" ELSE "unclassified")
  /\ UNCHANGED <<repoVars, inside, found, made, failure, cursor, history>>

ClassifyFails(w) ==
  /\ At(w, "classify")
  /\ \E kind \in Raised :
       End(w, IF "async" \in {kind, failure[w]} THEN "cancelled" ELSE "unclassified")
  /\ UNCHANGED <<repoVars, inside, found, made, failure, cursor, history>>

\* A synchronous failure of the publisher only annotates the result.
Publish(w) ==
  /\ At(w, "publish")
  /\ publications' = Append(publications, newCommit[w])
  /\ \E kind \in {"none"} \cup Raised :
       failure' = [failure EXCEPT ![w] = IF "async" \in {@, kind} THEN "async" ELSE "none"]
  /\ Goto(w, "refresh")
  /\ UNCHANGED <<repoVars, inside, found, made, cursor, outcome, stray, sawMerge>>

\* refreshAppendOnlyIndex; a refresh that fails is only reported.
Refresh(w) ==
  /\ At(w, "refresh")
  /\ ResetPaths(newCommit[w], Owned(w)) \/ UNCHANGED index
  /\ End(w, IF failure[w] = "async" THEN "cancelled" ELSE "ok")
  /\ UNCHANGED <<head, tip, commits, worktree, everTip, inside, found, made, failure, cursor,
                 history>>

\* Without a publisher an exception here is a failure like any other.
RefreshRaises(w) ==
  /\ At(w, "refresh")
  /\ IF Publishes(w)
       THEN MayCancel /\ End(w, "cancelled") /\ UNCHANGED failure
       ELSE Fail(w) /\ UNCHANGED outcome
  /\ UNCHANGED <<repoVars, inside, found, made, cursor, history>>

(***************************************************************************)
(* Rollback.                                                               *)
(***************************************************************************)
\* A second cancellation outranks the original failure and the rollback's.
RollbackFailed(w) ==
  End(w, IF failure[w] = "async" THEN "cancelled" ELSE "unsafe")

\* rollbackAppendOnlyFailure
InspectTip(w) ==
  LET actual == tip[target[w]] IN
  /\ At(w, "inspect")
  /\ CASE newCommit[w] # 0 /\ actual = newCommit[w] -> End(w, Told(failure[w]))
       [] actual = basis[w].commit -> Goto(w, "index") /\ UNCHANGED outcome
       [] OTHER -> RollbackFailed(w)
  /\ UNCHANGED <<repoVars, inside, found, made, failure, cursor, history>>

InspectFails(w) ==
  /\ At(w, "inspect")
  /\ RollbackFailed(w) \/ (MayCancel /\ End(w, "cancelled"))
  /\ UNCHANGED <<repoVars, inside, found, made, failure, cursor, history>>

\* restoreAppendOnlySnapshot: an index somebody changed is not ours to restore.
CheckIndex(w) ==
  /\ At(w, "index")
  /\ IF index = snapshot[w].index
       THEN Goto(w, "restore") /\ UNCHANGED outcome
       ELSE RollbackFailed(w)
  /\ UNCHANGED <<repoVars, inside, found, made, failure, cursor, history>>

RestorePath(w) == Files[w][cursor[w] + 1]
NextFile(w) == cursor' = [cursor EXCEPT ![w] = @ + 1]

\* Mutant: the planned files are visited, not the recorded ones.
RestorePlannedFile(w) ==
  LET before == snapshot[w].files[RestorePath(w)] IN
  /\ At(w, "restore")
  /\ cursor[w] < Len(Files[w])
  /\ IF worktree[RestorePath(w)] = before
       THEN NextFile(w) /\ UNCHANGED pc
       ELSE Goto(w, "remove") /\ UNCHANGED cursor
  /\ UNCHANGED <<repoVars, inside, found, made, failure, outcome, history>>

\* restoreGeneratedFile: compare the file with its preimage and with our bytes.
RestoreFile(w) ==
  LET before == snapshot[w].files[RestorePath(w)]
      current == worktree[RestorePath(w)]
  IN
  /\ At(w, "restore")
  /\ cursor[w] < written[w]
  /\ \/ current = before /\ NextFile(w) /\ UNCHANGED <<pc, outcome>>
     \/ /\ current # before /\ UNCHANGED cursor
        /\ \/ /\ before = Absent /\ current \in {Part(w), Whole(w)}
              /\ Goto(w, "remove") /\ UNCHANGED outcome
           \/ /\ before # Absent /\ current = Whole(w)
              /\ Goto(w, "putback") /\ UNCHANGED outcome
           \/ /\ IF before = Absent THEN current \notin {Part(w), Whole(w)}
                                    ELSE current # Whole(w)
              /\ RollbackFailed(w)
  /\ UNCHANGED <<repoVars, inside, found, made, failure, history>>

\* The comparison is over when the file is removed or rewritten.
RemoveFile(w) ==
  LET p == RestorePath(w) IN
  /\ At(w, "remove")
  /\ \/ /\ worktree[p] # Absent
        /\ worktree' = [worktree EXCEPT ![p] = Absent]
        /\ NextFile(w) /\ Goto(w, "restore") /\ UNCHANGED outcome
     \/ RollbackFailed(w) /\ UNCHANGED <<worktree, cursor>>
  /\ UNCHANGED <<head, tip, commits, index, everTip, inside, found, made, failure, history>>

PutBackFile(w) ==
  LET p == RestorePath(w) IN
  /\ At(w, "putback")
  /\ \/ /\ worktree' = [worktree EXCEPT ![p] = snapshot[w].files[p]]
        /\ NextFile(w) /\ Goto(w, "restore") /\ UNCHANGED outcome
     \/ RollbackFailed(w) /\ UNCHANGED <<worktree, cursor>>
  /\ UNCHANGED <<head, tip, commits, index, everTip, inside, found, made, failure, history>>

\* Mutant: the last file is left alone.
RestoreEndsEarly(w) ==
  /\ At(w, "restore")
  /\ cursor[w] + 1 >= written[w]
  /\ End(w, Told(failure[w]))
  /\ UNCHANGED <<repoVars, inside, found, made, failure, cursor, history>>

RestoreEnds(w) ==
  /\ At(w, "restore")
  /\ cursor[w] = written[w]
  /\ End(w, Told(failure[w]))
  /\ UNCHANGED <<repoVars, inside, found, made, failure, cursor, history>>

\* The lock is released on every path.  A release that fails is the answer of a
\* transaction with no publisher; a published one has its durable witness.
ReleaseLock(w) ==
  /\ At(w, "release")
  /\ Lock!Leave
  /\ Goto(w, "done")
  /\ \/ UNCHANGED outcome
     \/ /\ outcome[w] = "ok" /\ ~Publishes(w)
        /\ outcome' = [outcome EXCEPT ![w] = "failed"]
  /\ UNCHANGED <<repoVars, found, made, failure, cursor, history>>

(***************************************************************************)
(* The environment.                                                        *)
(***************************************************************************)
Running(w) == pc[w] \notin {"idle", "done", "dead"}

\* The process dies; a git child it was waiting for may still do its work.
Crash(w) ==
  /\ Running(w)
  /\ Goto(w, "dead")
  /\ IF w \in inside THEN Lock!Leave ELSE UNCHANGED inside
  /\ \/ UNCHANGED stray
     \/ At(w, "cas") /\ stray' = [stray EXCEPT ![w] = TRUE]
  /\ UNCHANGED <<repoVars, found, made, failure, cursor, outcome, publications, sawMerge>>

OutsideStep == Outside /\ UNCHANGED <<inside, txnVars>>

\* The steps of a transaction once it has been planned.
Step(w) ==
  \/ AcquireLock(w) \/ LockFails(w)
  \/ CheckState(w) \/ PinHead(w) \/ ResolveTip(w) \/ EarlyFailure(w) \/ CaptureSnapshot(w)
  \/ RecordFile(w) \/ WriteFile(w) \/ RecordFails(w) \/ WriteFails(w)
  \/ BuildCommit(w) \/ BuildFails(w)
  \/ CasSucceeds(w) \/ CasFails(w) \/ Classify(w) \/ ClassifyFails(w)
  \/ Publish(w) \/ Refresh(w) \/ RefreshRaises(w)
  \/ InspectTip(w) \/ InspectFails(w) \/ CheckIndex(w)
  \/ RestoreFile(w) \/ RemoveFile(w) \/ PutBackFile(w) \/ RestoreEnds(w)
  \/ ReleaseLock(w)

\* What a writer, or the child it left behind, may do.
WriterStep(w) == Observe(w) \/ Step(w) \/ StrayChildSwaps(w) \/ Crash(w)

Next == (\E w \in Writer : WriterStep(w)) \/ OutsideStep

Spec == Init /\ [][Next]_vars

(***************************************************************************)
(* Properties.                                                             *)
(***************************************************************************)
Published(w) == newCommit[w] # 0 /\ Reachable(newCommit[w])
Ours(w) == {Part(w), Whole(w)}

\* No commit that a branch ever named drops out of its history: concurrent
\* operations, a late git child and outside commits only ever add to it.
NoLostCommit == \A b \in Branch : everTip[b] \subseteq PastOf(tip[b])

\* The object store and the branches are sound, and no commit is thrown away.
HistoryIsKept == TypeOK /\ NoLostCommit

\* An operation is published on the branch and on top of the very commit it was
\* planned against, although HEAD and the branch move while it runs.
PublishedAsPlanned ==
  \A w \in Writer : (Published(w) /\ ChecksBasis(w)) =>
    /\ commits[newCommit[w]].parent = basis[w].commit
    /\ \A b \in Branch : OnBranch(newCommit[w], b) => b = basis[w].ref

\* The caller can rely on the answer: a result means the commit is published,
\* and an ordinary error of the publishing variant means that it is not and
\* will not be, unless its git child may outlive it.
AnswerMatchesBranch ==
  \A w \in Writer \ Outliving : At(w, "done") =>
    /\ outcome[w] = "ok" => Published(w)
    /\ (outcome[w] = "failed" /\ Publishes(w)) => ~Published(w)

\* All or nothing: after an ordinary error either the commit is published or
\* none of the operation's bytes, whole or partial, is left in the worktree,
\* whichever stage failed.
FailureLeavesNothing ==
  \A w \in Writer : (At(w, "done") /\ outcome[w] = "failed") =>
    \/ Published(w)
    \/ \A p \in Path : worktree[p] \notin Ours(w)

\* Files are deleted only of an operation that is not published and never will
\* be ("never touch files or the index until the branch is proven to remain at
\* its original tip"), unless a git child of it may outlive it.
RollbackOnlyIfUnpublished ==
  \A w \in Writer \ Outliving :
    (cursor[w] > 0 \/ pc[w] \in {"index", "restore", "remove", "putback"})
      => ~Published(w)

\* The caller is told what the branch says, and the worktree agrees with both.
AnswerIsTrue == AnswerMatchesBranch /\ RollbackOnlyIfUnpublished /\ FailureLeavesNothing

\* The index publisher sees the commits of all writers in history order: none
\* is announced after one of its descendants.
PublicationInOrder ==
  \A i, j \in DOMAIN publications :
    i < j => publications[j] \notin PastOf(publications[i])

\* Stage 3 is documented to reject a repository with an active git operation.
NoCommitDuringMerge == \A w \in Writer : sawMerge[w] => ~Published(w)

=============================================================================
