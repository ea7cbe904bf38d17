------------------------------ MODULE Bootstrap ------------------------------
(***************************************************************************)
(* The bootstrap commit of `adrai init` (commitBootstrapFiles in           *)
(* src/src/Adrai/Service/Transaction.hs, prepareInitCommand in             *)
(* Mutation.hs).  Unlike the append-only transaction it accepts an unborn  *)
(* branch, overwrites files, backs them up before it has the lock, and     *)
(* rolls back after it has given the lock away.                            *)
(***************************************************************************)
EXTENDS Repo

CONSTANTS
  Files,      \* the sequence of paths init generates
  MayCancel   \* may an init be cancelled?

ASSUME FilesAssumption == Files \in Seq(Path)
ASSUME ModeAssumption == MayCancel \in BOOLEAN

VARIABLES
  pc,         \* per writer, its stage
  expected,   \* configExpectedHead, observed before the lock; 0 is nullOid
  backup,     \* backupFiles: preimages captured before the lock, or None
  written,    \* how many of Files have been written
  branchRef,  \* the branch HEAD named after the files were written
  candidate,  \* casCandidateRef: the commit recorded before update-ref, or 0
  built,      \* the commit made by commit-tree, or 0
  failure,    \* "none", "sync" or "async"
  cursor,     \* how many files the rollback has dealt with
  outcome     \* what the caller gets

found == <<expected, backup>>
made == <<candidate, built>>
txnVars == <<pc, found, written, branchRef, made, failure, cursor, outcome>>
vars == <<repoVars, inside, txnVars>>

PC == {"idle", "backup", "lock", "resolve", "write", "branch", "build", "record",
       "cas", "refresh", "unlock", "handle", "rollback", "done", "dead"}

TypeOK ==
  /\ RepoTypeOK
  /\ pc \in [Writer -> PC]
  /\ expected \in [Writer -> 0..MaxCommit]
  /\ \A w \in Writer : backup[w] # None => backup[w] \in [Path -> Content]
  /\ written \in [Writer -> 0..Len(Files)] /\ cursor \in [Writer -> 0..Len(Files)]
  /\ branchRef \in [Writer -> Branch \cup {None}]
  /\ built \in [Writer -> 0..MaxCommit]
  /\ \A w \in Writer : candidate[w] \in {0, built[w]}
  /\ failure \in [Writer -> {"none", "sync", "async"}]
  /\ outcome \in [Writer -> {"none", "ok", "failed", "cancelled", "unsafe", "conflict"}]
  /\ \A w \in inside : pc[w] \in {"resolve", "write", "branch", "build", "record", "cas",
                                  "refresh", "unlock"}

Init ==
  /\ Lock!Init
  /\ head \in Branch
  /\ commits \in {<<>>, <<[past |-> {1}, parent |-> 0, files |-> Nothing]>>}
  /\ tip = [b \in Branch |-> Len(commits)]
  /\ everTip = [b \in Branch |-> 1..Len(commits)]
  /\ worktree \in [Path -> {Absent, Foreign}] /\ index = Nothing
  /\ pc = [w \in Writer |-> "idle"]
  /\ expected = [w \in Writer |-> 0]
  /\ backup = [w \in Writer |-> None]
  /\ written = [w \in Writer |-> 0] /\ cursor = [w \in Writer |-> 0]
  /\ branchRef = [w \in Writer |-> None]
  /\ candidate = [w \in Writer |-> 0] /\ built = [w \in Writer |-> 0]
  /\ failure = [w \in Writer |-> "none"]
  /\ outcome = [w \in Writer |-> "none"]

At(w, stage) == pc[w] = stage
Goto(w, stage) == pc' = [pc EXCEPT ![w] = stage]
Owned == {Files[i] : i \in DOMAIN Files}
Raised == {"sync"} \cup (IF MayCancel THEN {"async"} ELSE {})
Told(kind) == IF kind = "async" THEN "cancelled" ELSE "failed"
End(w, result) == outcome' = [outcome EXCEPT ![w] = result] /\ Goto(w, "done")

\* Mutant: an exception skips the release.
FailLocked(w) ==
  /\ \E kind \in Raised : failure' = [failure EXCEPT ![w] = kind]
  /\ Goto(w, "handle")

\* An exception leaves the locked body; the handler runs without the lock.
Fail(w) ==
  /\ \E kind \in Raised : failure' = [failure EXCEPT ![w] = kind]
  /\ Goto(w, "unlock")

(***************************************************************************)
(* Before the lock.                                                        *)
(***************************************************************************)
PrepareInit(w) ==
  /\ At(w, "idle") /\ head # None
  /\ expected' = [expected EXCEPT ![w] = tip[head]]
  /\ Goto(w, "backup")
  /\ UNCHANGED <<repoVars, inside, backup, written, branchRef, made, failure, cursor, outcome>>

BackUp(w) ==
  /\ At(w, "backup")
  /\ backup' = [backup EXCEPT ![w] =
                  [p \in Path |-> IF p \in Owned THEN worktree[p] ELSE Absent]]
  /\ Goto(w, "lock")
  /\ UNCHANGED <<repoVars, inside, expected, written, branchRef, made, failure, cursor,
                 outcome>>

AcquireLock(w) ==
  /\ At(w, "lock")
  /\ Lock!Enter(w)
  /\ Goto(w, "resolve")
  /\ UNCHANGED <<repoVars, found, written, branchRef, made, failure, cursor, outcome>>

\* LockHeld after the wait, or a cancellation of it: the handler runs as well.
LockFails(w) ==
  /\ At(w, "lock")
  /\ \E kind \in Raised : failure' = [failure EXCEPT ![w] = kind]
  /\ Goto(w, "handle")
  /\ UNCHANGED <<repoVars, inside, found, written, branchRef, made, cursor, outcome>>

(***************************************************************************)
(* With the lock.                                                          *)
(***************************************************************************)
\* A detached HEAD resolves too, to a commit that may be the expected one; and when git
\* fails HEAD is taken for unborn.
ResolveHead(w) ==
  /\ At(w, "resolve")
  /\ head # None /\ expected[w] # 0 => tip[head] = expected[w]
  /\ Goto(w, "write")
  /\ UNCHANGED <<repoVars, inside, found, written, branchRef, made, failure, cursor, outcome>>

WriteFile(w) ==
  /\ At(w, "write")
  /\ written[w] < Len(Files)
  /\ worktree' = [worktree EXCEPT ![Files[written[w] + 1]] = Whole(w)]
  /\ written' = [written EXCEPT ![w] = @ + 1]
  /\ Goto(w, IF written'[w] = Len(Files) THEN "branch" ELSE "write")
  /\ UNCHANGED <<head, tip, commits, index, everTip, inside, found, branchRef, made, failure,
                 cursor, outcome>>

WriteFails(w) ==
  /\ At(w, "write") /\ written[w] < Len(Files)
  /\ LET p == Files[written[w] + 1] IN
     \E c \in {worktree[p], Part(w)} : worktree' = [worktree EXCEPT ![p] = c]
  /\ Fail(w)
  /\ UNCHANGED <<head, tip, commits, index, everTip, inside, found, written, branchRef, made,
                 cursor, outcome>>

ReadBranch(w) ==
  /\ At(w, "branch") /\ head # None
  /\ branchRef' = [branchRef EXCEPT ![w] = head]
  /\ Goto(w, "build")
  /\ UNCHANGED <<repoVars, inside, found, written, made, failure, cursor, outcome>>

BuildCommit(w) ==
  /\ At(w, "build")
  /\ \A p \in Owned : worktree[p] # Absent
  /\ CommitTree(expected[w], [p \in Path |-> IF p \in Owned THEN worktree[p]
                                             ELSE FilesOf(expected[w])[p]])
  /\ built' = [built EXCEPT ![w] = NewOid]
  /\ Goto(w, "record")
  /\ UNCHANGED <<head, tip, worktree, index, everTip, inside, found, written, branchRef,
                 candidate, failure, cursor, outcome>>

\* Mutant: the commit to replace is recorded.
RecordExpected(w) ==
  /\ At(w, "record")
  /\ candidate' = [candidate EXCEPT ![w] = expected[w]]
  /\ Goto(w, "cas")
  /\ UNCHANGED <<repoVars, inside, found, written, branchRef, built, failure, cursor, outcome>>

\* Mutant: no candidate is recorded.
RecordNothing(w) ==
  /\ At(w, "record")
  /\ Goto(w, "cas")
  /\ UNCHANGED <<repoVars, inside, found, written, branchRef, made, failure, cursor, outcome>>

\* The candidate is recorded before update-ref runs.
RecordCandidate(w) ==
  /\ At(w, "record")
  /\ candidate' = [candidate EXCEPT ![w] = built[w]]
  /\ Goto(w, "cas")
  /\ UNCHANGED <<repoVars, inside, found, written, branchRef, built, failure, cursor, outcome>>

\* Mutant: the branch is set, whatever it names.
SwapBlindly(w) ==
  /\ tip' = [tip EXCEPT ![branchRef[w]] = built[w]]
  /\ everTip' = [everTip EXCEPT ![branchRef[w]] = @ \cup {built[w]}]

Swap(w) == UpdateRef(branchRef[w], built[w], expected[w])

CasSucceeds(w) ==
  /\ At(w, "cas")
  /\ Swap(w)
  /\ Goto(w, "refresh")
  /\ UNCHANGED <<head, commits, worktree, index, inside, found, written, branchRef, made,
                 failure, cursor, outcome>>

CasFails(w) ==
  /\ At(w, "cas")
  /\ Swap(w) \/ UNCHANGED <<tip, everTip>>
  /\ Fail(w)
  /\ UNCHANGED <<head, commits, worktree, index, inside, found, written, branchRef, made,
                 cursor, outcome>>

\* git reset -q HEAD: whatever HEAD names by now.
Refresh(w) ==
  /\ At(w, "refresh")
  /\ \/ head # None /\ ResetPaths(tip[head], Owned)
     \/ UNCHANGED index
  /\ Goto(w, "unlock")
  /\ UNCHANGED <<head, tip, commits, worktree, everTip, inside, found, written, branchRef, made,
                 failure, cursor, outcome>>

BodyFails(w) ==
  /\ pc[w] \in {"resolve", "branch", "build", "record", "refresh"}
  /\ Fail(w)
  /\ UNCHANGED <<repoVars, inside, found, written, branchRef, made, cursor, outcome>>

\* Mutant: the body's exception is swallowed.
UnlockQuietly(w) ==
  /\ At(w, "unlock")
  /\ Lock!Leave
  /\ End(w, "ok")
  /\ UNCHANGED <<repoVars, found, written, branchRef, made, failure, cursor>>

\* A close failure is the exception of an otherwise successful body.
Unlock(w) ==
  /\ At(w, "unlock")
  /\ Lock!Leave
  /\ \/ failure[w] = "none" /\ End(w, "ok") /\ UNCHANGED failure
     \/ /\ failure' = [failure EXCEPT ![w] = IF @ = "none" THEN "sync" ELSE @]
        /\ Goto(w, "handle") /\ UNCHANGED outcome
  /\ UNCHANGED <<repoVars, found, written, branchRef, made, cursor>>

(***************************************************************************)
(* The handler, without the lock.                                          *)
(***************************************************************************)
\* inspectBootstrapCasCandidate: the branch is the authority.
Inspect(w) ==
  LET actual == tip[branchRef[w]] IN
  /\ At(w, "handle")
  /\ CASE candidate[w] = 0 -> Goto(w, "rollback") /\ UNCHANGED outcome
       [] candidate[w] # 0 /\ actual = candidate[w] ->
            End(w, IF failure[w] = "async" THEN "cancelled" ELSE "ok")
       [] candidate[w] # 0 /\ actual = expected[w] -> Goto(w, "rollback") /\ UNCHANGED outcome
       [] OTHER -> End(w, "conflict")
  /\ UNCHANGED <<repoVars, inside, found, written, branchRef, made, failure, cursor>>

InspectFails(w) ==
  /\ At(w, "handle") /\ candidate[w] # 0
  /\ End(w, "conflict")
  /\ UNCHANGED <<repoVars, inside, found, written, branchRef, made, failure, cursor>>

\* restoreOrDelete: put the backup back, or delete; deleting nothing is an error.
RestoreOrDelete(w) ==
  LET p == Files[cursor[w] + 1] IN
  /\ At(w, "rollback")
  /\ cursor[w] < Len(Files)
  /\ \/ /\ backup[w][p] # Absent \/ worktree[p] # Absent
        /\ worktree' = [worktree EXCEPT ![p] = backup[w][p]]
        /\ cursor' = [cursor EXCEPT ![w] = @ + 1]
        /\ UNCHANGED <<pc, outcome>>
     \/ /\ End(w, IF failure[w] = "async" THEN "cancelled" ELSE "unsafe")
        /\ UNCHANGED <<worktree, cursor>>
  /\ UNCHANGED <<head, tip, commits, index, everTip, inside, found, written, branchRef, made,
                 failure>>

\* Mutant: only the files that were written whole are restored.
RollbackEndsEarly(w) ==
  /\ At(w, "rollback")
  /\ cursor[w] = written[w]
  /\ End(w, Told(failure[w]))
  /\ UNCHANGED <<repoVars, inside, found, written, branchRef, made, failure, cursor>>

RollbackEnds(w) ==
  /\ At(w, "rollback")
  /\ cursor[w] = Len(Files)
  /\ End(w, Told(failure[w]))
  /\ UNCHANGED <<repoVars, inside, found, written, branchRef, made, failure, cursor>>

Crash(w) ==
  /\ pc[w] \notin {"idle", "done", "dead"}
  /\ Goto(w, "dead")
  /\ IF w \in inside THEN Lock!Leave ELSE UNCHANGED inside
  /\ UNCHANGED <<repoVars, found, written, branchRef, made, failure, cursor, outcome>>

OutsideStep == Outside /\ UNCHANGED <<inside, txnVars>>

Step(w) ==
  \/ BackUp(w) \/ AcquireLock(w) \/ LockFails(w)
  \/ ResolveHead(w) \/ WriteFile(w) \/ WriteFails(w) \/ ReadBranch(w)
  \/ BuildCommit(w) \/ RecordCandidate(w) \/ CasSucceeds(w) \/ CasFails(w)
  \/ Refresh(w) \/ BodyFails(w) \/ Unlock(w)
  \/ Inspect(w) \/ InspectFails(w) \/ RestoreOrDelete(w) \/ RollbackEnds(w)

Next ==
  \/ \E w \in Writer : PrepareInit(w) \/ Step(w) \/ Crash(w)
  \/ OutsideStep

Spec == Init /\ [][Next]_vars

(***************************************************************************)
(* Properties.                                                             *)
(***************************************************************************)
Published(w) == built[w] # 0 /\ Reachable(built[w])

\* "cancellation in the small gap after Git publishes the ref cannot be mistaken
\* for an unpublished CAS": files are rolled back and an ordinary error is told
\* only when the commit is not published, and a result means that it is, on top
\* of the commit the init was prepared for.
OutcomeIsTrue ==
  \A w \in Writer :
    /\ (At(w, "rollback") \/ outcome[w] = "failed") => ~Published(w)
    /\ outcome[w] = "ok" => Published(w) /\ commits[built[w]].parent = expected[w]

\* The same, and all variables keep their types.
OutcomesAreTrue == TypeOK /\ OutcomeIsTrue

\* "Backs up existing files and restores on failure": an init that no other init
\* interferes with and that fails leaves every file as it found it, but for those that
\* people edit meanwhile.
Alone(w) == \A v \in Writer \ {w} : At(v, "idle")
FailureRestores ==
  \A w \in Writer : (outcome[w] = "failed" /\ Alone(w)) =>
    \A p \in Owned \ EditedPath : worktree[p] = backup[w][p]

\* "Delete the file we created": the rollback of an init deletes no file that
\* another operation wrote.
DeletesOnlyItsOwn ==
  [][\A w \in Writer, p \in Path :
       (cursor'[w] # cursor[w] /\ worktree'[p] = Absent /\ worktree[p] # Absent)
         => worktree[p] \in {Part(w), Whole(w)}]_vars

=============================================================================
