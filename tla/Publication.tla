----------------------------- MODULE Publication -----------------------------
(***************************************************************************)
(* Materialisation and publication of an index database                    *)
(* (src/src/Adrai/Service/PostCommitIndex/Internal.hs and Native.hs): a    *)
(* publisher builds a private candidate beside the target, refreshes and   *)
(* validates it, installs it under the target's name and, since an install *)
(* that reports a failure may have happened all the same, observes the     *)
(* paths before it decides what to sweep and what to report.               *)
(*                                                                         *)
(* The install primitive is a dependency of the code.  For most publishers *)
(* it is the rename of the production dependencies; those of Replacing     *)
(* have one that moves the target to the backup path before it moves the   *)
(* candidate in, which is the failure the reconciliation is written for.   *)
(***************************************************************************)
EXTENDS Naturals, FiniteSets

CONSTANTS
  Publisher,        \* publications of one target, of any thread or process
  Replacing,        \* those whose install goes through the backup path
  MaximumRestores,  \* maximumRestoreAttempts
  None, Old         \* no file; the database there was at first

\* What a file holds: whose database, and is it closed, refreshed and validated?
File == [by : Publisher \cup {Old}, whole : BOOLEAN]

\* What the constants have to be.
PublicationConstants ==
  /\ None \notin Publisher \cup File /\ Old \notin Publisher
  /\ Replacing \subseteq Publisher /\ MaximumRestores \in Nat

Place == File \cup {None}
Exists(file) == file # None
Whole(file) == Exists(file) /\ file.whole

VARIABLES
  target,      \* the published path
  candidate,   \* per publisher, its candidate
  sidecar,     \* per publisher, does a -journal, -shm or -wal file exist?
  backup,      \* per publisher, its backup path
  pc,          \* per publisher, the step it is at
  existed,     \* per publisher, did the target exist when it looked?
  problem,     \* per publisher, has a failure been recorded?
  cancelled,   \* per publisher, has an asynchronous exception been captured?
  restores,    \* per publisher, restore attempts
  outcome,     \* per publisher, what it reported
  installed,   \* history: publishers whose candidate became the target
  stuck        \* history: publishers one of whose removals failed

files == <<target, candidate, sidecar, backup>>
vars == <<target, candidate, sidecar, backup, pc, existed, problem, cancelled,
          restores, outcome, installed, stuck>>

PC == {"idle", "build", "refresh", "observe", "reserve", "unreserve", "install",
       "replace", "reobserve", "reconcile", "sweep", "retain", "done", "dead"}

TypeOK ==
  /\ target \in Place
  /\ candidate \in [Publisher -> Place]
  /\ sidecar \in [Publisher -> BOOLEAN]
  /\ backup \in [Publisher -> Place]
  /\ pc \in [Publisher -> PC]
  /\ existed \in [Publisher -> BOOLEAN]
  /\ problem \in [Publisher -> BOOLEAN]
  /\ cancelled \in [Publisher -> BOOLEAN]
  /\ restores \in [Publisher -> 0..MaximumRestores]
  /\ outcome \in [Publisher -> {"none", "succeeded", "failed", "failstop", "cancelled"}]
  /\ installed \in SUBSET Publisher
  /\ stuck \in SUBSET Publisher

Init ==
  /\ target \in {None, [by |-> Old, whole |-> TRUE]}
  /\ candidate = [p \in Publisher |-> None]
  /\ sidecar = [p \in Publisher |-> FALSE]
  /\ backup = [p \in Publisher |-> None]
  /\ pc = [p \in Publisher |-> "idle"]
  /\ existed = [p \in Publisher |-> FALSE]
  /\ problem = [p \in Publisher |-> FALSE]
  /\ cancelled = [p \in Publisher |-> FALSE]
  /\ restores = [p \in Publisher |-> 0]
  /\ outcome = [p \in Publisher |-> "none"]
  /\ installed = {}
  /\ stuck = {}

Goto(p, step) == pc' = [pc EXCEPT ![p] = step]

\* tryAny: a call failed, with an ordinary or an asynchronous exception.
Failure(p) ==
  \/ problem' = [problem EXCEPT ![p] = TRUE] /\ UNCHANGED cancelled
  \/ cancelled' = [cancelled EXCEPT ![p] = TRUE] /\ UNCHANGED problem
NoFailure == UNCHANGED <<problem, cancelled>>

(***************************************************************************)
(* The candidate (createOwnedTemporary, compileAt, clone...AfterCopy).     *)
(***************************************************************************)
Create(p) ==
  /\ pc[p] = "idle"
  /\ \/ /\ candidate' = [candidate EXCEPT ![p] = [by |-> p, whole |-> FALSE]]
        /\ \/ NoFailure /\ Goto(p, "build")
           \/ Failure(p) /\ Goto(p, "sweep")
     \/ Failure(p) /\ Goto(p, "sweep") /\ UNCHANGED candidate
  /\ UNCHANGED <<target, sidecar, backup, existed, restores, outcome, installed, stuck>>

\* Open, compile (or copy, validate and retarget) and close the candidate.
Build(p) ==
  /\ pc[p] = "build"
  /\ \/ NoFailure /\ Goto(p, "refresh") /\ UNCHANGED sidecar
     \/ /\ Failure(p) /\ Goto(p, "sweep")
        /\ \E left \in BOOLEAN : sidecar' = [sidecar EXCEPT ![p] = left]
  /\ UNCHANGED <<target, candidate, backup, existed, restores, outcome, installed, stuck>>

\* Mutant: the candidate is published before its fingerprint is recommitted.
RefreshLater(p) ==
  /\ pc[p] = "refresh"
  /\ Goto(p, "observe")
  /\ UNCHANGED <<files, existed, problem, cancelled, restores, outcome, installed, stuck>>

\* The refresh callback and the fingerprint; then publishCandidate.
Refresh(p) ==
  /\ pc[p] = "refresh"
  /\ \/ /\ candidate' = [candidate EXCEPT ![p].whole = TRUE]
        /\ NoFailure /\ Goto(p, "observe") /\ UNCHANGED sidecar
     \/ /\ Failure(p) /\ Goto(p, "sweep") /\ UNCHANGED candidate
        /\ \E left \in BOOLEAN : sidecar' = [sidecar EXCEPT ![p] = left]
  /\ UNCHANGED <<target, backup, existed, restores, outcome, installed, stuck>>

(***************************************************************************)
(* Publication (publishCandidateOwned).                                    *)
(***************************************************************************)
Observe(p) ==
  /\ pc[p] = "observe"
  /\ \/ /\ existed' = [existed EXCEPT ![p] = Exists(target)]
        /\ NoFailure
        /\ Goto(p, IF Exists(target) THEN "reserve" ELSE "install")
     \/ Failure(p) /\ Goto(p, "sweep") /\ UNCHANGED existed
  /\ UNCHANGED <<files, restores, outcome, installed, stuck>>

\* An empty file reserves the backup's name; one that does not close is swept
\* like the candidate ...
Reserve(p) ==
  /\ pc[p] = "reserve"
  /\ LET empty == [by |-> p, whole |-> FALSE] IN
     \/ /\ backup' = [backup EXCEPT ![p] = empty]
        /\ NoFailure /\ Goto(p, "unreserve")
     \/ /\ Failure(p) /\ Goto(p, "sweep")
        /\ \E left \in {None, empty} : backup' = [backup EXCEPT ![p] = left]
  /\ UNCHANGED <<target, candidate, sidecar, existed, restores, outcome, installed, stuck>>

\* ... and is removed again before the install.
Unreserve(p) ==
  /\ pc[p] = "unreserve"
  /\ \/ backup' = [backup EXCEPT ![p] = None] /\ NoFailure /\ Goto(p, "install")
     \/ Failure(p) /\ Goto(p, "sweep") /\ UNCHANGED backup
  /\ UNCHANGED <<target, candidate, sidecar, existed, restores, outcome, installed, stuck>>

\* The candidate takes the target's name.  The primitive can report a failure
\* after that (the synchronisation of the directory).
MoveIn(p) ==
  /\ target' = candidate[p]
  /\ candidate' = [candidate EXCEPT ![p] = None]
  /\ installed' = installed \cup {p}
  /\ NoFailure \/ Failure(p)
  /\ Goto(p, "reobserve")

\* Mutant: the primitive unlinks the target before it renames.
InstallFailsUnlinked(p) ==
  /\ Failure(p) /\ Goto(p, "reobserve")
  /\ target' = None
  /\ UNCHANGED <<candidate, installed>>

\* The primitive fails with no effect on the names.
InstallFails(p) ==
  /\ Failure(p) /\ Goto(p, "reobserve")
  /\ UNCHANGED <<target, candidate, installed>>

Install(p) ==
  /\ pc[p] = "install"
  /\ \/ (p \notin Replacing \/ ~existed[p]) /\ MoveIn(p) /\ UNCHANGED backup
     \/ /\ p \in Replacing /\ existed[p] /\ Exists(target)
        /\ backup' = [backup EXCEPT ![p] = target]
        /\ target' = None
        /\ NoFailure
        /\ Goto(p, "replace")
        /\ UNCHANGED <<candidate, installed>>
     \/ InstallFails(p) /\ UNCHANGED backup
  /\ UNCHANGED <<sidecar, existed, restores, outcome, stuck>>

\* The second half of a replace-style primitive.
Replace(p) ==
  /\ pc[p] = "replace"
  /\ MoveIn(p) \/ InstallFails(p)
  /\ UNCHANGED <<backup, sidecar, existed, restores, outcome, stuck>>

InstallationProven(p) == Exists(target) /\ ~Exists(candidate[p])

\* Mutant: a replacement that was not proven is swept without reconciliation.
ReobserveUnreconciled(p) ==
  /\ pc[p] = "reobserve"
  /\ Goto(p, "sweep")
  /\ IF InstallationProven(p) THEN NoFailure ELSE Failure(p)
  /\ UNCHANGED <<files, existed, restores, outcome, installed, stuck>>

\* observePublicationState after the install, whatever that reported.  Without
\* a prior target, a target that appeared beside the candidate is ambiguous.
Reobserve(p) ==
  /\ pc[p] = "reobserve"
  /\ \/ /\ InstallationProven(p) /\ NoFailure /\ Goto(p, "sweep")
     \/ /\ ~InstallationProven(p)
        /\ problem' = [problem EXCEPT ![p] = TRUE] /\ UNCHANGED cancelled
        /\ Goto(p, IF existed[p] THEN "reconcile"
                   ELSE IF Exists(target) THEN "retain" ELSE "sweep")
     \/ /\ problem' = [problem EXCEPT ![p] = TRUE]
        /\ \/ UNCHANGED cancelled
           \/ cancelled' = [cancelled EXCEPT ![p] = TRUE]
        /\ Goto(p, "retain")
  /\ UNCHANGED <<files, existed, restores, outcome, installed, stuck>>

\* The backup takes the target's name, or does not.
MoveBack(p) ==
  \/ /\ target' = backup[p]
     /\ backup' = [backup EXCEPT ![p] = None]
     /\ NoFailure \/ Failure(p)
  \/ Failure(p) /\ UNCHANGED <<target, backup>>

\* Mutant: attempts are counted but not limited.
RestoreUnlimited(p) ==
  /\ pc[p] = "reconcile"
  /\ Exists(backup[p])
  /\ restores' = [restores EXCEPT ![p] = @ + 1]
  /\ MoveBack(p)
  /\ UNCHANGED <<candidate, sidecar, pc, existed, outcome, installed, stuck>>

\* restorePriorTargetCaptured: every attempt may fail before or after its
\* effect, so the paths are observed again before the next step is chosen.
Restore(p) ==
  /\ pc[p] = "reconcile"
  /\ Exists(backup[p]) /\ restores[p] < MaximumRestores
  /\ restores' = [restores EXCEPT ![p] = @ + 1]
  /\ MoveBack(p)
  /\ UNCHANGED <<candidate, sidecar, pc, existed, outcome, installed, stuck>>

\* Mutant: when the attempts are used up the paths are swept.
EndRestoreSweeping(p) ==
  /\ pc[p] = "reconcile"
  /\ Exists(backup[p]) => restores[p] = MaximumRestores
  /\ Goto(p, "sweep")
  /\ UNCHANGED <<files, existed, problem, cancelled, restores, outcome, installed, stuck>>

EndRestore(p) ==
  /\ pc[p] = "reconcile"
  /\ \/ /\ Exists(backup[p]) => restores[p] = MaximumRestores
        /\ Goto(p, IF Exists(target) /\ ~Exists(backup[p]) THEN "sweep" ELSE "retain")
        /\ NoFailure
     \/ Failure(p) /\ Goto(p, "retain")
  /\ UNCHANGED <<files, existed, restores, outcome, installed, stuck>>

(***************************************************************************)
(* Cleanup and report (cleanupOwnedPathsCaptured, finishPublication): every *)
(* path is attempted, and each removal can fail by itself.                 *)
(***************************************************************************)
\* Mutant: a failure that cleanup survived is dropped from the report.
FinishOptimistic(p, failStop) ==
  /\ Goto(p, "done")
  /\ outcome' = [outcome EXCEPT ![p] =
       IF cancelled'[p] THEN "cancelled"
       ELSE IF failStop THEN "failstop"
       ELSE "succeeded"]

Finish(p, failStop) ==
  /\ Goto(p, "done")
  /\ outcome' = [outcome EXCEPT ![p] =
       IF cancelled'[p] THEN "cancelled"
       ELSE IF failStop THEN "failstop"
       ELSE IF problem'[p] THEN "failed"
       ELSE "succeeded"]

\* Some of the present paths stay where they are, which is a problem of its own.
Removals(p, present, left) ==
  /\ left \subseteq present
  /\ IF left = {} THEN NoFailure /\ UNCHANGED stuck
                  ELSE Failure(p) /\ stuck' = stuck \cup {p}

\* Mutant: only the candidate's own paths are swept.
SweepCandidate(p) ==
  /\ pc[p] = "sweep"
  /\ candidate' = [candidate EXCEPT ![p] = None]
  /\ sidecar' = [sidecar EXCEPT ![p] = FALSE]
  /\ NoFailure
  /\ Finish(p, FALSE)
  /\ UNCHANGED <<target, backup, existed, restores, installed, stuck>>

Sweep(p) ==
  /\ pc[p] = "sweep"
  /\ \E left \in SUBSET {"candidate", "sidecar", "backup"} :
       /\ Removals(p, (IF Exists(candidate[p]) THEN {"candidate"} ELSE {})
                      \cup (IF sidecar[p] THEN {"sidecar"} ELSE {})
                      \cup (IF Exists(backup[p]) THEN {"backup"} ELSE {}), left)
       /\ candidate' = [candidate EXCEPT ![p] = IF "candidate" \in left THEN @ ELSE None]
       /\ sidecar' = [sidecar EXCEPT ![p] = "sidecar" \in left]
       /\ backup' = [backup EXCEPT ![p] = IF "backup" \in left THEN @ ELSE None]
  /\ Finish(p, FALSE)
  /\ UNCHANGED <<target, existed, restores, installed>>

\* Fail stop: the candidate and the backup may be the only remaining copies.
Retain(p) ==
  /\ pc[p] = "retain"
  /\ \E left \in SUBSET {"sidecar"} :
       /\ Removals(p, IF sidecar[p] THEN {"sidecar"} ELSE {}, left)
       /\ sidecar' = [sidecar EXCEPT ![p] = "sidecar" \in left]
  /\ Finish(p, TRUE)
  /\ UNCHANGED <<target, candidate, backup, existed, restores, installed>>

\* The process dies and leaves its files.
Crash(p) ==
  /\ pc[p] \notin {"idle", "done", "dead"}
  /\ Goto(p, "dead")
  /\ UNCHANGED <<files, existed, problem, cancelled, restores, outcome, installed, stuck>>

Step(p) ==
  \/ Create(p) \/ Build(p) \/ Refresh(p) \/ Observe(p) \/ Reserve(p) \/ Unreserve(p)
  \/ Install(p) \/ Replace(p) \/ Reobserve(p) \/ Restore(p) \/ EndRestore(p)
  \/ Sweep(p) \/ Retain(p)

Next == \E p \in Publisher : Step(p) \/ Crash(p)

Spec == Init /\ [][Next]_vars

(***************************************************************************)
(* Properties.                                                             *)
(***************************************************************************)

\* The target changes in one step from nothing or a database to a finished
\* database, whatever fails, crashes or races: by the rename of the production
\* dependencies no reader finds it missing or unfinished.
Renames == \E p \in Publisher \ Replacing : pc'[p] # pc[p]
PublishesWhole == Renames /\ target' # target => Whole(target')
AtomicPublication == [][PublishesWhole]_vars

\* Once there was a database there always is one, under the target's name or
\* among the files a publisher retains: no wrong guess about a failed install
\* or restore, and no sweep after one, deletes the last copy.  And all variables
\* keep their types.
NothingLost ==
  /\ TypeOK
  /\ (\E p \in Publisher : existed[p]) =>
       \/ Whole(target)
       \/ \E p \in Publisher : Whole(candidate[p]) \/ Whole(backup[p])

\* Nobody else may have moved the target to its backup path.
Undisturbed(p) == \A q \in Replacing \ {p} : pc[q] = "idle"

\* What a report promises.  Success: the candidate did become the target, and
\* nothing of the publisher's own is left beside it.  Success or an ordinary
\* failure: a database is under the target's name if there was one, unless another
\* publisher may have it in its backup path.  Anything but fail stop: files are only
\* left behind by a removal that failed.
ReportIsTrue ==
  \A p \in Publisher : pc[p] = "done" =>
    LET litter == Exists(candidate[p]) \/ Exists(backup[p]) \/ sidecar[p] IN
    /\ outcome[p] = "succeeded" => p \in installed /\ ~litter
    /\ (outcome[p] \in {"succeeded", "failed"} /\ existed[p] /\ Undisturbed(p)) => Whole(target)
    /\ litter => outcome[p] \in {"failstop", "cancelled"} \/ p \in stuck
=============================================================================
