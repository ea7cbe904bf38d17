--------------------------- MODULE TransactionProofs ---------------------------
(***************************************************************************)
(* Proofs about the append-only transaction (Transaction.tla), for any     *)
(* number of writers, branches, paths and commits, and with every failure, *)
(* crash, late git child and outside step the model has.                   *)
(*                                                                         *)
(* The inductive invariant is built in layers, each inductive over the     *)
(* ones before it:                                                         *)
(*   Typed     types, the exclusion of the lock, what each stage holds;    *)
(*   History   every writer's commit sits on its own basis, and is on no   *)
(*             branch but the pinned one; branches only grow;              *)
(*   AnswerOK  what the stages and the answers say of the branch;          *)
(*   BytesOK   where an operation's bytes are in the worktree;             *)
(*   OrderOK   what is not announced is in no announced history.           *)
(***************************************************************************)
EXTENDS Transaction, TLAPS


\* The stages under the lock; those that have pinned a branch, those that have a
\* snapshot, and those of a commit that is neither given up nor forgotten.
Locked == PC \ {"idle", "planned", "done", "dead"}
Pinned == Locked \ {"checks", "pin", "release"}
Prepared == Pinned \ {"resolve", "snapshot"}
Built == {"cas", "classify", "publish", "refresh"}

\* What an operation holds at the stage it is at: a pinned branch, a snapshot, a
\* recorded file, a file left to restore, a commit.
StageOK(w) ==
  /\ basis[w].commit <= Len(commits)
  /\ pc[w] \in Pinned => target[w] \in Branch
  /\ pc[w] \in Prepared => snapshot[w] \in Snapshot
  /\ pc[w] = "write" => written[w] # 0
  /\ pc[w] \in {"remove", "putback"} => cursor[w] < written[w]
  /\ (pc[w] \in Built \/ stray[w]) => newCommit[w] # 0
  /\ newCommit[w] # 0 => newCommit[w] <= Len(commits) /\ target[w] \in Branch

\* Whoever is in the lock is under way, and is there alone.
LockOK ==
  /\ \A w \in Writer : w \in inside <=> pc[w] \in Locked
  /\ \A v, w \in inside : v = w

\* The first layer of the inductive invariant.
Typed == TypeOK /\ LockOK /\ \A w \in Writer : StageOK(w)

\* What a path can hold has a value for every writer, whole or cut short.
LEMMA Contents ==
  /\ Absent \in Content /\ Foreign \in Content
  /\ \A w \in Writer : Whole(w) \in Content /\ Part(w) \in Content
BY DEF Content, Absent, Foreign, Whole, Part

\* The files of any commit, or of none, are a content for every path.
LEMMA FilesTyped ==
  ASSUME RepoTypeOK, NEW c \in 0..Len(commits)
  PROVE  FilesOf(c) \in [Path -> Content]
<1>1. CASE c = 0
  BY <1>1, Contents DEF FilesOf, Nothing
<1>2. CASE c # 0
  <2>1. commits[c] \in Commit
    BY <1>2 DEF RepoTypeOK
  <2> QED
    BY <1>2, <2>1 DEF FilesOf, Commit
<1> QED
  BY <1>1, <1>2

\* The paths of the plan are managed paths.
LEMMA PathsTyped ==
  ASSUME TransactionConstants, NEW w \in Writer, NEW i \in 1..Len(Files[w])
  PROVE  Files[w][i] \in Path
BY DEF TransactionConstants

\* The repository starts with one commit, and nobody is in the lock.
LEMMA TypedInit ==
  ASSUME TransactionConstants, Init
  PROVE  Typed
<1> USE DEF TransactionConstants, RepoConstants
<1>1. /\ Len(commits) = 1 /\ commits \in Seq(Commit)
      /\ Nothing \in [Path -> Content] /\ everTip \in [Branch -> SUBSET (1..MaxCommit)]
  BY DEF Init, Commit, Nothing, Content
<1>2. RepoTypeOK
  BY <1>1 DEF Init, RepoTypeOK, Lock!Init
<1>3. TypeOK
  BY <1>2 DEF Init, TypeOK, PC, Failure, Outcome, Lock!Init
<1>4. \A w \in Writer : StageOK(w)
  BY <1>1 DEF Init, StageOK, Pinned, Prepared, Built, Locked
<1> QED
  BY <1>3, <1>4 DEF Typed, LockOK, Init, Lock!Init, Locked

\* A compare-and-swap by w keeps the types of the branches.
LEMMA TypedSwap ==
  ASSUME Typed, NEW w \in Writer, newCommit[w] # 0, Swap(w)
  PROVE  tip' \in [Branch -> 0..Len(commits)] /\ everTip' \in [Branch -> SUBSET (1..MaxCommit)]
BY DEF Typed, TypeOK, RepoTypeOK, StageOK, Swap, UpdateRef

\* A step inside the lock that leaves the lock, the commits and what the writer
\* planned alone: only its stage, outcome and files may change.
LEMMA Staying ==
  ASSUME TransactionConstants, Typed, NEW w \in Writer, pc[w] \in Locked, NEW s \in Locked,
         pc' = [pc EXCEPT ![w] = s],
         UNCHANGED <<head, commits, inside, found, made, publications, stray>>,
         sawMerge' \in [Writer -> BOOLEAN],
         tip' \in [Branch -> 0..Len(commits)], everTip' \in [Branch -> SUBSET (1..MaxCommit)],
         worktree' \in [Path -> Content], index' \in [Path -> Content],
         outcome' \in [Writer -> Outcome], failure' \in [Writer -> Failure],
         cursor' \in [Writer -> Nat],
         \A v \in Writer : cursor'[v] = cursor[v] \/ (v = w /\ cursor'[v] <= written[v]),
         s \in Pinned => pc[w] \in Pinned,
         s \in Prepared => pc[w] \in Prepared,
         s = "write" => pc[w] = "write",
         s \in {"remove", "putback"} => cursor'[w] < written[w],
         s \in Built => newCommit[w] # 0
  PROVE  Typed'
<1> USE DEF Typed, found, made
<1>1. RepoTypeOK'
  BY DEF TypeOK, RepoTypeOK
<1>2. pc' \in [Writer -> PC] /\ \A v \in Writer : pc'[v] = IF v = w THEN s ELSE pc[v]
  BY DEF TypeOK, Locked
<1>3. \A v \in inside' : pc'[v] \notin {"idle", "planned", "done", "dead"}
  BY <1>2 DEF TypeOK, RepoTypeOK, Locked
<1>4. TypeOK'
  BY <1>1, <1>2, <1>3 DEF TypeOK
<1>5. ASSUME NEW v \in Writer PROVE StageOK(v)'
  BY <1>2 DEF StageOK
<1>6. LockOK'
  BY <1>2 DEF LockOK
<1> QED
  BY <1>4, <1>5, <1>6

\* The look for an operation of git in progress changes nothing but the stage.
LEMMA TypedCheckState ==
  ASSUME TransactionConstants, Typed, NEW w \in Writer, CheckState(w)
  PROVE  Typed'
<1> USE DEF Typed, TypeOK, CheckState
<1>1. pc[w] \in Locked /\ UNCHANGED <<head, commits, inside, found, made, publications, stray>>
  BY DEF At, Locked, PC, repoVars, history
<1>2. pc' = [pc EXCEPT ![w] = "pin"]
  BY DEF At, Goto
<1>3. /\ "pin" \in Locked \ Built
      /\ "pin" \in Pinned => pc[w] \in Pinned
      /\ "pin" \in Prepared => pc[w] \in Prepared
  BY DEF At, Locked, Pinned, Prepared, Built, PC
<1>4. outcome' \in [Writer -> Outcome] /\ failure' \in [Writer -> Failure]
  BY DEF Outcome, Failure
<1>5. tip' \in [Branch -> 0..Len(commits)] /\ everTip' \in [Branch -> SUBSET (1..MaxCommit)]
  BY DEF RepoTypeOK, repoVars
<1>6. worktree' \in [Path -> Content] /\ index' \in [Path -> Content]
  BY DEF RepoTypeOK, repoVars
<1>7. /\ cursor' \in [Writer -> Nat]
      /\ \A v \in Writer : cursor'[v] = cursor[v] \/ (v = w /\ cursor'[v] <= written[v])
  OBVIOUS
<1>8. sawMerge' \in [Writer -> BOOLEAN]
  BY DEF TransactionConstants
<1> QED
  BY <1>1, <1>2, <1>3, <1>4, <1>5, <1>6, <1>7, <1>8, Staying

\* Nor does resolving the tip of the pinned branch.
LEMMA TypedResolveTip ==
  ASSUME TransactionConstants, Typed, NEW w \in Writer, ResolveTip(w)
  PROVE  Typed'
<1> USE DEF Typed, TypeOK, ResolveTip
<1>1. pc[w] \in Locked /\ UNCHANGED <<head, commits, inside, found, made, publications, stray>>
  BY DEF At, Locked, PC, repoVars, history
<1>2. pc' = [pc EXCEPT ![w] = "snapshot"]
  BY DEF At, Goto
<1>3. /\ "snapshot" \in Locked \ Built
      /\ "snapshot" \in Pinned => pc[w] \in Pinned
      /\ "snapshot" \in Prepared => pc[w] \in Prepared
  BY DEF At, Locked, Pinned, Prepared, Built, PC
<1>4. outcome' \in [Writer -> Outcome] /\ failure' \in [Writer -> Failure]
  BY DEF Outcome, Failure
<1>5. tip' \in [Branch -> 0..Len(commits)] /\ everTip' \in [Branch -> SUBSET (1..MaxCommit)]
  BY DEF RepoTypeOK, repoVars
<1>6. worktree' \in [Path -> Content] /\ index' \in [Path -> Content]
  BY DEF RepoTypeOK, repoVars
<1>7. /\ cursor' \in [Writer -> Nat]
      /\ \A v \in Writer : cursor'[v] = cursor[v] \/ (v = w /\ cursor'[v] <= written[v])
  OBVIOUS
<1>8. sawMerge' \in [Writer -> BOOLEAN]
  BY DEF history
<1> QED
  BY <1>1, <1>2, <1>3, <1>4, <1>5, <1>6, <1>7, <1>8, Staying

\* A failure before the snapshot goes straight to the release.
LEMMA TypedEarlyFailure ==
  ASSUME TransactionConstants, Typed, NEW w \in Writer, EarlyFailure(w)
  PROVE  Typed'
<1> USE DEF Typed, TypeOK, EarlyFailure, Abandon
<1>1. pc[w] \in Locked /\ UNCHANGED <<head, commits, inside, found, made, publications, stray>>
  BY DEF At, Locked, PC, repoVars, history
<1>2. pc' = [pc EXCEPT ![w] = "release"]
  BY DEF At, Goto, End
<1>3. /\ "release" \in Locked \ Built
      /\ "release" \in Pinned => pc[w] \in Pinned
      /\ "release" \in Prepared => pc[w] \in Prepared
  BY DEF At, Locked, Pinned, Prepared, Built, PC
<1>4. outcome' \in [Writer -> Outcome] /\ failure' \in [Writer -> Failure]
  BY DEF End, Told, Raised, Outcome, Failure
<1>5. tip' \in [Branch -> 0..Len(commits)] /\ everTip' \in [Branch -> SUBSET (1..MaxCommit)]
  BY DEF RepoTypeOK, repoVars
<1>6. worktree' \in [Path -> Content] /\ index' \in [Path -> Content]
  BY DEF RepoTypeOK, repoVars
<1>7. /\ cursor' \in [Writer -> Nat]
      /\ \A v \in Writer : cursor'[v] = cursor[v] \/ (v = w /\ cursor'[v] <= written[v])
  OBVIOUS
<1>8. sawMerge' \in [Writer -> BOOLEAN]
  BY DEF history
<1> QED
  BY <1>1, <1>2, <1>3, <1>4, <1>5, <1>6, <1>7, <1>8, Staying

\* A failure at a file's record leads to the rollback.
LEMMA TypedRecordFails ==
  ASSUME TransactionConstants, Typed, NEW w \in Writer, RecordFails(w)
  PROVE  Typed'
<1> USE DEF Typed, TypeOK, RecordFails
<1>1. pc[w] \in Locked /\ UNCHANGED <<head, commits, inside, found, made, publications, stray>>
  BY DEF At, Locked, PC, repoVars, history
<1>2. pc' = [pc EXCEPT ![w] = "inspect"]
  BY DEF At, Goto, Fail
<1>3. /\ "inspect" \in Locked \ Built
      /\ "inspect" \in Pinned => pc[w] \in Pinned
      /\ "inspect" \in Prepared => pc[w] \in Prepared
  BY DEF At, Locked, Pinned, Prepared, Built, PC
<1>4. outcome' \in [Writer -> Outcome] /\ failure' \in [Writer -> Failure]
  BY DEF Fail, Raised, Outcome, Failure
<1>5. tip' \in [Branch -> 0..Len(commits)] /\ everTip' \in [Branch -> SUBSET (1..MaxCommit)]
  BY DEF RepoTypeOK, repoVars
<1>6. worktree' \in [Path -> Content] /\ index' \in [Path -> Content]
  BY DEF RepoTypeOK, repoVars
<1>7. /\ cursor' \in [Writer -> Nat]
      /\ \A v \in Writer : cursor'[v] = cursor[v] \/ (v = w /\ cursor'[v] <= written[v])
  OBVIOUS
<1>8. sawMerge' \in [Writer -> BOOLEAN]
  BY DEF history
<1> QED
  BY <1>1, <1>2, <1>3, <1>4, <1>5, <1>6, <1>7, <1>8, Staying

\* A file is written whole, on a path of the plan.
LEMMA TypedWriteFile ==
  ASSUME TransactionConstants, Typed, NEW w \in Writer, WriteFile(w)
  PROVE  Typed'
<1> USE DEF Typed, TypeOK, WriteFile
<1>1. pc[w] \in Locked /\ UNCHANGED <<head, commits, inside, found, made, publications, stray>>
  BY DEF At, Locked, PC, repoVars, history
<1>2. PICK s \in {"exists", "build"} :
      /\ pc' = [pc EXCEPT ![w] = s]
  BY DEF At, Goto
<1>3. /\ s \in Locked \ Built
      /\ s \in Pinned => pc[w] \in Pinned
      /\ s \in Prepared => pc[w] \in Prepared
  BY DEF At, Locked, Pinned, Prepared, Built, PC
<1>4. outcome' \in [Writer -> Outcome] /\ failure' \in [Writer -> Failure]
  BY DEF Outcome, Failure
<1>5. tip' \in [Branch -> 0..Len(commits)] /\ everTip' \in [Branch -> SUBSET (1..MaxCommit)]
  BY DEF RepoTypeOK, repoVars
<1>6. worktree' \in [Path -> Content] /\ index' \in [Path -> Content]
  BY Contents DEF RepoTypeOK
<1>7. /\ cursor' \in [Writer -> Nat]
      /\ \A v \in Writer : cursor'[v] = cursor[v] \/ (v = w /\ cursor'[v] <= written[v])
  OBVIOUS
<1>8. sawMerge' \in [Writer -> BOOLEAN]
  BY DEF history
<1> QED
  BY <1>1, <1>2, <1>3, <1>4, <1>5, <1>6, <1>7, <1>8, Staying

\* A write that fails leaves a part of the file at the path last recorded.
LEMMA TypedWriteFails ==
  ASSUME TransactionConstants, Typed, NEW w \in Writer, WriteFails(w)
  PROVE  Typed'
<1> USE DEF Typed, TypeOK, WriteFails
<1>1. pc[w] \in Locked /\ UNCHANGED <<head, commits, inside, found, made, publications, stray>>
  BY DEF At, Locked, PC, repoVars, history
<1>2. pc' = [pc EXCEPT ![w] = "inspect"]
  BY DEF At, Goto, Fail
<1>3. /\ "inspect" \in Locked \ Built
      /\ "inspect" \in Pinned => pc[w] \in Pinned
      /\ "inspect" \in Prepared => pc[w] \in Prepared
  BY DEF At, Locked, Pinned, Prepared, Built, PC
<1>4. outcome' \in [Writer -> Outcome] /\ failure' \in [Writer -> Failure]
  BY DEF Fail, Raised, Outcome, Failure
<1>5. tip' \in [Branch -> 0..Len(commits)] /\ everTip' \in [Branch -> SUBSET (1..MaxCommit)]
  BY DEF RepoTypeOK, repoVars
<1>6. worktree' \in [Path -> Content] /\ index' \in [Path -> Content]
  <2>1. LastPath(w) \in Path
    BY PathsTyped DEF LastPath, StageOK, At, TransactionConstants
  <2> QED
    BY <2>1, Contents DEF RepoTypeOK
<1>7. /\ cursor' \in [Writer -> Nat]
      /\ \A v \in Writer : cursor'[v] = cursor[v] \/ (v = w /\ cursor'[v] <= written[v])
  OBVIOUS
<1>8. sawMerge' \in [Writer -> BOOLEAN]
  BY DEF history
<1> QED
  BY <1>1, <1>2, <1>3, <1>4, <1>5, <1>6, <1>7, <1>8, Staying

\* A failure while the commit is built leads to the rollback.
LEMMA TypedBuildFails ==
  ASSUME TransactionConstants, Typed, NEW w \in Writer, BuildFails(w)
  PROVE  Typed'
<1> USE DEF Typed, TypeOK, BuildFails
<1>1. pc[w] \in Locked /\ UNCHANGED <<head, commits, inside, found, made, publications, stray>>
  BY DEF At, Locked, PC, repoVars, history
<1>2. pc' = [pc EXCEPT ![w] = "inspect"]
  BY DEF At, Goto, Fail
<1>3. /\ "inspect" \in Locked \ Built
      /\ "inspect" \in Pinned => pc[w] \in Pinned
      /\ "inspect" \in Prepared => pc[w] \in Prepared
  BY DEF At, Locked, Pinned, Prepared, Built, PC
<1>4. outcome' \in [Writer -> Outcome] /\ failure' \in [Writer -> Failure]
  BY DEF Fail, Raised, Outcome, Failure
<1>5. tip' \in [Branch -> 0..Len(commits)] /\ everTip' \in [Branch -> SUBSET (1..MaxCommit)]
  BY DEF RepoTypeOK, repoVars
<1>6. worktree' \in [Path -> Content] /\ index' \in [Path -> Content]
  BY DEF RepoTypeOK, repoVars
<1>7. /\ cursor' \in [Writer -> Nat]
      /\ \A v \in Writer : cursor'[v] = cursor[v] \/ (v = w /\ cursor'[v] <= written[v])
  OBVIOUS
<1>8. sawMerge' \in [Writer -> BOOLEAN]
  BY DEF history
<1> QED
  BY <1>1, <1>2, <1>3, <1>4, <1>5, <1>6, <1>7, <1>8, Staying

\* The compare-and-swap moves the pinned branch to the new commit.
LEMMA TypedCasSucceeds ==
  ASSUME TransactionConstants, Typed, NEW w \in Writer, CasSucceeds(w)
  PROVE  Typed'
<1> USE DEF Typed, TypeOK, CasSucceeds
<1>1. pc[w] \in Locked /\ UNCHANGED <<head, commits, inside, found, made, publications, stray>>
  BY DEF At, Locked, PC, repoVars, history
<1>2. PICK s \in {"publish", "refresh"} :
      /\ pc' = [pc EXCEPT ![w] = s]
  BY DEF At, Goto
<1>3. /\ s \in Locked /\ (s \in Built => newCommit[w] # 0)
      /\ s \in Pinned => pc[w] \in Pinned
      /\ s \in Prepared => pc[w] \in Prepared
  BY DEF StageOK, At, Locked, Pinned, Prepared, Built, PC
<1>4. outcome' \in [Writer -> Outcome] /\ failure' \in [Writer -> Failure]
  BY DEF Outcome, Failure
<1>5. tip' \in [Branch -> 0..Len(commits)] /\ everTip' \in [Branch -> SUBSET (1..MaxCommit)]
  BY TypedSwap DEF StageOK, Built, At
<1>6. worktree' \in [Path -> Content] /\ index' \in [Path -> Content]
  BY DEF RepoTypeOK, repoVars
<1>7. /\ cursor' \in [Writer -> Nat]
      /\ \A v \in Writer : cursor'[v] = cursor[v] \/ (v = w /\ cursor'[v] <= written[v])
  OBVIOUS
<1>8. sawMerge' \in [Writer -> BOOLEAN]
  BY DEF history
<1> QED
  BY <1>1, <1>2, <1>3, <1>4, <1>5, <1>6, <1>7, <1>8, Staying

\* The branch is read back and the outcome decided from it.
LEMMA TypedClassify ==
  ASSUME TransactionConstants, Typed, NEW w \in Writer, Classify(w)
  PROVE  Typed'
<1> USE DEF Typed, TypeOK, Classify
<1>1. pc[w] \in Locked /\ UNCHANGED <<head, commits, inside, found, made, publications, stray>>
  BY DEF At, Locked, PC, repoVars, history
<1>2. PICK s \in {"publish", "inspect", "release"} :
      /\ pc' = [pc EXCEPT ![w] = s]
  BY DEF At, Goto, End
<1>3. /\ s \in Locked /\ (s \in Built => newCommit[w] # 0)
      /\ s \in Pinned => pc[w] \in Pinned
      /\ s \in Prepared => pc[w] \in Prepared
  BY DEF StageOK, At, Locked, Pinned, Prepared, Built, PC
<1>4. outcome' \in [Writer -> Outcome] /\ failure' \in [Writer -> Failure]
  BY DEF End, Outcome, Failure
<1>5. tip' \in [Branch -> 0..Len(commits)] /\ everTip' \in [Branch -> SUBSET (1..MaxCommit)]
  BY DEF RepoTypeOK, repoVars
<1>6. worktree' \in [Path -> Content] /\ index' \in [Path -> Content]
  BY DEF RepoTypeOK, repoVars
<1>7. /\ cursor' \in [Writer -> Nat]
      /\ \A v \in Writer : cursor'[v] = cursor[v] \/ (v = w /\ cursor'[v] <= written[v])
  OBVIOUS
<1>8. sawMerge' \in [Writer -> BOOLEAN]
  BY DEF history
<1> QED
  BY <1>1, <1>2, <1>3, <1>4, <1>5, <1>6, <1>7, <1>8, Staying

\* The read that was to decide the outcome fails.
LEMMA TypedClassifyFails ==
  ASSUME TransactionConstants, Typed, NEW w \in Writer, ClassifyFails(w)
  PROVE  Typed'
<1> USE DEF Typed, TypeOK, ClassifyFails
<1>1. pc[w] \in Locked /\ UNCHANGED <<head, commits, inside, found, made, publications, stray>>
  BY DEF At, Locked, PC, repoVars, history
<1>2. pc' = [pc EXCEPT ![w] = "release"]
  BY DEF At, Goto, End
<1>3. /\ "release" \in Locked \ Built
      /\ "release" \in Pinned => pc[w] \in Pinned
      /\ "release" \in Prepared => pc[w] \in Prepared
  BY DEF At, Locked, Pinned, Prepared, Built, PC
<1>4. outcome' \in [Writer -> Outcome] /\ failure' \in [Writer -> Failure]
  BY DEF End, Raised, Outcome, Failure
<1>5. tip' \in [Branch -> 0..Len(commits)] /\ everTip' \in [Branch -> SUBSET (1..MaxCommit)]
  BY DEF RepoTypeOK, repoVars
<1>6. worktree' \in [Path -> Content] /\ index' \in [Path -> Content]
  BY DEF RepoTypeOK, repoVars
<1>7. /\ cursor' \in [Writer -> Nat]
      /\ \A v \in Writer : cursor'[v] = cursor[v] \/ (v = w /\ cursor'[v] <= written[v])
  OBVIOUS
<1>8. sawMerge' \in [Writer -> BOOLEAN]
  BY DEF history
<1> QED
  BY <1>1, <1>2, <1>3, <1>4, <1>5, <1>6, <1>7, <1>8, Staying

\* The index takes the new commit's entries for the operation's paths.
LEMMA TypedRefresh ==
  ASSUME TransactionConstants, Typed, NEW w \in Writer, Refresh(w)
  PROVE  Typed'
<1> USE DEF Typed, TypeOK, Refresh
<1>1. pc[w] \in Locked /\ UNCHANGED <<head, commits, inside, found, made, publications, stray>>
  BY DEF At, Locked, PC, repoVars, history
<1>2. pc' = [pc EXCEPT ![w] = "release"]
  BY DEF At, Goto, End
<1>3. /\ "release" \in Locked \ Built
      /\ "release" \in Pinned => pc[w] \in Pinned
      /\ "release" \in Prepared => pc[w] \in Prepared
  BY DEF At, Locked, Pinned, Prepared, Built, PC
<1>4. outcome' \in [Writer -> Outcome] /\ failure' \in [Writer -> Failure]
  BY DEF End, Outcome, Failure
<1>5. tip' \in [Branch -> 0..Len(commits)] /\ everTip' \in [Branch -> SUBSET (1..MaxCommit)]
  BY DEF RepoTypeOK, repoVars
<1>6. worktree' \in [Path -> Content] /\ index' \in [Path -> Content]
  <2>1. FilesOf(newCommit[w]) \in [Path -> Content]
    BY FilesTyped DEF StageOK, At, Built
  <2> QED
    BY <2>1 DEF RepoTypeOK, ResetPaths
<1>7. /\ cursor' \in [Writer -> Nat]
      /\ \A v \in Writer : cursor'[v] = cursor[v] \/ (v = w /\ cursor'[v] <= written[v])
  OBVIOUS
<1>8. sawMerge' \in [Writer -> BOOLEAN]
  BY DEF history
<1> QED
  BY <1>1, <1>2, <1>3, <1>4, <1>5, <1>6, <1>7, <1>8, Staying

\* The refresh of the index fails, or is cancelled.
LEMMA TypedRefreshRaises ==
  ASSUME TransactionConstants, Typed, NEW w \in Writer, RefreshRaises(w)
  PROVE  Typed'
<1> USE DEF Typed, TypeOK, RefreshRaises
<1>1. pc[w] \in Locked /\ UNCHANGED <<head, commits, inside, found, made, publications, stray>>
  BY DEF At, Locked, PC, repoVars, history
<1>2. PICK s \in {"release", "inspect"} :
      /\ pc' = [pc EXCEPT ![w] = s]
  BY DEF At, Goto, End, Fail
<1>3. /\ s \in Locked \ Built
      /\ s \in Pinned => pc[w] \in Pinned
      /\ s \in Prepared => pc[w] \in Prepared
  BY DEF At, Locked, Pinned, Prepared, Built, PC
<1>4. outcome' \in [Writer -> Outcome] /\ failure' \in [Writer -> Failure]
  BY DEF End, Fail, Raised, Outcome, Failure
<1>5. tip' \in [Branch -> 0..Len(commits)] /\ everTip' \in [Branch -> SUBSET (1..MaxCommit)]
  BY DEF RepoTypeOK, repoVars
<1>6. worktree' \in [Path -> Content] /\ index' \in [Path -> Content]
  BY DEF RepoTypeOK, repoVars
<1>7. /\ cursor' \in [Writer -> Nat]
      /\ \A v \in Writer : cursor'[v] = cursor[v] \/ (v = w /\ cursor'[v] <= written[v])
  OBVIOUS
<1>8. sawMerge' \in [Writer -> BOOLEAN]
  BY DEF history
<1> QED
  BY <1>1, <1>2, <1>3, <1>4, <1>5, <1>6, <1>7, <1>8, Staying

\* The rollback first reads the branch.
LEMMA TypedInspectTip ==
  ASSUME TransactionConstants, Typed, NEW w \in Writer, InspectTip(w)
  PROVE  Typed'
<1> USE DEF Typed, TypeOK, InspectTip
<1>1. pc[w] \in Locked /\ UNCHANGED <<head, commits, inside, found, made, publications, stray>>
  BY DEF At, Locked, PC, repoVars, history
<1>2. PICK s \in {"release", "index"} :
      /\ pc' = [pc EXCEPT ![w] = s]
  BY DEF At, Goto, End, RollbackFailed
<1>3. /\ s \in Locked \ Built
      /\ s \in Pinned => pc[w] \in Pinned
      /\ s \in Prepared => pc[w] \in Prepared
  BY DEF At, Locked, Pinned, Prepared, Built, PC
<1>4. outcome' \in [Writer -> Outcome] /\ failure' \in [Writer -> Failure]
  BY DEF End, RollbackFailed, Told, Outcome, Failure
<1>5. tip' \in [Branch -> 0..Len(commits)] /\ everTip' \in [Branch -> SUBSET (1..MaxCommit)]
  BY DEF RepoTypeOK, repoVars
<1>6. worktree' \in [Path -> Content] /\ index' \in [Path -> Content]
  BY DEF RepoTypeOK, repoVars
<1>7. /\ cursor' \in [Writer -> Nat]
      /\ \A v \in Writer : cursor'[v] = cursor[v] \/ (v = w /\ cursor'[v] <= written[v])
  OBVIOUS
<1>8. sawMerge' \in [Writer -> BOOLEAN]
  BY DEF history
<1> QED
  BY <1>1, <1>2, <1>3, <1>4, <1>5, <1>6, <1>7, <1>8, Staying

\* The rollback cannot read the branch and is given up.
LEMMA TypedInspectFails ==
  ASSUME TransactionConstants, Typed, NEW w \in Writer, InspectFails(w)
  PROVE  Typed'
<1> USE DEF Typed, TypeOK, InspectFails
<1>1. pc[w] \in Locked /\ UNCHANGED <<head, commits, inside, found, made, publications, stray>>
  BY DEF At, Locked, PC, repoVars, history
<1>2. pc' = [pc EXCEPT ![w] = "release"]
  BY DEF At, Goto, End, RollbackFailed
<1>3. /\ "release" \in Locked \ Built
      /\ "release" \in Pinned => pc[w] \in Pinned
      /\ "release" \in Prepared => pc[w] \in Prepared
  BY DEF At, Locked, Pinned, Prepared, Built, PC
<1>4. outcome' \in [Writer -> Outcome] /\ failure' \in [Writer -> Failure]
  BY DEF End, RollbackFailed, Outcome, Failure
<1>5. tip' \in [Branch -> 0..Len(commits)] /\ everTip' \in [Branch -> SUBSET (1..MaxCommit)]
  BY DEF RepoTypeOK, repoVars
<1>6. worktree' \in [Path -> Content] /\ index' \in [Path -> Content]
  BY DEF RepoTypeOK, repoVars
<1>7. /\ cursor' \in [Writer -> Nat]
      /\ \A v \in Writer : cursor'[v] = cursor[v] \/ (v = w /\ cursor'[v] <= written[v])
  OBVIOUS
<1>8. sawMerge' \in [Writer -> BOOLEAN]
  BY DEF history
<1> QED
  BY <1>1, <1>2, <1>3, <1>4, <1>5, <1>6, <1>7, <1>8, Staying

\* The rollback goes on only over an index that is still the snapshot's.
LEMMA TypedCheckIndex ==
  ASSUME TransactionConstants, Typed, NEW w \in Writer, CheckIndex(w)
  PROVE  Typed'
<1> USE DEF Typed, TypeOK, CheckIndex
<1>1. pc[w] \in Locked /\ UNCHANGED <<head, commits, inside, found, made, publications, stray>>
  BY DEF At, Locked, PC, repoVars, history
<1>2. PICK s \in {"restore", "release"} :
      /\ pc' = [pc EXCEPT ![w] = s]
  BY DEF At, Goto, End, RollbackFailed
<1>3. /\ s \in Locked \ Built
      /\ s \in Pinned => pc[w] \in Pinned
      /\ s \in Prepared => pc[w] \in Prepared
  BY DEF At, Locked, Pinned, Prepared, Built, PC
<1>4. outcome' \in [Writer -> Outcome] /\ failure' \in [Writer -> Failure]
  BY DEF End, RollbackFailed, Outcome, Failure
<1>5. tip' \in [Branch -> 0..Len(commits)] /\ everTip' \in [Branch -> SUBSET (1..MaxCommit)]
  BY DEF RepoTypeOK, repoVars
<1>6. worktree' \in [Path -> Content] /\ index' \in [Path -> Content]
  BY DEF RepoTypeOK, repoVars
<1>7. /\ cursor' \in [Writer -> Nat]
      /\ \A v \in Writer : cursor'[v] = cursor[v] \/ (v = w /\ cursor'[v] <= written[v])
  OBVIOUS
<1>8. sawMerge' \in [Writer -> BOOLEAN]
  BY DEF history
<1> QED
  BY <1>1, <1>2, <1>3, <1>4, <1>5, <1>6, <1>7, <1>8, Staying

\* A file is examined: the cursor moves on, or there is something to undo.
LEMMA TypedRestoreFile ==
  ASSUME TransactionConstants, Typed, NEW w \in Writer, RestoreFile(w)
  PROVE  Typed'
<1> USE DEF Typed, TypeOK, RestoreFile
<1>1. pc[w] \in Locked /\ UNCHANGED <<head, commits, inside, found, made, publications, stray>>
  BY DEF At, Locked, PC, repoVars, history
<1>2. PICK s \in {"restore", "remove", "putback", "release"} :
      /\ pc' = [pc EXCEPT ![w] = s]
      /\ s \in {"remove", "putback"} => cursor'[w] < written[w]
  BY DEF At, Goto, End, RollbackFailed
<1>3. /\ s \in Locked \ Built
      /\ s \in Pinned => pc[w] \in Pinned
      /\ s \in Prepared => pc[w] \in Prepared
  BY DEF At, Locked, Pinned, Prepared, Built, PC
<1>4. outcome' \in [Writer -> Outcome] /\ failure' \in [Writer -> Failure]
  BY DEF End, RollbackFailed, Outcome, Failure
<1>5. tip' \in [Branch -> 0..Len(commits)] /\ everTip' \in [Branch -> SUBSET (1..MaxCommit)]
  BY DEF RepoTypeOK, repoVars
<1>6. worktree' \in [Path -> Content] /\ index' \in [Path -> Content]
  BY DEF RepoTypeOK, repoVars
<1>7. /\ cursor' \in [Writer -> Nat]
      /\ \A v \in Writer : cursor'[v] = cursor[v] \/ (v = w /\ cursor'[v] <= written[v])
  <2>1. cursor[w] < written[w] /\ (NextFile(w) \/ UNCHANGED cursor)
    BY DEF StageOK, At
  <2> QED
    BY <2>1 DEF NextFile
<1>8. sawMerge' \in [Writer -> BOOLEAN]
  BY DEF history
<1> QED
  BY <1>1, <1>2, <1>3, <1>4, <1>5, <1>6, <1>7, <1>8, Staying

\* A file the operation created is deleted; there was a file to restore.
LEMMA TypedRemoveFile ==
  ASSUME TransactionConstants, Typed, NEW w \in Writer, RemoveFile(w)
  PROVE  Typed'
<1> USE DEF Typed, TypeOK, RemoveFile
<1>1. pc[w] \in Locked /\ UNCHANGED <<head, commits, inside, found, made, publications, stray>>
  BY DEF At, Locked, PC, repoVars, history
<1>2. PICK s \in {"restore", "release"} :
      /\ pc' = [pc EXCEPT ![w] = s]
  BY DEF At, Goto, End, RollbackFailed
<1>3. /\ s \in Locked \ Built
      /\ s \in Pinned => pc[w] \in Pinned
      /\ s \in Prepared => pc[w] \in Prepared
  BY DEF At, Locked, Pinned, Prepared, Built, PC
<1>4. outcome' \in [Writer -> Outcome] /\ failure' \in [Writer -> Failure]
  BY DEF End, RollbackFailed, Outcome, Failure
<1>5. tip' \in [Branch -> 0..Len(commits)] /\ everTip' \in [Branch -> SUBSET (1..MaxCommit)]
  BY DEF RepoTypeOK, repoVars
<1>6. worktree' \in [Path -> Content] /\ index' \in [Path -> Content]
  BY Contents DEF RepoTypeOK
<1>7. /\ cursor' \in [Writer -> Nat]
      /\ \A v \in Writer : cursor'[v] = cursor[v] \/ (v = w /\ cursor'[v] <= written[v])
  <2>1. cursor[w] < written[w] /\ cursor \in [Writer -> Nat] /\ written \in [Writer -> Nat]
    BY DEF StageOK, At
  <2>2. CASE NextFile(w)
    BY <2>1, <2>2 DEF NextFile
  <2>3. CASE UNCHANGED cursor
    BY <2>1, <2>3
  <2> QED
    BY <2>2, <2>3
<1>8. sawMerge' \in [Writer -> BOOLEAN]
  BY DEF history
<1> QED
  BY <1>1, <1>2, <1>3, <1>4, <1>5, <1>6, <1>7, <1>8, Staying

\* A file the operation replaced gets the bytes of the snapshot.
LEMMA TypedPutBackFile ==
  ASSUME TransactionConstants, Typed, NEW w \in Writer, PutBackFile(w)
  PROVE  Typed'
<1> USE DEF Typed, TypeOK, PutBackFile
<1>1. pc[w] \in Locked /\ UNCHANGED <<head, commits, inside, found, made, publications, stray>>
  BY DEF At, Locked, PC, repoVars, history
<1>2. PICK s \in {"restore", "release"} :
      /\ pc' = [pc EXCEPT ![w] = s]
  BY DEF At, Goto, End, RollbackFailed
<1>3. /\ s \in Locked \ Built
      /\ s \in Pinned => pc[w] \in Pinned
      /\ s \in Prepared => pc[w] \in Prepared
  BY DEF At, Locked, Pinned, Prepared, Built, PC
<1>4. outcome' \in [Writer -> Outcome] /\ failure' \in [Writer -> Failure]
  BY DEF End, RollbackFailed, Outcome, Failure
<1>5. tip' \in [Branch -> 0..Len(commits)] /\ everTip' \in [Branch -> SUBSET (1..MaxCommit)]
  BY DEF RepoTypeOK, repoVars
<1>6. worktree' \in [Path -> Content] /\ index' \in [Path -> Content]
  <2>1. snapshot[w].files \in [Path -> Content]
    BY DEF StageOK, Prepared, Pinned, Locked, PC, At, Snapshot
  <2>2. RestorePath(w) \in Path
    BY PathsTyped DEF RestorePath, StageOK, At, TransactionConstants
  <2> QED
    BY <2>1, <2>2 DEF RepoTypeOK
<1>7. /\ cursor' \in [Writer -> Nat]
      /\ \A v \in Writer : cursor'[v] = cursor[v] \/ (v = w /\ cursor'[v] <= written[v])
  <2>1. cursor[w] < written[w] /\ cursor \in [Writer -> Nat] /\ written \in [Writer -> Nat]
    BY DEF StageOK, At
  <2>2. CASE NextFile(w)
    BY <2>1, <2>2 DEF NextFile
  <2>3. CASE UNCHANGED cursor
    BY <2>1, <2>3
  <2> QED
    BY <2>2, <2>3
<1>8. sawMerge' \in [Writer -> BOOLEAN]
  BY DEF history
<1> QED
  BY <1>1, <1>2, <1>3, <1>4, <1>5, <1>6, <1>7, <1>8, Staying

\* The rollback has dealt with every file.
LEMMA TypedRestoreEnds ==
  ASSUME TransactionConstants, Typed, NEW w \in Writer, RestoreEnds(w)
  PROVE  Typed'
<1> USE DEF Typed, TypeOK, RestoreEnds
<1>1. pc[w] \in Locked /\ UNCHANGED <<head, commits, inside, found, made, publications, stray>>
  BY DEF At, Locked, PC, repoVars, history
<1>2. pc' = [pc EXCEPT ![w] = "release"]
  BY DEF At, Goto, End
<1>3. /\ "release" \in Locked \ Built
      /\ "release" \in Pinned => pc[w] \in Pinned
      /\ "release" \in Prepared => pc[w] \in Prepared
  BY DEF At, Locked, Pinned, Prepared, Built, PC
<1>4. outcome' \in [Writer -> Outcome] /\ failure' \in [Writer -> Failure]
  BY DEF End, Told, Outcome, Failure
<1>5. tip' \in [Branch -> 0..Len(commits)] /\ everTip' \in [Branch -> SUBSET (1..MaxCommit)]
  BY DEF RepoTypeOK, repoVars
<1>6. worktree' \in [Path -> Content] /\ index' \in [Path -> Content]
  BY DEF RepoTypeOK, repoVars
<1>7. /\ cursor' \in [Writer -> Nat]
      /\ \A v \in Writer : cursor'[v] = cursor[v] \/ (v = w /\ cursor'[v] <= written[v])
  OBVIOUS
<1>8. sawMerge' \in [Writer -> BOOLEAN]
  BY DEF history
<1> QED
  BY <1>1, <1>2, <1>3, <1>4, <1>5, <1>6, <1>7, <1>8, Staying

\* The caller plans against a branch and a commit that HEAD named.
LEMMA TypedObserve ==
  ASSUME TransactionConstants, Typed, NEW w \in Writer, Observe(w)
  PROVE  Typed'
<1> USE DEF Typed, TypeOK, Observe, At, Goto, repoVars, made, history
<1>1. RepoTypeOK'
  BY DEF RepoTypeOK
<1>2. pc' \in [Writer -> PC] /\ \A v \in Writer : pc'[v] = IF v = w THEN "planned" ELSE pc[v]
  BY DEF PC
<1>3. \A c \in HeadCommit : c \in 0..Len(commits) /\ c \in 0..MaxCommit
  <2>1. \A c \in DOMAIN commits : c \in 0..Len(commits) /\ c \in 0..MaxCommit
    BY DEF RepoTypeOK, TransactionConstants, RepoConstants
  <2>2. head # None => tip[head] \in 0..Len(commits) /\ tip[head] \in 0..MaxCommit
    BY DEF RepoTypeOK, TransactionConstants, RepoConstants
  <2> QED
    BY <2>1, <2>2 DEF HeadCommit
<1>4. PICK ref \in Branch, commit \in HeadCommit :
        basis' = [basis EXCEPT ![w] = [ref |-> ref, commit |-> commit]]
  OBVIOUS
<1>5. TypeOK'
  <2>1. basis' \in [Writer -> [ref : Branch \cup {None}, commit : 0..MaxCommit]]
    BY <1>3, <1>4
  <2> QED
    BY <1>1, <1>2, <2>1
<1>6. ASSUME NEW v \in Writer PROVE StageOK(v)'
  <2>1. basis'[v].commit <= Len(commits)
    BY <1>3, <1>4 DEF StageOK
  <2> QED
    BY <1>2, <2>1 DEF StageOK, Pinned, Prepared, Built, Locked
<1>7. LockOK'
  BY <1>2 DEF LockOK, Locked, PC
<1> QED
  BY <1>5, <1>6, <1>7

\* The lock is not obtained, and the caller is told.
LEMMA TypedLockFails ==
  ASSUME TransactionConstants, Typed, NEW w \in Writer, LockFails(w)
  PROVE  Typed'
<1> USE DEF Typed, TypeOK, LockFails, At, Goto, repoVars, found, made, history
<1>1. RepoTypeOK'
  BY DEF RepoTypeOK
<1>2. pc' \in [Writer -> PC] /\ \A v \in Writer : pc'[v] = IF v = w THEN "done" ELSE pc[v]
  BY DEF PC
<1>3. outcome' \in [Writer -> Outcome]
  BY DEF Outcome, Told
<1>4. TypeOK'
  BY <1>1, <1>2, <1>3
<1>5. ASSUME NEW v \in Writer PROVE StageOK(v)'
  BY <1>2 DEF StageOK, Pinned, Prepared, Built, Locked
<1>6. LockOK'
  BY <1>2 DEF LockOK, Locked, PC
<1> QED
  BY <1>4, <1>5, <1>6

\* The snapshot has the index and the bytes of the operation's paths.
LEMMA TypedCaptureSnapshot ==
  ASSUME TransactionConstants, Typed, NEW w \in Writer, CaptureSnapshot(w)
  PROVE  Typed'
<1> USE DEF Typed, TypeOK, CaptureSnapshot, At, Goto, repoVars, found, made, history
<1>1. RepoTypeOK'
  BY DEF RepoTypeOK
<1>2. pc' \in [Writer -> PC] /\ \A v \in Writer : pc'[v] = IF v = w THEN "exists" ELSE pc[v]
  BY DEF PC
<1>3. /\ DOMAIN snapshot' = Writer /\ snapshot'[w] \in Snapshot
      /\ \A v \in Writer \ {w} : snapshot'[v] = snapshot[v]
  BY Contents DEF RepoTypeOK, Snapshot
<1>typed. \A v \in Writer : snapshot'[v] # None => snapshot'[v] \in Snapshot
  BY <1>3
<1>4. TypeOK'
  BY <1>1, <1>2, <1>3, <1>typed
<1>5. ASSUME NEW v \in Writer PROVE StageOK(v)'
  BY <1>2, <1>3 DEF StageOK, Pinned, Prepared, Built, Locked, PC
<1>6. LockOK'
  BY <1>2 DEF LockOK, Locked, PC
<1> QED
  BY <1>4, <1>5, <1>6

\* A file is recorded before it is written: the record stays within the plan.
LEMMA TypedRecordFile ==
  ASSUME TransactionConstants, Typed, NEW w \in Writer, RecordFile(w)
  PROVE  Typed'
<1> USE DEF Typed, TypeOK, RecordFile, At, Goto, repoVars, found, made, history
<1>1. RepoTypeOK'
  BY DEF RepoTypeOK
<1>2. pc' \in [Writer -> PC] /\ \A v \in Writer : pc'[v] = IF v = w THEN "write" ELSE pc[v]
  BY DEF PC
<1>3. /\ written' \in [Writer -> Nat] /\ written'[w] = written[w] + 1
      /\ \A v \in Writer \ {w} : written'[v] = written[v]
  OBVIOUS
<1>4. \A v \in Writer : written'[v] <= Len(Files[v]) /\ cursor'[v] <= written'[v]
  BY <1>3 DEF TransactionConstants
<1>5. TypeOK'
  BY <1>1, <1>2, <1>3, <1>4
<1>6. ASSUME NEW v \in Writer PROVE StageOK(v)'
  BY <1>2, <1>3 DEF StageOK, Pinned, Prepared, Built, Locked, PC
<1>7. LockOK'
  BY <1>2 DEF LockOK, Locked, PC
<1> QED
  BY <1>5, <1>6, <1>7

\* A new object is a commit, whatever it is made of; those that are there stay.
LEMMA Appending ==
  ASSUME TransactionConstants, RepoTypeOK, NEW p \in 0..Len(commits),
         NEW f \in [Path -> Content], CommitTree(p, f)
  PROVE  /\ commits' \in Seq(Commit) /\ Len(commits') = NewOid
         /\ NewOid \in 1..MaxCommit /\ NewOid = Len(commits) + 1
         /\ commits'[NewOid] = [past |-> PastOf(p) \cup {NewOid}, parent |-> p, files |-> f]
         /\ \A c \in 1..Len(commits) : commits'[c] = commits[c]
<1> USE DEF RepoTypeOK, TransactionConstants, RepoConstants
<1>1. NewOid \in 1..MaxCommit /\ NewOid = Len(commits) + 1
  BY DEF CommitTree, NewOid
<1>2. PastOf(p) \subseteq 1..MaxCommit
  <2>1. CASE p = 0
    BY <2>1 DEF PastOf
  <2>2. CASE p # 0
    <3>1. commits[p] \in Commit
      BY <2>2
    <3> QED
      BY <2>2, <3>1 DEF PastOf, Commit
  <2> QED
    BY <2>1, <2>2
<1>3. [past |-> PastOf(p) \cup {NewOid}, parent |-> p, files |-> f] \in Commit
  BY <1>1, <1>2 DEF Commit
<1> QED
  BY <1>1, <1>3 DEF CommitTree

\* The commit object is made on top of the basis.
LEMMA TypedBuildCommit ==
  ASSUME TransactionConstants, Typed, NEW w \in Writer, BuildCommit(w)
  PROVE  Typed'
<1> USE DEF Typed, TypeOK, At, Goto, repoVars, found, made, history
<1> DEFINE old == basis[w].commit
           f == [p \in Path |-> IF p \in Owned(w) THEN worktree[p] ELSE FilesOf(old)[p]]
<1>1. old \in 0..Len(commits) /\ f \in [Path -> Content]
  <2>1. old \in 0..Len(commits)
    BY DEF StageOK
  <2> QED
    BY <2>1, FilesTyped DEF RepoTypeOK
<1>2. CommitTree(old, f) /\ pc[w] = "build"
  BY DEF BuildCommit
<1>3. /\ commits' \in Seq(Commit) /\ Len(commits') = NewOid
      /\ NewOid \in 1..MaxCommit /\ NewOid = Len(commits) + 1
  BY <1>1, <1>2, Appending
<1>4. /\ pc' = [pc EXCEPT ![w] = "cas"]
      /\ newCommit' = [newCommit EXCEPT ![w] = NewOid]
      /\ UNCHANGED <<head, tip, worktree, index, everTip, inside, found, written, failure,
                     cursor, outcome, history>>
  BY DEF BuildCommit
<1> HIDE DEF f, old
<1>5. RepoTypeOK'
  BY <1>3, <1>4 DEF RepoTypeOK
<1>6. pc' \in [Writer -> PC] /\ \A v \in Writer : pc'[v] = IF v = w THEN "cas" ELSE pc[v]
  BY <1>4 DEF PC
<1>7. \A v \in Writer : newCommit'[v] = IF v = w THEN NewOid ELSE newCommit[v]
  BY <1>4
<1>8. TypeOK'
  BY <1>2, <1>3, <1>4, <1>5, <1>6, <1>7
<1>9. ASSUME NEW v \in Writer PROVE StageOK(v)'
  BY <1>2, <1>3, <1>4, <1>6, <1>7 DEF StageOK, Pinned, Prepared, Built, Locked, PC, RepoTypeOK
<1>10. LockOK'
  BY <1>2, <1>4, <1>6 DEF LockOK, Locked, PC
<1> QED
  BY <1>8, <1>9, <1>10

\* The compare-and-swap fails; its child may have moved the branch all the same.
LEMMA TypedCasFails ==
  ASSUME TransactionConstants, Typed, NEW w \in Writer, CasFails(w)
  PROVE  Typed'
<1> USE DEF Typed, TypeOK, CasFails, At, Goto, repoVars, found, made, history
<1>1. newCommit[w] # 0 /\ pc[w] = "cas"
  BY DEF StageOK, Built
<1>2. RepoTypeOK'
  BY <1>1, TypedSwap DEF RepoTypeOK
<1>3. PICK s \in {"classify", "inspect"} : pc' = [pc EXCEPT ![w] = s]
  OBVIOUS
<1>4. pc' \in [Writer -> PC] /\ \A v \in Writer : pc'[v] = IF v = w THEN s ELSE pc[v]
  BY <1>3 DEF PC
<1>5. stray' \in [Writer -> BOOLEAN] /\ \A v \in Writer \ {w} : stray'[v] = stray[v]
  OBVIOUS
<1>6. failure' \in [Writer -> Failure]
  BY DEF Failure, Raised
<1>7. \A v \in inside' : pc'[v] \notin {"idle", "planned", "done", "dead"}
  BY <1>4 DEF RepoTypeOK
<1>8. TypeOK'
  BY <1>2, <1>4, <1>5, <1>6, <1>7
<1>9. ASSUME NEW v \in Writer PROVE StageOK(v)'
  BY <1>1, <1>4, <1>5 DEF StageOK, Pinned, Prepared, Built, Locked, PC
<1>10. LockOK'
  BY <1>1, <1>4 DEF LockOK, Locked, PC
<1> QED
  BY <1>8, <1>9, <1>10

\* A git child that outlives its caller swaps late.
LEMMA TypedStrayChildSwaps ==
  ASSUME TransactionConstants, Typed, NEW w \in Writer, StrayChildSwaps(w)
  PROVE  Typed'
<1> USE DEF Typed, TypeOK, StrayChildSwaps, repoVars, found, made, history
<1>1. newCommit[w] # 0
  BY DEF StageOK
<1>2. RepoTypeOK'
  BY <1>1, TypedSwap DEF RepoTypeOK
<1>3. TypeOK'
  BY <1>2
<1>4. ASSUME NEW v \in Writer PROVE StageOK(v)'
  BY DEF StageOK
<1>5. LockOK'
  BY DEF LockOK, Locked, PC
<1> QED
  BY <1>3, <1>4, <1>5

\* The commit is announced to the index publisher.
LEMMA TypedPublish ==
  ASSUME TransactionConstants, Typed, NEW w \in Writer, Publish(w)
  PROVE  Typed'
<1> USE DEF Typed, TypeOK, Publish, At, Goto, repoVars, found, made, history
<1>1. RepoTypeOK'
  BY DEF RepoTypeOK
<1>2. pc' \in [Writer -> PC] /\ \A v \in Writer : pc'[v] = IF v = w THEN "refresh" ELSE pc[v]
  BY DEF PC
<1>3. newCommit[w] \in 1..MaxCommit
  BY DEF StageOK, Built
<1>4. publications' \in Seq(1..MaxCommit)
  BY <1>3
<1>5. failure' \in [Writer -> Failure]
  BY DEF Failure
<1>6. \A v \in inside' : pc'[v] \notin {"idle", "planned", "done", "dead"}
  BY <1>2 DEF RepoTypeOK
<1>7. TypeOK'
  BY <1>1, <1>2, <1>4, <1>5, <1>6
<1>8. ASSUME NEW v \in Writer PROVE StageOK(v)'
  BY <1>2 DEF StageOK, Pinned, Prepared, Built, Locked, PC
<1>9. LockOK'
  BY <1>2 DEF LockOK, Locked, PC
<1> QED
  BY <1>7, <1>8, <1>9

\* The lock is empty again after a release, as there was one holder.
LEMMA TypedReleaseLock ==
  ASSUME TransactionConstants, Typed, NEW w \in Writer, ReleaseLock(w)
  PROVE  Typed'
<1> USE DEF Typed, TypeOK, ReleaseLock, At, Goto, repoVars, found, made, history
<1>1. inside' = {}
  BY DEF Lock!Leave
<1>2. RepoTypeOK'
  BY <1>1 DEF RepoTypeOK
<1>3. pc' \in [Writer -> PC] /\ \A v \in Writer : pc'[v] = IF v = w THEN "done" ELSE pc[v]
  BY DEF PC
<1>4. outcome' \in [Writer -> Outcome]
  BY DEF Outcome
<1>5. TypeOK'
  BY <1>1, <1>2, <1>3, <1>4
<1>6. ASSUME NEW v \in Writer PROVE StageOK(v)'
  BY <1>3 DEF StageOK, Pinned, Prepared, Built, Locked
<1>7. LockOK'
  <2>1. \A v \in Writer \ {w} : pc[v] \notin Locked
    BY DEF LockOK, Locked, PC
  <2> QED
    BY <1>1, <1>3, <2>1 DEF LockOK, Locked
<1> QED
  BY <1>5, <1>6, <1>7

\* A crash gives the lock back and may leave a child at its swap.
LEMMA TypedCrash ==
  ASSUME TransactionConstants, Typed, NEW w \in Writer, Crash(w)
  PROVE  Typed'
<1> USE DEF Typed, TypeOK, Crash, At, Goto, repoVars, found, made, history
<1>1. inside' \subseteq inside /\ w \notin inside'
  BY DEF Lock!Leave
<1>2. RepoTypeOK'
  BY <1>1 DEF RepoTypeOK
<1>3. pc' \in [Writer -> PC] /\ \A v \in Writer : pc'[v] = IF v = w THEN "dead" ELSE pc[v]
  BY DEF PC
<1>4. /\ stray' \in [Writer -> BOOLEAN]
      /\ \A v \in Writer : stray'[v] => stray[v] \/ (v = w /\ pc[w] = "cas")
  OBVIOUS
<1>5. \A v \in inside' : pc'[v] \notin {"idle", "planned", "done", "dead"}
  BY <1>1, <1>3 DEF RepoTypeOK
<1>6. TypeOK'
  BY <1>2, <1>3, <1>4, <1>5
<1>7. ASSUME NEW v \in Writer PROVE StageOK(v)'
  BY <1>3, <1>4 DEF StageOK, Pinned, Prepared, Built, Locked
<1>8. LockOK'
  BY <1>1, <1>3 DEF LockOK, Locked, PC
<1> QED
  BY <1>6, <1>7, <1>8

\* What outsiders do to commits, branches and files keeps their types.
LEMMA TypedOutside ==
  ASSUME TransactionConstants, Typed, OutsideStep
  PROVE  Typed'
<1> USE DEF Typed, TypeOK, OutsideStep, txnVars, found, made, history
<1>1. ASSUME NEW b \in Branch, ExternalCommit(b) PROVE RepoTypeOK' /\ Len(commits) <= Len(commits')
  <2>1. tip[b] \in 0..Len(commits) /\ FilesOf(tip[b]) \in [Path -> Content]
    BY FilesTyped DEF RepoTypeOK
  <2>2. /\ commits' \in Seq(Commit) /\ Len(commits') = NewOid
        /\ NewOid \in 1..MaxCommit /\ NewOid = Len(commits) + 1
    BY <1>1, <2>1, Appending DEF ExternalCommit
  <2>3. /\ tip' = [tip EXCEPT ![b] = NewOid]
        /\ everTip' = [everTip EXCEPT ![b] = @ \cup {NewOid}]
        /\ UNCHANGED <<head, worktree, index>>
    BY <1>1 DEF ExternalCommit, UpdateRef
  <2> QED
    BY <2>2, <2>3 DEF RepoTypeOK
<1>2. ASSUME SwitchHead PROVE RepoTypeOK' /\ Len(commits) <= Len(commits')
  BY <1>2 DEF SwitchHead, RepoTypeOK
<1>3. ASSUME NEW p \in Path, Edit(p) \/ Stage(p) PROVE RepoTypeOK' /\ Len(commits) <= Len(commits')
  <2>1. CASE Edit(p)
    BY <2>1, Contents DEF Edit, RepoTypeOK
  <2>2. CASE Stage(p)
    BY <2>2 DEF Stage, RepoTypeOK
  <2> QED
    BY <1>3, <2>1, <2>2
<1>4. RepoTypeOK' /\ Len(commits) <= Len(commits')
  BY <1>1, <1>2, <1>3 DEF Outside
<1>5. TypeOK'
  BY <1>4
<1>6. ASSUME NEW v \in Writer PROVE StageOK(v)'
  BY <1>4 DEF StageOK, RepoTypeOK
<1>7. LockOK'
  BY DEF LockOK, Locked, PC
<1> QED
  BY <1>5, <1>6, <1>7

\* Whoever enters the lock finds it empty.
LEMMA TypedAcquireLock ==
  ASSUME TransactionConstants, Typed, NEW w \in Writer, AcquireLock(w)
  PROVE  Typed'
<1> USE DEF Typed, TypeOK, AcquireLock, At, Goto, repoVars, found, made, history
<1>1. RepoTypeOK' /\ inside = {} /\ inside' = {w}
  BY DEF RepoTypeOK, Lock!Enter
<1>2. pc' \in [Writer -> PC] /\ \A v \in Writer : pc'[v] = IF v = w THEN "checks" ELSE pc[v]
  BY DEF PC
<1>3. TypeOK'
  BY <1>1, <1>2
<1>4. ASSUME NEW v \in Writer PROVE StageOK(v)'
  BY <1>2 DEF StageOK, Pinned, Prepared, Built, Locked
<1>5. LockOK'
  BY <1>1, <1>2 DEF LockOK, Locked, PC
<1> QED
  BY <1>3, <1>4, <1>5

\* The branch that HEAD names is pinned.
LEMMA TypedPinHead ==
  ASSUME TransactionConstants, Typed, NEW w \in Writer, PinHead(w)
  PROVE  Typed'
<1> USE DEF Typed, TypeOK, PinHead, At, Goto, repoVars, found, made, history
<1>1. RepoTypeOK' /\ head \in Branch
  BY DEF RepoTypeOK
<1>2. pc' \in [Writer -> PC] /\ \A v \in Writer : pc'[v] = IF v = w THEN "resolve" ELSE pc[v]
  BY DEF PC
<1>3. /\ target' \in [Writer -> Branch \cup {None}]
      /\ \A v \in Writer : target'[v] = IF v = w THEN head ELSE target[v]
  BY <1>1
<1>4. TypeOK'
  BY <1>1, <1>2, <1>3
<1>5. ASSUME NEW v \in Writer PROVE StageOK(v)'
  BY <1>1, <1>2, <1>3 DEF StageOK, Pinned, Prepared, Built, Locked
<1>6. LockOK'
  BY <1>2 DEF LockOK, Locked, PC
<1> QED
  BY <1>4, <1>5, <1>6

\* Every step keeps the types, the lock's exclusion and the stages.
LEMMA TypedNext ==
  ASSUME TransactionConstants, Typed, [Next]_vars
  PROVE  Typed'
<1>1. CASE UNCHANGED vars
  BY <1>1 DEF Typed, TypeOK, RepoTypeOK, LockOK, StageOK, vars, repoVars, txnVars, found,
       made, history
<1>2. CASE OutsideStep
  BY <1>2, TypedOutside
<1>3. ASSUME NEW w \in Writer, Observe(w) \/ StrayChildSwaps(w) \/ Crash(w) PROVE Typed'
  BY <1>3, TypedObserve, TypedStrayChildSwaps, TypedCrash
<1>4. ASSUME NEW w \in Writer, Step(w) PROVE Typed'
  BY <1>4, TypedAcquireLock, TypedLockFails, TypedCheckState, TypedPinHead, TypedResolveTip,
     TypedEarlyFailure, TypedCaptureSnapshot, TypedRecordFile, TypedWriteFile, TypedRecordFails,
     TypedWriteFails, TypedBuildCommit, TypedBuildFails, TypedCasSucceeds, TypedCasFails,
     TypedClassify, TypedClassifyFails, TypedPublish, TypedRefresh, TypedRefreshRaises,
     TypedInspectTip, TypedInspectFails, TypedCheckIndex, TypedRestoreFile, TypedRemoveFile,
     TypedPutBackFile, TypedRestoreEnds, TypedReleaseLock
     DEF Step
<1> QED
  BY <1>1, <1>2, <1>3, <1>4 DEF Next, WriterStep

\* In every reachable state, for any number of writers, paths and branches: each
\* variable has its type, one operation at most is under the lock, and what an
\* operation holds fits the stage of AppendOnlyTransaction it is at.
THEOREM Typing ==
  ASSUME TransactionConstants
  PROVE  Spec => []Typed
<1>1. Init => Typed
  BY TypedInit
<1>2. Typed /\ [Next]_vars => Typed'
  BY TypedNext
<1> QED
  BY <1>1, <1>2, PTL DEF Spec

\* A commit that was built is the writer's own, on top of its basis, and on no
\* branch but the one that was pinned.
After == {"cas", "classify", "publish", "refresh", "inspect", "index", "restore", "remove",
          "putback", "release", "done", "dead"}
BuiltOK(w) == newCommit[w] # 0 =>
  /\ pc[w] \in After
  /\ basis[w].commit < newCommit[w]
  /\ commits[newCommit[w]].past = PastOf(basis[w].commit) \cup {newCommit[w]}
  /\ commits[newCommit[w]].parent = basis[w].commit
  /\ \A b \in Branch : OnBranch(newCommit[w], b) => b = target[w]
  /\ \A v \in Writer : newCommit[v] = newCommit[w] => v = w
\* A basis that covers HEAD is checked: the pinned branch is the observed one.
TargetOK(w) ==
  ((pc[w] \in Pinned \/ newCommit[w] # 0) /\ ChecksBasis(w)) => target[w] = basis[w].ref

\* The history of a commit ends with the commit and has no later one.
CommitsOK ==
  \A c \in 1..Len(commits) : c \in commits[c].past /\ commits[c].past \subseteq 1..c

\* The second layer: commits, branches and what the writers built.
History == CommitsOK /\ NoLostCommit /\ \A w \in Writer : BuiltOK(w) /\ TargetOK(w)

(***************************************************************************)
(* The shape of a step: a writer touches what is its own, and a branch     *)
(* moves by one commit on top of its tip.                                  *)
(***************************************************************************)
\* Nothing of the writer v changes.
Kept(v) ==
  /\ pc'[v] = pc[v] /\ basis'[v] = basis[v] /\ target'[v] = target[v]
  /\ snapshot'[v] = snapshot[v] /\ written'[v] = written[v] /\ newCommit'[v] = newCommit[v]
  /\ failure'[v] = failure[v] /\ cursor'[v] = cursor[v] /\ outcome'[v] = outcome[v]
  /\ stray'[v] = stray[v]

\* A step of one writer changes nothing of another.
LEMMA OthersKept ==
  ASSUME Typed, NEW w \in Writer, WriterStep(w), NEW v \in Writer \ {w}
  PROVE  Kept(v) /\ variant' = variant
<1> USE DEF Typed, TypeOK, Kept, Goto, End, Fail, RollbackFailed, Abandon, NextFile, found,
     made, history
<1>1. CASE Observe(w)
  BY <1>1 DEF Observe
<1>2. CASE AcquireLock(w)
  BY <1>2 DEF AcquireLock
<1>3. CASE LockFails(w)
  BY <1>3 DEF LockFails
<1>4. CASE CheckState(w)
  BY <1>4 DEF CheckState
<1>5. CASE PinHead(w)
  BY <1>5 DEF PinHead
<1>6. CASE ResolveTip(w)
  BY <1>6 DEF ResolveTip
<1>7. CASE EarlyFailure(w)
  BY <1>7 DEF EarlyFailure
<1>8. CASE CaptureSnapshot(w)
  BY <1>8 DEF CaptureSnapshot
<1>9. CASE RecordFile(w)
  BY <1>9 DEF RecordFile
<1>10. CASE WriteFile(w)
  BY <1>10 DEF WriteFile
<1>11. CASE RecordFails(w)
  BY <1>11 DEF RecordFails
<1>12. CASE WriteFails(w)
  BY <1>12 DEF WriteFails
<1>13. CASE BuildFails(w)
  BY <1>13 DEF BuildFails
<1>14. CASE CasSucceeds(w)
  BY <1>14 DEF CasSucceeds
<1>15. CASE CasFails(w)
  BY <1>15 DEF CasFails
<1>16. CASE Classify(w)
  BY <1>16 DEF Classify
<1>17. CASE ClassifyFails(w)
  BY <1>17 DEF ClassifyFails
<1>18. CASE Publish(w)
  BY <1>18 DEF Publish
<1>19. CASE Refresh(w)
  BY <1>19 DEF Refresh
<1>20. CASE RefreshRaises(w)
  BY <1>20 DEF RefreshRaises
<1>21. CASE InspectTip(w)
  BY <1>21 DEF InspectTip
<1>22. CASE InspectFails(w)
  BY <1>22 DEF InspectFails
<1>23. CASE CheckIndex(w)
  BY <1>23 DEF CheckIndex
<1>24. CASE RestoreFile(w)
  BY <1>24 DEF RestoreFile
<1>25. CASE RemoveFile(w)
  BY <1>25 DEF RemoveFile
<1>26. CASE PutBackFile(w)
  BY <1>26 DEF PutBackFile
<1>27. CASE RestoreEnds(w)
  BY <1>27 DEF RestoreEnds
<1>28. CASE ReleaseLock(w)
  BY <1>28 DEF ReleaseLock
<1>29. CASE StrayChildSwaps(w)
  BY <1>29 DEF StrayChildSwaps
<1>30. CASE Crash(w)
  BY <1>30 DEF Crash
<1>31. CASE BuildCommit(w)
  BY <1>31 DEF BuildCommit
<1> QED
  BY <1>1, <1>2, <1>3, <1>4, <1>5, <1>6, <1>7, <1>8, <1>9, <1>10, <1>11, <1>12, <1>13,
       <1>14, <1>15, <1>16, <1>17, <1>18, <1>19, <1>20, <1>21, <1>22, <1>23, <1>24, <1>25,
       <1>26, <1>27, <1>28, <1>29, <1>30, <1>31 DEF WriterStep, Step

\* What was planned stays once there is a commit, and HEAD is taken for the branch
\* only if it is the one that was observed.
LEMMA OwnPlan ==
  ASSUME Typed, History, NEW w \in Writer, WriterStep(w), ~BuildCommit(w)
  PROVE  /\ newCommit' = newCommit /\ commits' = commits
         /\ newCommit[w] # 0 => basis'[w] = basis[w] /\ target'[w] = target[w] /\ pc'[w] \in After
         /\ TargetOK(w)'
<1> USE DEF Typed, TypeOK, History, BuiltOK, TargetOK, ChecksBasis, After, Pinned, Locked,
     PC, At, Goto,
            End, Fail, RollbackFailed, Abandon, found, made, history, repoVars
<1>1. CASE Observe(w)
  BY <1>1 DEF Observe
<1>2. CASE AcquireLock(w)
  BY <1>2 DEF AcquireLock
<1>3. CASE LockFails(w)
  BY <1>3 DEF LockFails
<1>4. CASE CheckState(w)
  BY <1>4 DEF CheckState
<1>5. CASE PinHead(w)
  BY <1>5 DEF PinHead
<1>6. CASE ResolveTip(w)
  BY <1>6 DEF ResolveTip
<1>7. CASE EarlyFailure(w)
  BY <1>7 DEF EarlyFailure
<1>8. CASE CaptureSnapshot(w)
  BY <1>8 DEF CaptureSnapshot
<1>9. CASE RecordFile(w)
  BY <1>9 DEF RecordFile
<1>10. CASE WriteFile(w)
  BY <1>10 DEF WriteFile
<1>11. CASE RecordFails(w)
  BY <1>11 DEF RecordFails
<1>12. CASE WriteFails(w)
  BY <1>12 DEF WriteFails
<1>13. CASE BuildFails(w)
  BY <1>13 DEF BuildFails
<1>14. CASE CasSucceeds(w)
  BY <1>14 DEF CasSucceeds
<1>15. CASE CasFails(w)
  BY <1>15 DEF CasFails
<1>16. CASE Classify(w)
  BY <1>16 DEF Classify
<1>17. CASE ClassifyFails(w)
  BY <1>17 DEF ClassifyFails
<1>18. CASE Publish(w)
  BY <1>18 DEF Publish
<1>19. CASE Refresh(w)
  BY <1>19 DEF Refresh
<1>20. CASE RefreshRaises(w)
  BY <1>20 DEF RefreshRaises
<1>21. CASE InspectTip(w)
  BY <1>21 DEF InspectTip
<1>22. CASE InspectFails(w)
  BY <1>22 DEF InspectFails
<1>23. CASE CheckIndex(w)
  BY <1>23 DEF CheckIndex
<1>24. CASE RestoreFile(w)
  BY <1>24 DEF RestoreFile
<1>25. CASE RemoveFile(w)
  BY <1>25 DEF RemoveFile
<1>26. CASE PutBackFile(w)
  BY <1>26 DEF PutBackFile
<1>27. CASE RestoreEnds(w)
  BY <1>27 DEF RestoreEnds
<1>28. CASE ReleaseLock(w)
  BY <1>28 DEF ReleaseLock
<1>29. CASE StrayChildSwaps(w)
  BY <1>29 DEF StrayChildSwaps
<1>30. CASE Crash(w)
  BY <1>30 DEF Crash
<1> QED
  BY <1>1, <1>2, <1>3, <1>4, <1>5, <1>6, <1>7, <1>8, <1>9, <1>10, <1>11, <1>12, <1>13,
       <1>14, <1>15, <1>16, <1>17, <1>18, <1>19, <1>20, <1>21, <1>22, <1>23, <1>24, <1>25,
       <1>26, <1>27, <1>28, <1>29, <1>30 DEF WriterStep, Step

\* A branch moves only by a compare-and-swap, to a commit that was built.
LEMMA BranchStep ==
  ASSUME Typed, NEW w \in Writer, WriterStep(w)
  PROVE  \/ UNCHANGED <<tip, everTip>>
         \/ Swap(w) /\ newCommit[w] # 0 /\ ~BuildCommit(w) /\ (pc[w] = "cas" \/ stray[w])
<1> USE DEF Typed, TypeOK, StageOK, Built, At, Goto, Abandon, repoVars
<1>1. CASE Observe(w)
  BY <1>1 DEF Observe
<1>2. CASE AcquireLock(w)
  BY <1>2 DEF AcquireLock
<1>3. CASE LockFails(w)
  BY <1>3 DEF LockFails
<1>4. CASE CheckState(w)
  BY <1>4 DEF CheckState
<1>5. CASE PinHead(w)
  BY <1>5 DEF PinHead
<1>6. CASE ResolveTip(w)
  BY <1>6 DEF ResolveTip
<1>7. CASE EarlyFailure(w)
  BY <1>7 DEF EarlyFailure
<1>8. CASE CaptureSnapshot(w)
  BY <1>8 DEF CaptureSnapshot
<1>9. CASE RecordFile(w)
  BY <1>9 DEF RecordFile
<1>10. CASE WriteFile(w)
  BY <1>10 DEF WriteFile
<1>11. CASE RecordFails(w)
  BY <1>11 DEF RecordFails
<1>12. CASE WriteFails(w)
  BY <1>12 DEF WriteFails
<1>13. CASE BuildFails(w)
  BY <1>13 DEF BuildFails
<1>14. CASE CasSucceeds(w)
  BY <1>14 DEF CasSucceeds, BuildCommit
<1>15. CASE CasFails(w)
  BY <1>15 DEF CasFails, BuildCommit
<1>16. CASE Classify(w)
  BY <1>16 DEF Classify
<1>17. CASE ClassifyFails(w)
  BY <1>17 DEF ClassifyFails
<1>18. CASE Publish(w)
  BY <1>18 DEF Publish
<1>19. CASE Refresh(w)
  BY <1>19 DEF Refresh
<1>20. CASE RefreshRaises(w)
  BY <1>20 DEF RefreshRaises
<1>21. CASE InspectTip(w)
  BY <1>21 DEF InspectTip
<1>22. CASE InspectFails(w)
  BY <1>22 DEF InspectFails
<1>23. CASE CheckIndex(w)
  BY <1>23 DEF CheckIndex
<1>24. CASE RestoreFile(w)
  BY <1>24 DEF RestoreFile
<1>25. CASE RemoveFile(w)
  BY <1>25 DEF RemoveFile
<1>26. CASE PutBackFile(w)
  BY <1>26 DEF PutBackFile
<1>27. CASE RestoreEnds(w)
  BY <1>27 DEF RestoreEnds
<1>28. CASE ReleaseLock(w)
  BY <1>28 DEF ReleaseLock
<1>29. CASE StrayChildSwaps(w)
  BY <1>29 DEF StrayChildSwaps, BuildCommit
<1>30. CASE Crash(w)
  BY <1>30 DEF Crash
<1>31. CASE BuildCommit(w)
  BY <1>31 DEF BuildCommit
<1> QED
  BY <1>1, <1>2, <1>3, <1>4, <1>5, <1>6, <1>7, <1>8, <1>9, <1>10, <1>11, <1>12, <1>13,
       <1>14, <1>15, <1>16, <1>17, <1>18, <1>19, <1>20, <1>21, <1>22, <1>23, <1>24, <1>25,
       <1>26, <1>27, <1>28, <1>29, <1>30, <1>31 DEF WriterStep, Step

\* A swap adds the writer's commit, and nothing else, to the branch it pinned.
LEMMA SwapGrows ==
  ASSUME Typed, History, NEW w \in Writer, Swap(w), newCommit[w] # 0, commits' = commits
  PROVE  /\ target[w] \in Branch
         /\ everTip' = [everTip EXCEPT ![target[w]] = @ \cup {newCommit[w]}]
         /\ \A b \in Branch : PastOf(tip[b])' = IF b = target[w] THEN PastOf(tip[b]) \cup {newCommit[w]}
                                                                ELSE PastOf(tip[b])
<1>1. target[w] \in Branch /\ newCommit[w] \in 1..Len(commits)
  BY DEF Typed, TypeOK, StageOK
<1>2. /\ tip[target[w]] = basis[w].commit
      /\ tip' = [tip EXCEPT ![target[w]] = newCommit[w]]
      /\ everTip' = [everTip EXCEPT ![target[w]] = @ \cup {newCommit[w]}]
  BY DEF Swap, UpdateRef
<1>3. PastOf(newCommit[w]) = PastOf(tip[target[w]]) \cup {newCommit[w]}
  BY <1>1, <1>2 DEF History, BuiltOK, PastOf
<1>4. \A c \in 0..Len(commits) : PastOf(c)' = PastOf(c)
  BY DEF PastOf
<1>5. \A b \in Branch : tip'[b] = IF b = target[w] THEN newCommit[w] ELSE tip[b]
  BY <1>1, <1>2 DEF Typed, TypeOK, RepoTypeOK
<1>6. ASSUME NEW b \in Branch
      PROVE  PastOf(tip[b])' = IF b = target[w] THEN PastOf(tip[b]) \cup {newCommit[w]}
                                                ELSE PastOf(tip[b])
  <2>1. CASE b = target[w]
    <3>1. tip'[b] = newCommit[w] /\ PastOf(newCommit[w]) = PastOf(tip[b]) \cup {newCommit[w]}
      BY <1>3, <1>5, <2>1
    <3> QED
      BY <1>1, <2>1, <3>1 DEF PastOf
  <2>2. CASE b # target[w]
    BY <1>5, <2>2 DEF PastOf
  <2> QED
    BY <2>1, <2>2
<1> QED
  BY <1>1, <1>2, <1>6

\* A new object leaves the history of every other commit alone.
LEMMA NewObject ==
  ASSUME TransactionConstants, RepoTypeOK, CommitsOK, NEW p \in 0..Len(commits),
         NEW f \in [Path -> Content], CommitTree(p, f)
  PROVE  /\ CommitsOK'
         /\ \A c \in 0..Len(commits) : PastOf(c)' = PastOf(c) /\ PastOf(c) \subseteq 1..c
         /\ \A c \in 1..Len(commits) : commits'[c] = commits[c]
         /\ commits'[NewOid].past = PastOf(p) \cup {NewOid} /\ commits'[NewOid].parent = p
         /\ Len(commits') = NewOid /\ NewOid = Len(commits) + 1 /\ Len(commits) \in Nat
<1>1. /\ commits' \in Seq(Commit) /\ Len(commits') = NewOid
      /\ NewOid = Len(commits) + 1 /\ Len(commits) \in Nat
      /\ commits'[NewOid].past = PastOf(p) \cup {NewOid} /\ commits'[NewOid].parent = p
      /\ \A c \in 1..Len(commits) : commits'[c] = commits[c]
  <2>1. Len(commits) \in Nat
    BY DEF RepoTypeOK
  <2>2. /\ commits' \in Seq(Commit) /\ Len(commits') = NewOid /\ NewOid = Len(commits) + 1
        /\ commits'[NewOid] = [past |-> PastOf(p) \cup {NewOid}, parent |-> p, files |-> f]
        /\ \A c \in 1..Len(commits) : commits'[c] = commits[c]
    BY Appending
  <2> QED
    BY <2>1, <2>2
<1>2. \A c \in 0..Len(commits) : PastOf(c)' = PastOf(c) /\ PastOf(c) \subseteq 1..c
  BY <1>1 DEF PastOf, CommitsOK
<1>3. CommitsOK'
  <2> SUFFICES ASSUME NEW c \in 1..Len(commits')
               PROVE  c \in commits'[c].past /\ commits'[c].past \subseteq 1..c
    BY DEF CommitsOK
  <2>1. CASE c = NewOid
    BY <1>1, <1>2, <2>1
  <2>2. CASE c # NewOid
    BY <1>1, <2>2 DEF CommitsOK
  <2> QED
    BY <2>1, <2>2
<1> QED
  BY <1>1, <1>2, <1>3

\* At the start there is one commit, and nobody has built another.
LEMMA HistoryInit ==
  ASSUME TransactionConstants, Init
  PROVE  History
<1>1. Len(commits) = 1 /\ commits[1].past = {1}
  BY DEF Init
<1>2. CommitsOK
  BY <1>1 DEF CommitsOK
<1>3. NoLostCommit
  BY <1>1 DEF Init, NoLostCommit, PastOf
<1>4. \A w \in Writer : BuiltOK(w) /\ TargetOK(w)
  BY DEF Init, BuiltOK, TargetOK, Pinned, Locked
<1> QED
  BY <1>2, <1>3, <1>4 DEF History

\* The writer's steps other than a new commit: quiet ones, and the swaps.
LEMMA HistoryStep ==
  ASSUME TransactionConstants, Typed, History, NEW w \in Writer, WriterStep(w), ~BuildCommit(w)
  PROVE  History'
<1>1. /\ newCommit' = newCommit /\ commits' = commits
      /\ newCommit[w] # 0 => basis'[w] = basis[w] /\ target'[w] = target[w] /\ pc'[w] \in After
      /\ TargetOK(w)'
  BY OwnPlan
<1>2. \A v \in Writer \ {w} : Kept(v) /\ variant' = variant
  BY OthersKept
<1>3. CommitsOK'
  BY <1>1 DEF History, CommitsOK
<1>4. \A v \in Writer : TargetOK(v)'
  BY <1>1, <1>2 DEF History, TargetOK, ChecksBasis, Kept
<1>5. \A c \in 0..Len(commits) : PastOf(c)' = PastOf(c)
  BY <1>1 DEF PastOf
<1>6. \A v \in Writer : basis[v].commit \in 0..Len(commits)
  BY DEF Typed, TypeOK, StageOK
<1>7. ASSUME NEW v \in Writer, newCommit[v] # 0,
             \A b \in Branch : OnBranch(newCommit[v], b)' => b = target[v]
      PROVE  BuiltOK(v)'
  <2>1. basis'[v] = basis[v] /\ target'[v] = target[v] /\ pc'[v] \in After
    BY <1>1, <1>2, <1>7 DEF History, BuiltOK, Kept
  <2>2. BuiltOK(v)
    BY DEF History
  <2> QED
    BY <1>1, <1>5, <1>6, <1>7, <2>1, <2>2 DEF BuiltOK, OnBranch
<1>8. CASE UNCHANGED <<tip, everTip>>
  <2>1. \A b \in Branch : PastOf(tip[b])' = PastOf(tip[b])
    BY <1>1, <1>8 DEF PastOf
  <2>2. NoLostCommit'
    BY <1>8, <2>1 DEF History, NoLostCommit
  <2>3. \A v \in Writer : BuiltOK(v)'
    BY <1>1, <1>7, <2>1 DEF History, BuiltOK, OnBranch
  <2> QED
    BY <1>3, <1>4, <2>2, <2>3 DEF History
<1>9. CASE Swap(w) /\ newCommit[w] # 0
  <2>1. /\ target[w] \in Branch
        /\ everTip' = [everTip EXCEPT ![target[w]] = @ \cup {newCommit[w]}]
        /\ \A b \in Branch : PastOf(tip[b])' = IF b = target[w] THEN PastOf(tip[b]) \cup {newCommit[w]}
                                                               ELSE PastOf(tip[b])
    BY <1>1, <1>9, SwapGrows
  <2>2. NoLostCommit'
    <3>1. \A b \in Branch : everTip'[b] = IF b = target[w] THEN everTip[b] \cup {newCommit[w]}
                                                          ELSE everTip[b]
      BY <2>1 DEF Typed, TypeOK, RepoTypeOK
    <3>2. ASSUME NEW b \in Branch PROVE everTip'[b] \subseteq PastOf(tip[b])'
      <4>1. everTip[b] \subseteq PastOf(tip[b])
        BY DEF History, NoLostCommit
      <4>2. CASE b = target[w]
        <5>1. everTip'[b] = everTip[b] \cup {newCommit[w]}
          BY <3>1, <4>2
        <5>2. PastOf(tip[b])' = PastOf(tip[b]) \cup {newCommit[w]}
          BY <2>1, <4>2
        <5> QED
          BY <4>1, <5>1, <5>2
      <4>3. CASE b # target[w]
        BY <2>1, <3>1, <4>1, <4>3
      <4> QED
        BY <4>2, <4>3
    <3> QED
      BY <3>2 DEF NoLostCommit
  <2>3. ASSUME NEW v \in Writer, newCommit[v] # 0, NEW b \in Branch, OnBranch(newCommit[v], b)'
        PROVE  b = target[v]
    <3>1. newCommit[v] \in PastOf(tip[b])'
      BY <1>1, <2>3 DEF OnBranch
    <3>2. CASE newCommit[v] \in PastOf(tip[b])
      BY <2>3, <3>2 DEF History, BuiltOK, OnBranch
    <3>3. CASE b = target[w] /\ newCommit[v] = newCommit[w]
      BY <1>9, <3>3 DEF History, BuiltOK
    <3>4. newCommit[v] \in PastOf(tip[b]) \/ (b = target[w] /\ newCommit[v] = newCommit[w])
      BY <2>1, <3>1
    <3> QED
      BY <3>2, <3>3, <3>4
  <2>4. \A v \in Writer : BuiltOK(v)'
    BY <1>1, <1>7, <2>3 DEF BuiltOK
  <2> QED
    BY <1>3, <1>4, <2>2, <2>4 DEF History
<1> QED
  BY <1>8, <1>9, BranchStep

\* What building a commit adds to the object store.
LEMMA CommitBuilt ==
  ASSUME TransactionConstants, Typed, History, NEW w \in Writer, BuildCommit(w)
  PROVE  /\ CommitsOK'
         /\ \A c \in 0..Len(commits) : PastOf(c)' = PastOf(c) /\ PastOf(c) \subseteq 1..c
         /\ \A c \in 1..Len(commits) : commits'[c] = commits[c]
         /\ commits'[NewOid].past = PastOf(basis[w].commit) \cup {NewOid}
         /\ commits'[NewOid].parent = basis[w].commit
         /\ Len(commits') = NewOid /\ NewOid = Len(commits) + 1 /\ Len(commits) \in Nat
         /\ basis[w].commit \in 0..Len(commits)
<1> DEFINE old == basis[w].commit
           f == [p \in Path |-> IF p \in Owned(w) THEN worktree[p] ELSE FilesOf(old)[p]]
<1>1. old \in 0..Len(commits) /\ f \in [Path -> Content] /\ RepoTypeOK
  <2>1. old \in 0..Len(commits) /\ RepoTypeOK
    BY DEF Typed, TypeOK, StageOK
  <2> QED
    BY <2>1, FilesTyped DEF RepoTypeOK
<1>2. CommitTree(old, f)
  BY DEF BuildCommit
<1> HIDE DEF f
<1> QED
  BY <1>1, <1>2, NewObject DEF History

\* A new object is on no branch yet, and is no other writer's commit.
LEMMA HistoryBuild ==
  ASSUME TransactionConstants, Typed, History, NEW w \in Writer, BuildCommit(w)
  PROVE  History'
<1> DEFINE old == basis[w].commit
<1>2. pc[w] = "build"
  BY DEF BuildCommit, At
<1>3. /\ pc' = [pc EXCEPT ![w] = "cas"]
      /\ newCommit' = [newCommit EXCEPT ![w] = NewOid]
      /\ UNCHANGED <<head, tip, everTip, basis, target, variant>>
  BY DEF BuildCommit, Goto, found
<1>4. /\ CommitsOK'
      /\ \A c \in 0..Len(commits) : PastOf(c)' = PastOf(c) /\ PastOf(c) \subseteq 1..c
      /\ \A c \in 1..Len(commits) : commits'[c] = commits[c]
      /\ commits'[NewOid].past = PastOf(old) \cup {NewOid} /\ commits'[NewOid].parent = old
      /\ Len(commits') = NewOid /\ NewOid = Len(commits) + 1 /\ Len(commits) \in Nat
  BY CommitBuilt
<1>5. \A b \in Branch : tip[b] \in 0..Len(commits) /\ PastOf(tip[b])' = PastOf(tip[b])
  BY <1>3, <1>4 DEF Typed, TypeOK, RepoTypeOK, PastOf
<1>6. NoLostCommit'
  BY <1>3, <1>5 DEF History, NoLostCommit
<1>7. \A v \in Writer : /\ pc'[v] = IF v = w THEN "cas" ELSE pc[v]
                        /\ newCommit'[v] = IF v = w THEN NewOid ELSE newCommit[v]
                        /\ newCommit[v] \in 0..Len(commits) /\ basis[v].commit \in 0..Len(commits)
  BY <1>3 DEF Typed, TypeOK, StageOK
<1>8. \A v \in Writer : TargetOK(v)'
  BY <1>2, <1>3, <1>7 DEF History, TargetOK, ChecksBasis, Pinned, Locked, PC
<1>9. ASSUME NEW v \in Writer PROVE BuiltOK(v)'
  <2>1. CASE v = w
    <3>1. \A b \in Branch : NewOid \notin PastOf(tip[b])'
      BY <1>4, <1>5
    <3>2. \A u \in Writer : newCommit'[u] = NewOid => u = w
      BY <1>4, <1>7
    <3> QED
      BY <1>3, <1>4, <1>7, <2>1, <3>1, <3>2 DEF BuiltOK, OnBranch, After
  <2>2. CASE v # w /\ newCommit[v] # 0
    <3>1. BuiltOK(v)
      BY DEF History
    <3>2. newCommit'[v] = newCommit[v] /\ newCommit[v] \in 1..Len(commits) /\ newCommit'[w] # newCommit[v]
      BY <1>4, <1>7, <2>2
    <3>3. \A b \in Branch : OnBranch(newCommit[v], b)' <=> OnBranch(newCommit[v], b)
      BY <1>5, <3>2 DEF OnBranch
    <3> QED
      BY <1>3, <1>4, <1>7, <2>2, <3>1, <3>2, <3>3 DEF BuiltOK, OnBranch
  <2>3. CASE v # w /\ newCommit[v] = 0
    BY <1>7, <2>3 DEF BuiltOK
  <2> QED
    BY <2>1, <2>2, <2>3
<1> QED
  BY <1>4, <1>6, <1>8, <1>9 DEF History

\* What outsiders do to the branches: a commit on top of one of them, or nothing.
LEMMA OutsideGrows ==
  ASSUME TransactionConstants, Typed, History, OutsideStep
  PROVE  /\ CommitsOK' /\ NoLostCommit'
         /\ \A c \in 0..Len(commits) : PastOf(c)' = PastOf(c)
         /\ \A c \in 1..Len(commits) : commits'[c] = commits[c]
         /\ \A b \in Branch, c \in 1..Len(commits) : OnBranch(c, b)' <=> OnBranch(c, b)
<1>1. ASSUME NEW b \in Branch, ExternalCommit(b)
      PROVE  /\ CommitsOK' /\ NoLostCommit'
             /\ \A c \in 0..Len(commits) : PastOf(c)' = PastOf(c)
             /\ \A c \in 1..Len(commits) : commits'[c] = commits[c]
             /\ \A d \in Branch, c \in 1..Len(commits) : OnBranch(c, d)' <=> OnBranch(c, d)
  <2>1. tip[b] \in 1..Len(commits) /\ FilesOf(tip[b]) \in [Path -> Content] /\ RepoTypeOK
    BY <1>1, FilesTyped DEF Typed, TypeOK, RepoTypeOK, ExternalCommit
  <2>2. /\ CommitsOK'
        /\ \A c \in 0..Len(commits) : PastOf(c)' = PastOf(c) /\ PastOf(c) \subseteq 1..c
        /\ \A c \in 1..Len(commits) : commits'[c] = commits[c]
        /\ commits'[NewOid].past = PastOf(tip[b]) \cup {NewOid}
        /\ NewOid = Len(commits) + 1 /\ Len(commits) \in Nat
    BY <1>1, <2>1, NewObject DEF ExternalCommit, History
  <2>3. /\ tip' = [tip EXCEPT ![b] = NewOid]
        /\ everTip' = [everTip EXCEPT ![b] = @ \cup {NewOid}]
    BY <1>1 DEF ExternalCommit, UpdateRef
  <2>4. \A d \in Branch : PastOf(tip[d])' = IF d = b THEN PastOf(tip[b]) \cup {NewOid} ELSE PastOf(tip[d])
    <3> SUFFICES ASSUME NEW d \in Branch
                 PROVE  PastOf(tip[d])' = IF d = b THEN PastOf(tip[b]) \cup {NewOid} ELSE PastOf(tip[d])
      OBVIOUS
    <3>1. tip'[d] = (IF d = b THEN NewOid ELSE tip[d]) /\ tip[d] \in 0..Len(commits)
      BY <2>3 DEF Typed, TypeOK, RepoTypeOK
    <3>2. CASE d = b
      <4>1. tip'[d] = NewOid /\ NewOid # 0
        BY <2>2, <3>1, <3>2
      <4> QED
        BY <2>2, <3>2, <4>1 DEF PastOf
    <3>3. CASE d # b
      BY <2>2, <3>1, <3>3 DEF PastOf
    <3> QED
      BY <3>2, <3>3
  <2>5. NoLostCommit'
    BY <2>3, <2>4 DEF History, NoLostCommit, Typed, TypeOK, RepoTypeOK
  <2> QED
    BY <2>2, <2>4, <2>5 DEF OnBranch
<1>2. CASE UNCHANGED <<tip, commits, everTip>>
  BY <1>2 DEF History, CommitsOK, NoLostCommit, PastOf, OnBranch
<1> QED
  BY <1>1, <1>2 DEF OutsideStep, Outside, SwitchHead, Edit, Stage

\* Outside steps keep the history: writers' commits stay where they were.
LEMMA HistoryOutside ==
  ASSUME TransactionConstants, Typed, History, OutsideStep
  PROVE  History'
<1>1. UNCHANGED <<pc, variant, basis, target, newCommit>>
  BY DEF OutsideStep, txnVars, found, made
<1>2. \A w \in Writer : newCommit[w] \in 0..Len(commits) /\ basis[w].commit \in 0..Len(commits)
  BY DEF Typed, TypeOK, StageOK
<1>3. \A w \in Writer : BuiltOK(w)' /\ TargetOK(w)'
  BY <1>1, <1>2, OutsideGrows DEF History, BuiltOK, TargetOK, ChecksBasis
<1> QED
  BY <1>3, OutsideGrows DEF History

\* Every step keeps the history.
LEMMA HistoryNext ==
  ASSUME TransactionConstants, Typed, History, [Next]_vars
  PROVE  History'
<1>1. CASE UNCHANGED vars
  BY <1>1 DEF History, CommitsOK, NoLostCommit, BuiltOK, TargetOK, ChecksBasis, PastOf,
       OnBranch,
              vars, repoVars, txnVars, found, made
<1>2. ASSUME NEW w \in Writer, WriterStep(w) PROVE History'
  BY <1>2, HistoryStep, HistoryBuild
<1> QED
  BY <1>1, <1>2, HistoryOutside DEF Next, WriterStep

\* No commit that a branch ever named drops out of its history, for any number
\* of operations, late git children and outside commits.
THEOREM NothingDropped ==
  ASSUME TransactionConstants
  PROVE  Spec => []HistoryIsKept
<1>1. Init => Typed /\ History
  BY TypedInit, HistoryInit
<1>2. Typed /\ History /\ [Next]_vars => (Typed /\ History)'
  BY TypedNext, HistoryNext
<1>3. Typed /\ History => HistoryIsKept
  BY DEF Typed, History, HistoryIsKept
<1> QED
  BY <1>1, <1>2, <1>3, PTL DEF Spec

\* A published commit is on the pinned branch, on top of its basis.
LEMMA PlannedThere ==
  ASSUME Typed, History
  PROVE  PublishedAsPlanned
BY DEF Typed, TypeOK, History, PublishedAsPlanned, Published, BuiltOK, TargetOK

\* An operation whose basis covers HEAD is published on the branch and on top of
\* the commit it was planned against, and nowhere else.
THEOREM PublishedThere ==
  ASSUME TransactionConstants
  PROVE  Spec => []PublishedAsPlanned
<1>1. Init => Typed /\ History
  BY TypedInit, HistoryInit
<1>2. Typed /\ History /\ [Next]_vars => (Typed /\ History)'
  BY TypedNext, HistoryNext
<1> QED
  BY <1>1, <1>2, PlannedThere, PTL DEF Spec

(***************************************************************************)
(* What the caller is told.                                                *)
(***************************************************************************)
\* While no branch moves, a commit is published as before.
LEMMA PublishedKept ==
  ASSUME TransactionConstants, Typed, History, NEW w \in Writer, WriterStep(w),
         NEW v \in Writer, newCommit'[v] = newCommit[v], tip' = tip
  PROVE  Published(v)' <=> Published(v)
<1>1. newCommit[v] \in 0..Len(commits) /\ \A b \in Branch : tip[b] \in 0..Len(commits)
  BY DEF Typed, TypeOK, RepoTypeOK, StageOK
<1>2. \A c \in 0..Len(commits) : PastOf(c)' = PastOf(c)
  <2>1. CASE BuildCommit(w)
    BY <2>1, CommitBuilt
  <2>2. CASE ~BuildCommit(w)
    BY <2>2, OwnPlan DEF PastOf
  <2> QED
    BY <2>1, <2>2
<1>3. \A b \in Branch : PastOf(tip[b])' = PastOf(tip[b])
  BY <1>1, <1>2 DEF PastOf
<1> QED
  BY <1>3 DEF Published, Reachable, OnBranch

\* A published commit stays published, and nobody else publishes a writer's.
LEMMA PublishedMoves ==
  ASSUME TransactionConstants, Typed, History, NEW w \in Writer, WriterStep(w),
         NEW v \in Writer, newCommit'[v] = newCommit[v]
  PROVE  /\ Published(v) => Published(v)'
         /\ v # w => (Published(v)' <=> Published(v))
<1>1. CASE tip' = tip
  BY <1>1, PublishedKept
<1>2. CASE tip' # tip
  <2>1. Swap(w) /\ newCommit[w] # 0 /\ commits' = commits
    BY <1>2, BranchStep, OwnPlan
  <2>2. \A b \in Branch : PastOf(tip[b])' = IF b = target[w] THEN PastOf(tip[b]) \cup {newCommit[w]}
                                                            ELSE PastOf(tip[b])
    BY <2>1, SwapGrows
  <2>3. ASSUME NEW b \in Branch PROVE OnBranch(newCommit[v], b) => OnBranch(newCommit[v], b)'
    BY <2>2 DEF OnBranch
  <2>4. ASSUME NEW b \in Branch, v # w, newCommit[v] # 0, OnBranch(newCommit[v], b)'
        PROVE  OnBranch(newCommit[v], b)
    <3>1. newCommit[v] # newCommit[w]
      BY <2>1, <2>4 DEF History, BuiltOK
    <3> QED
      BY <2>2, <2>4, <3>1 DEF OnBranch
  <2> QED
    BY <2>3, <2>4 DEF Published, Reachable
<1> QED
  BY <1>1, <1>2

\* After the swap the commit is on a branch.
LEMMA SwapPublishes ==
  ASSUME Typed, History, NEW w \in Writer, Swap(w), newCommit[w] # 0, commits' = commits,
         newCommit' = newCommit
  PROVE  Published(w)'
<1>1. PICK b \in Branch : b = target[w]
  BY SwapGrows
<1>2. PastOf(tip[b])' = PastOf(tip[b]) \cup {newCommit[w]}
  BY <1>1, SwapGrows
<1> QED
  BY <1>2 DEF Published, Reachable, OnBranch

\* The tip of the pinned branch tells whether the commit is there.
LEMMA TipTells ==
  ASSUME Typed, History, NEW w \in Writer
  PROVE  /\ newCommit[w] # 0 /\ tip[target[w]] = newCommit[w] => Published(w)
         /\ tip[target[w]] = basis[w].commit => ~Published(w)
<1>1. CASE newCommit[w] # 0
  <2>1. target[w] \in Branch /\ newCommit[w] \in 1..Len(commits) /\ basis[w].commit \in 0..Len(commits)
    BY <1>1 DEF Typed, TypeOK, StageOK
  <2>2. newCommit[w] \in PastOf(newCommit[w])
    BY <1>1, <2>1 DEF History, CommitsOK, PastOf
  <2>3. newCommit[w] \notin PastOf(basis[w].commit)
    BY <1>1, <2>1 DEF History, BuiltOK, CommitsOK, PastOf
  <2> QED
    BY <1>1, <2>1, <2>2, <2>3 DEF Published, Reachable, OnBranch, History, BuiltOK
<1> QED
  BY <1>1 DEF Published

\* The third layer: what each stage, and each answer, says of the branch.
AnswerOK(w) ==
  /\ stray[w] => pc[w] = "dead" /\ cursor[w] = 0 /\ outcome[w] = "none"
  /\ pc[w] \in {"publish", "refresh"} => Published(w)
  /\ outcome[w] # "none" => pc[w] \in {"release", "done", "dead"}
  /\ outcome[w] = "ok" => Published(w)
  /\ cursor[w] > 0 => pc[w] \in {"restore", "remove", "putback", "release", "done", "dead"}
  /\ (pc[w] \in {"index", "restore", "remove", "putback"} \/ cursor[w] > 0) => ~Published(w)
  /\ (Publishes(w) /\ (pc[w] = "inspect" \/ outcome[w] = "failed")) => ~Published(w)

\* At the start nobody has an answer.
LEMMA AnswerInit ==
  ASSUME Init, NEW w \in Writer
  PROVE  AnswerOK(w)
BY DEF Init, AnswerOK, Published

\* The steps of others leave the truth of an operation's answer alone.
LEMMA AnswerOthers ==
  ASSUME TransactionConstants, Typed, History, NEW w \in Writer, WriterStep(w),
         NEW v \in Writer \ {w}, AnswerOK(v)
  PROVE  AnswerOK(v)'
<1>1. Kept(v) /\ variant' = variant
  BY OthersKept
<1>2. Published(v)' <=> Published(v)
  BY <1>1, PublishedMoves DEF Kept
<1> QED
  BY <1>1, <1>2 DEF Kept, AnswerOK, Publishes

\* The operation's own steps: the stages that lead to an answer carry what it
\* says. This is where a child that outlives its termination would break it.
LEMMA AnswerOwn ==
  ASSUME TransactionConstants, Typed, History, NEW w \in Writer \ Outliving, WriterStep(w),
         AnswerOK(w)
  PROVE  AnswerOK(w)'
<1> USE DEF Typed, TypeOK, AnswerOK, At, Goto, End, Fail, RollbackFailed, Abandon, Told,
     Failure, NextFile,
            Publishes, found, made, history, repoVars
<1>unbuilt. newCommit[w] = 0 => ~Published(w)
  BY DEF Published
<1>kept. newCommit'[w] = newCommit[w] =>
           /\ Published(w) => Published(w)'
           /\ tip' = tip => (Published(w)' <=> Published(w))
  BY PublishedMoves, PublishedKept
<1>after. newCommit[w] # 0 => pc[w] \in After
  BY DEF History, BuiltOK
<1>1. CASE Observe(w)
  BY <1>1, <1>unbuilt, <1>kept, <1>after DEF Observe, After
<1>2. CASE AcquireLock(w)
  BY <1>2, <1>unbuilt, <1>kept, <1>after DEF AcquireLock, After
<1>3. CASE LockFails(w)
  BY <1>3, <1>unbuilt, <1>kept, <1>after DEF LockFails, After
<1>4. CASE CheckState(w)
  BY <1>4, <1>unbuilt, <1>kept, <1>after DEF CheckState, After
<1>5. CASE PinHead(w)
  BY <1>5, <1>unbuilt, <1>kept, <1>after DEF PinHead, After
<1>6. CASE ResolveTip(w)
  BY <1>6, <1>unbuilt, <1>kept, <1>after DEF ResolveTip, After
<1>7. CASE EarlyFailure(w)
  BY <1>7, <1>unbuilt, <1>kept, <1>after DEF EarlyFailure, After
<1>8. CASE CaptureSnapshot(w)
  BY <1>8, <1>unbuilt, <1>kept, <1>after DEF CaptureSnapshot, After
<1>9. CASE RecordFile(w)
  BY <1>9, <1>unbuilt, <1>kept, <1>after DEF RecordFile, After
<1>10. CASE WriteFile(w)
  BY <1>10, <1>unbuilt, <1>kept, <1>after DEF WriteFile, After
<1>11. CASE RecordFails(w)
  BY <1>11, <1>unbuilt, <1>kept, <1>after DEF RecordFails, After
<1>12. CASE WriteFails(w)
  BY <1>12, <1>unbuilt, <1>kept, <1>after DEF WriteFails, After
<1>13. CASE BuildFails(w)
  BY <1>13, <1>unbuilt, <1>kept, <1>after DEF BuildFails, After
<1>14. CASE CasSucceeds(w)
  <2>1. newCommit[w] # 0 /\ Swap(w) /\ commits' = commits /\ newCommit' = newCommit
    BY <1>14 DEF CasSucceeds, StageOK, Built
  <2>2. Published(w)'
    BY <2>1, SwapPublishes
  <2> QED
    BY <1>14, <2>2 DEF CasSucceeds
<1>15. CASE CasFails(w)
  BY <1>15, <1>unbuilt, <1>kept, <1>after DEF CasFails, After
<1>16. CASE Classify(w)
  <2>1. newCommit[w] # 0 /\ pc[w] = "classify" /\ UNCHANGED <<repoVars, variant, newCommit, failure, cursor, stray>>
    BY <1>16 DEF Classify, StageOK, Built
  <2>2. CASE pc' = [pc EXCEPT ![w] = "publish"] /\ UNCHANGED outcome /\ tip[target[w]] = newCommit[w]
    BY <1>kept, <2>1, <2>2, TipTells
  <2>3. CASE pc' = [pc EXCEPT ![w] = "inspect"] /\ UNCHANGED outcome /\ tip[target[w]] = basis[w].commit
    BY <1>kept, <2>1, <2>3, TipTells
  <2>4. CASE End(w, IF failure[w] = "async" THEN "cancelled" ELSE "unclassified")
    BY <1>kept, <2>1, <2>4
  <2> QED
    BY <1>16, <2>2, <2>3, <2>4 DEF Classify
<1>17. CASE ClassifyFails(w)
  BY <1>17, <1>unbuilt, <1>kept, <1>after DEF ClassifyFails, After
<1>18. CASE Publish(w)
  BY <1>18, <1>unbuilt, <1>kept, <1>after DEF Publish, After
<1>19. CASE Refresh(w)
  BY <1>19, <1>unbuilt, <1>kept, <1>after DEF Refresh, After
<1>20. CASE RefreshRaises(w)
  BY <1>20, <1>unbuilt, <1>kept, <1>after DEF RefreshRaises, After
<1>21. CASE InspectTip(w)
  <2>1. pc[w] = "inspect" /\ UNCHANGED <<repoVars, variant, newCommit, failure, cursor, stray>>
    BY <1>21 DEF InspectTip
  <2>2. CASE newCommit[w] # 0 /\ tip[target[w]] = newCommit[w] /\ End(w, Told(failure[w]))
    BY <1>kept, <2>1, <2>2, TipTells
  <2>3. CASE tip[target[w]] = basis[w].commit /\ pc' = [pc EXCEPT ![w] = "index"] /\ UNCHANGED outcome
    BY <1>kept, <2>1, <2>3, TipTells
  <2>4. CASE RollbackFailed(w)
    BY <1>kept, <2>1, <2>4
  <2> QED
    BY <1>21, <2>2, <2>3, <2>4 DEF InspectTip
<1>22. CASE InspectFails(w)
  BY <1>22, <1>unbuilt, <1>kept, <1>after DEF InspectFails, After
<1>23. CASE CheckIndex(w)
  BY <1>23, <1>unbuilt, <1>kept, <1>after DEF CheckIndex, After
<1>24. CASE RestoreFile(w)
  BY <1>24, <1>unbuilt, <1>kept, <1>after DEF RestoreFile, After
<1>25. CASE RemoveFile(w)
  BY <1>25, <1>unbuilt, <1>kept, <1>after DEF RemoveFile, After
<1>26. CASE PutBackFile(w)
  BY <1>26, <1>unbuilt, <1>kept, <1>after DEF PutBackFile, After
<1>27. CASE RestoreEnds(w)
  BY <1>27, <1>unbuilt, <1>kept, <1>after DEF RestoreEnds, After
<1>28. CASE ReleaseLock(w)
  BY <1>28, <1>unbuilt, <1>kept, <1>after DEF ReleaseLock, After
<1>29. CASE StrayChildSwaps(w)
  BY <1>29, <1>unbuilt, <1>kept, <1>after DEF StrayChildSwaps, After
<1>30. CASE Crash(w)
  BY <1>30, <1>unbuilt, <1>kept, <1>after DEF Crash, After
<1>31. CASE BuildCommit(w)
  BY <1>31, <1>unbuilt, <1>kept, <1>after DEF BuildCommit, After
<1> QED
  BY <1>1, <1>2, <1>3, <1>4, <1>5, <1>6, <1>7, <1>8, <1>9, <1>10, <1>11, <1>12, <1>13,
       <1>14, <1>15, <1>16, <1>17, <1>18, <1>19, <1>20, <1>21, <1>22, <1>23, <1>24, <1>25,
       <1>26, <1>27, <1>28, <1>29, <1>30, <1>31 DEF WriterStep, Step

\* Outsiders neither publish a writer's commit nor take it off a branch.
LEMMA OutsidePublishes ==
  ASSUME TransactionConstants, Typed, History, OutsideStep, NEW v \in Writer
  PROVE  Published(v)' <=> Published(v)
<1>1. newCommit[v] \in 0..Len(commits) /\ newCommit'[v] = newCommit[v]
  BY DEF Typed, TypeOK, StageOK, OutsideStep, txnVars, made
<1> QED
  BY <1>1, OutsideGrows DEF Published, Reachable

\* Every step keeps the answers true.
LEMMA AnswerNext ==
  ASSUME TransactionConstants, Typed, History, [Next]_vars,
         \A v \in Writer \ Outliving : AnswerOK(v)
  PROVE  \A v \in Writer \ Outliving : AnswerOK(v)'
<1> SUFFICES ASSUME NEW v \in Writer \ Outliving PROVE AnswerOK(v)'
  OBVIOUS
<1>1. CASE UNCHANGED vars
  BY <1>1 DEF AnswerOK, Published, Reachable, OnBranch, PastOf, Publishes, vars, repoVars,
       txnVars, found, made, history
<1>2. CASE OutsideStep
  <2>1. UNCHANGED <<variant, pc, outcome, cursor, stray>>
    BY <1>2 DEF OutsideStep, txnVars, found, history
  <2> QED
    BY <1>2, <2>1, OutsidePublishes DEF AnswerOK, Publishes
<1>3. ASSUME NEW w \in Writer, WriterStep(w) PROVE AnswerOK(v)'
  BY <1>3, AnswerOthers, AnswerOwn
<1> QED
  BY <1>1, <1>2, <1>3 DEF Next, WriterStep

(***************************************************************************)
(* The bytes of an operation in the worktree.                              *)
(***************************************************************************)
\* The paths the rollback of w has still to deal with.
Left(w) == {Files[w][i] : i \in (cursor[w] + 1)..written[w]}
\* No snapshot that may still be put back has a byte of w.
Untouched(w) ==
  \A p \in Path, v \in Writer :
    pc[v] \in Prepared => snapshot[v].files[p] \notin Ours(w)
\* No path has a byte of w.
Bare(w) == \A p \in Path : worktree[p] \notin Ours(w)

\* The bytes of an operation are at paths its rollback has still to deal with;
\* after a failure that is told they are nowhere.
BytesOK(w) ==
  /\ pc[w] \in {"idle", "planned", "checks", "pin", "resolve", "snapshot"} => written[w] = 0
  /\ cursor[w] > 0 => pc[w] \in {"restore", "remove", "putback", "release", "done", "dead"}
  /\ pc[w] \notin {"done", "dead"} =>
       Untouched(w) /\ \A p \in Path : worktree[p] \in Ours(w) => p \in Left(w)
  /\ (pc[w] \in {"release", "done"} /\ outcome[w] = "failed" /\ ~Published(w)) =>
       Untouched(w) /\ Bare(w)
  /\ (pc[w] \in {"publish", "refresh"} \/ (pc[w] = "release" /\ outcome[w] = "ok")) => Published(w)
  /\ outcome[w] # "none" => pc[w] \in {"release", "done", "dead"}

\* A step of w puts its own bytes into the worktree, or none, or what its snapshot
\* has; and its snapshot is what is there when it is taken.
LEMMA BytesStep ==
  ASSUME TransactionConstants, Typed, NEW w \in Writer, WriterStep(w)
  PROVE  /\ \A p \in Path :
              \/ worktree'[p] = worktree[p] \/ worktree'[p] \in Ours(w) \cup {Absent}
              \/ pc[w] = "putback" /\ worktree'[p] = snapshot[w].files[p]
         /\ pc'[w] \in Prepared =>
              \/ pc[w] \in Prepared /\ snapshot'[w] = snapshot[w]
              \/ /\ pc[w] = "snapshot" /\ UNCHANGED worktree
                 /\ \A p \in Path : snapshot'[w].files[p] \in {worktree[p], Absent}
<1> USE DEF Typed, TypeOK, RepoTypeOK, Prepared, Pinned, Locked, At, Goto, End, Fail,
     RollbackFailed, Abandon,
            found, made, history, repoVars, Ours
<1>1. CASE Observe(w)
  BY <1>1 DEF Observe
<1>2. CASE AcquireLock(w)
  BY <1>2 DEF AcquireLock
<1>3. CASE LockFails(w)
  BY <1>3 DEF LockFails
<1>4. CASE CheckState(w)
  BY <1>4 DEF CheckState
<1>5. CASE PinHead(w)
  BY <1>5 DEF PinHead
<1>6. CASE ResolveTip(w)
  BY <1>6 DEF ResolveTip
<1>7. CASE EarlyFailure(w)
  BY <1>7 DEF EarlyFailure
<1>8. CASE CaptureSnapshot(w)
  BY <1>8 DEF CaptureSnapshot, PC
<1>9. CASE RecordFile(w)
  BY <1>9 DEF RecordFile
<1>10. CASE WriteFile(w)
  BY <1>10 DEF WriteFile
<1>11. CASE RecordFails(w)
  BY <1>11 DEF RecordFails
<1>12. CASE WriteFails(w)
  BY <1>12 DEF WriteFails
<1>13. CASE BuildFails(w)
  BY <1>13 DEF BuildFails
<1>14. CASE CasSucceeds(w)
  BY <1>14 DEF CasSucceeds
<1>15. CASE CasFails(w)
  BY <1>15 DEF CasFails
<1>16. CASE Classify(w)
  BY <1>16 DEF Classify
<1>17. CASE ClassifyFails(w)
  BY <1>17 DEF ClassifyFails
<1>18. CASE Publish(w)
  BY <1>18 DEF Publish
<1>19. CASE Refresh(w)
  BY <1>19 DEF Refresh
<1>20. CASE RefreshRaises(w)
  BY <1>20 DEF RefreshRaises
<1>21. CASE InspectTip(w)
  BY <1>21 DEF InspectTip
<1>22. CASE InspectFails(w)
  BY <1>22 DEF InspectFails
<1>23. CASE CheckIndex(w)
  BY <1>23 DEF CheckIndex
<1>24. CASE RestoreFile(w)
  BY <1>24 DEF RestoreFile
<1>25. CASE RemoveFile(w)
  BY <1>25 DEF RemoveFile
<1>26. CASE PutBackFile(w)
  BY <1>26 DEF PutBackFile
<1>27. CASE RestoreEnds(w)
  BY <1>27 DEF RestoreEnds
<1>28. CASE ReleaseLock(w)
  BY <1>28 DEF ReleaseLock
<1>29. CASE StrayChildSwaps(w)
  BY <1>29 DEF StrayChildSwaps
<1>30. CASE Crash(w)
  BY <1>30 DEF Crash
<1>31. CASE BuildCommit(w)
  BY <1>31 DEF BuildCommit
<1> QED
  BY <1>1, <1>2, <1>3, <1>4, <1>5, <1>6, <1>7, <1>8, <1>9, <1>10, <1>11, <1>12, <1>13,
       <1>14, <1>15, <1>16, <1>17, <1>18, <1>19, <1>20, <1>21, <1>22, <1>23, <1>24, <1>25,
       <1>26, <1>27, <1>28, <1>29, <1>30, <1>31 DEF WriterStep, Step

\* The bytes of two operations differ, and neither is an absent or a foreign file.
LEMMA OursApart ==
  ASSUME NEW v \in Writer, NEW w \in Writer, v # w
  PROVE  Ours(v) \cap Ours(w) = {} /\ Absent \notin Ours(v) /\ Foreign \notin Ours(v)
BY DEF Ours, Part, Whole, Absent, Foreign

\* The bytes of an operation are neither an absent file nor a foreign one.
LEMMA OursThere ==
  ASSUME NEW v \in Writer
  PROVE  Absent \notin Ours(v) /\ Foreign \notin Ours(v)
BY DEF Ours, Part, Whole, Absent, Foreign

\* At the start no path holds a byte of an operation.
LEMMA BytesInit ==
  ASSUME Init, NEW w \in Writer
  PROVE  BytesOK(w)
<1>1. Bare(w)
  BY OursThere DEF Init, Bare, Nothing
<1>2. Untouched(w)
  BY DEF Init, Untouched, Prepared, Pinned, Locked
<1> QED
  BY <1>1, <1>2 DEF Init, BytesOK, Bare

\* The steps of others leave an operation's bytes alone.
LEMMA BytesOthers ==
  ASSUME TransactionConstants, Typed, History, NEW w \in Writer, WriterStep(w),
         NEW v \in Writer \ {w}, BytesOK(v)
  PROVE  BytesOK(v)'
<1>1. \A u \in Writer \ {w} : Kept(u)
  BY OthersKept
<1>2. Published(v)' <=> Published(v)
  BY <1>1, PublishedMoves DEF Kept
<1>3. Left(v)' = Left(v)
  BY <1>1 DEF Left, Kept
<1>4. pc[w] \in Locked => pc[v] \notin Locked
  BY DEF Typed, LockOK
<1>5. ASSUME Untouched(v), NEW p \in Path, worktree'[p] \in Ours(v)
      PROVE  worktree[p] \in Ours(v)
  <2>1. worktree'[p] \notin Ours(w) \cup {Absent}
    BY <1>5, OursApart
  <2>2. pc[w] = "putback" => snapshot[w].files[p] \notin Ours(v)
    BY <1>5 DEF Untouched, Prepared, Pinned, Locked, PC
  <2> QED
    BY <1>5, <2>1, <2>2, BytesStep
<1>6. ASSUME Untouched(v), pc[w] = "snapshot" => Bare(v)
      PROVE  Untouched(v)'
  <2> SUFFICES ASSUME NEW p \in Path, NEW u \in Writer, pc'[u] \in Prepared
               PROVE  snapshot'[u].files[p] \notin Ours(v)
    BY DEF Untouched, Ours, Part, Whole
  <2>1. CASE u # w
    BY <1>1, <1>6, <2>1 DEF Kept, Untouched
  <2>2. CASE u = w
    BY <1>6, <2>2, BytesStep, OursThere DEF Untouched, Bare
  <2> QED
    BY <2>1, <2>2
<1>7. pc[v] \notin {"done", "dead"} => (pc[w] = "snapshot" => Bare(v))
  <2> SUFFICES ASSUME pc[v] \notin {"done", "dead"}, pc[w] = "snapshot"
               PROVE  Bare(v)
    OBVIOUS
  <2>1. pc[v] \in {"idle", "planned"}
    BY <1>4 DEF Typed, TypeOK, Locked, PC
  <2>2. written[v] = 0 /\ cursor[v] \in Nat
    BY <2>1 DEF BytesOK, Typed, TypeOK
  <2>3. Left(v) = {}
    BY <2>2 DEF Left
  <2> QED
    BY <2>3 DEF BytesOK, Bare
<1>8. pc'[v] \notin {"done", "dead"} =>
        Untouched(v)' /\ \A p \in Path : worktree'[p] \in Ours(v) => p \in Left(v)'
  BY <1>1, <1>3, <1>5, <1>6, <1>7 DEF Kept, BytesOK
<1>9. (pc'[v] \in {"release", "done"} /\ outcome'[v] = "failed" /\ ~Published(v)') =>
        Untouched(v)' /\ \A p \in Path : worktree'[p] \notin Ours(v)
  BY <1>1, <1>2, <1>5, <1>6 DEF Kept, BytesOK, Bare
<1> QED
  BY <1>1, <1>2, <1>8, <1>9 DEF Kept, BytesOK, Bare, Ours, Part, Whole

\* Own steps: no snapshot that may be put back gets a byte of the operation.
LEMMA UntouchedOwn ==
  ASSUME TransactionConstants, Typed, NEW w \in Writer, WriterStep(w), BytesOK(w), Untouched(w)
  PROVE  Untouched(w)'
<1> SUFFICES ASSUME NEW p \in Path, NEW u \in Writer, pc'[u] \in Prepared
             PROVE  snapshot'[u].files[p] \notin Ours(w)
  BY DEF Untouched, Ours, Part, Whole
<1>1. CASE u # w
  BY <1>1, OthersKept DEF Kept, Untouched
<1>2. CASE u = w
  <2>1. CASE pc[w] \in Prepared /\ snapshot'[w] = snapshot[w]
    BY <1>2, <2>1 DEF Untouched
  <2>2. CASE pc[w] = "snapshot" /\ snapshot'[w].files[p] \in {worktree[p], Absent}
    <3>1. written[w] = 0 /\ cursor[w] \in Nat
      BY <2>2 DEF BytesOK, Typed, TypeOK
    <3>2. Left(w) = {}
      BY <3>1 DEF Left
    <3> QED
      BY <1>2, <2>2, <3>2, OursThere DEF BytesOK
  <2> QED
    BY <1>2, <2>1, <2>2, BytesStep
<1> QED
  BY <1>1, <1>2

\* The files of the rollback: those before the cursor have none of the bytes.
LEMMA LeftOwn ==
  ASSUME TransactionConstants, Typed, NEW w \in Writer, WriterStep(w), BytesOK(w), Untouched(w),
         \A p \in Path : worktree[p] \in Ours(w) => p \in Left(w)
  PROVE  \A p \in Path : worktree'[p] \in Ours(w) => p \in Left(w)'
<1> USE DEF Typed, TypeOK, RepoTypeOK, At
<1>1. CASE UNCHANGED <<worktree, written, cursor>>
  BY <1>1 DEF Left
<1>2. CASE RecordFile(w)
  <2>1. UNCHANGED <<worktree, cursor>> /\ written'[w] = written[w] + 1
    BY <1>2 DEF RecordFile, repoVars
  <2> QED
    BY <2>1 DEF Left
<1>3. CASE WriteFile(w) \/ WriteFails(w)
  <2>1. /\ UNCHANGED <<written, cursor>> /\ written[w] # 0 /\ cursor[w] = 0
        /\ \A p \in Path \ {LastPath(w)} : worktree'[p] = worktree[p]
    BY <1>3 DEF WriteFile, WriteFails, StageOK, BytesOK, made
  <2>2. LastPath(w) \in Left(w)
    BY <2>1 DEF Left, LastPath
  <2> QED
    BY <2>1, <2>2 DEF Left
<1>4. CASE RestoreFile(w) \/ RemoveFile(w) \/ PutBackFile(w)
  <2>1. CASE UNCHANGED <<worktree, cursor>>
    BY <1>4, <2>1 DEF Left, RestoreFile, RemoveFile, PutBackFile, made
  <2>2. CASE ~UNCHANGED <<worktree, cursor>>
    <3>1. /\ UNCHANGED written /\ cursor'[w] = cursor[w] + 1
          /\ \A p \in Path \ {RestorePath(w)} : worktree'[p] = worktree[p]
          /\ worktree'[RestorePath(w)] \in {Absent, snapshot[w].files[RestorePath(w)]}
          /\ pc[w] \in Prepared /\ cursor[w] < written[w]
      <4>1. RestorePath(w) \in Path
        BY <1>4, PathsTyped DEF RestorePath, RestoreFile, RemoveFile, PutBackFile, StageOK,
             TransactionConstants
      <4>2. CASE RestoreFile(w)
        BY <2>2, <4>2 DEF RestoreFile, NextFile, made, repoVars, Prepared, Pinned, Locked,
             PC, RollbackFailed
      <4>3. CASE RemoveFile(w)
        BY <2>2, <4>1, <4>3 DEF RemoveFile, NextFile, made, StageOK, Prepared, Pinned,
             Locked, PC
      <4>4. CASE PutBackFile(w)
        BY <2>2, <4>1, <4>4 DEF PutBackFile, NextFile, made, StageOK, Prepared, Pinned,
             Locked, PC
      <4> QED
        BY <1>4, <4>2, <4>3, <4>4
    <3>2. RestorePath(w) \in Path
      BY <3>1, PathsTyped DEF RestorePath, TransactionConstants
    <3>3. worktree'[RestorePath(w)] \notin Ours(w)
      BY <3>1, <3>2, OursThere DEF Untouched
    <3>4. Left(w) \subseteq Left(w)' \cup {RestorePath(w)}
      BY <3>1 DEF Left, RestorePath
    <3> QED
      BY <3>1, <3>3, <3>4
  <2> QED
    BY <2>1, <2>2
<1>5. UNCHANGED <<worktree, written, cursor>> \/ RecordFile(w) \/ WriteFile(w) \/ WriteFails(w)
       \/ RestoreFile(w) \/ RemoveFile(w) \/ PutBackFile(w)
  BY DEF WriterStep, Step, Abandon, made, repoVars, Observe, AcquireLock, LockFails,
       CheckState, PinHead,
         ResolveTip, EarlyFailure, CaptureSnapshot, RecordFails, BuildFails, CasSucceeds, CasFails, Classify,
         ClassifyFails, Publish, Refresh, RefreshRaises, InspectTip, InspectFails, CheckIndex, RestoreEnds,
         ReleaseLock, StrayChildSwaps, Crash, BuildCommit
<1> QED
  BY <1>1, <1>2, <1>3, <1>4, <1>5

\* The control part: when the caller is told of a failure, or of a result.
LEMMA ToldOwn ==
  ASSUME TransactionConstants, Typed, History, NEW w \in Writer, WriterStep(w), BytesOK(w)
  PROVE  /\ pc'[w] \in {"idle", "planned", "checks", "pin", "resolve", "snapshot"} => written'[w] = 0
         /\ cursor'[w] > 0 => pc'[w] \in {"restore", "remove", "putback", "release", "done", "dead"}
         /\ pc[w] \in {"done", "dead"} => pc'[w] = pc[w] \/ pc'[w] = "dead"
         /\ (pc'[w] \in {"release", "done"} /\ outcome'[w] = "failed" /\ ~Published(w)') =>
              \/ pc[w] \in {"release", "done"} /\ outcome[w] = "failed" /\ ~Published(w) /\ UNCHANGED worktree
              \/ pc[w] \notin {"done", "dead"} /\ Left(w)' = {}
         /\ (pc'[w] \in {"publish", "refresh"} \/ (pc'[w] = "release" /\ outcome'[w] = "ok")) => Published(w)'
         /\ outcome'[w] # "none" => pc'[w] \in {"release", "done", "dead"}
<1> USE DEF Typed, TypeOK, BytesOK, At, Goto, End, Fail, RollbackFailed, Abandon, Told,
     Failure, NextFile,
            found, made, history, repoVars
<1>unbuilt. newCommit[w] = 0 => ~Published(w)
  BY DEF Published
<1>kept. newCommit'[w] = newCommit[w] =>
           /\ Published(w) => Published(w)'
           /\ tip' = tip => (Published(w)' <=> Published(w))
  BY PublishedMoves, PublishedKept
<1>after. newCommit[w] # 0 => pc[w] \in After
  BY DEF History, BuiltOK
<1>drained. written'[w] <= cursor'[w] /\ written'[w] \in Nat /\ cursor'[w] \in Nat => Left(w)' = {}
  BY DEF Left
<1>1. CASE Observe(w)
  BY <1>1, <1>unbuilt, <1>kept, <1>after, <1>drained DEF Observe, After
<1>2. CASE AcquireLock(w)
  BY <1>2, <1>unbuilt, <1>kept, <1>after, <1>drained DEF AcquireLock, After
<1>3. CASE LockFails(w)
  BY <1>3, <1>unbuilt, <1>kept, <1>after, <1>drained DEF LockFails, After
<1>4. CASE CheckState(w)
  BY <1>4, <1>unbuilt, <1>kept, <1>after, <1>drained DEF CheckState, After
<1>5. CASE PinHead(w)
  BY <1>5, <1>unbuilt, <1>kept, <1>after, <1>drained DEF PinHead, After
<1>6. CASE ResolveTip(w)
  BY <1>6, <1>unbuilt, <1>kept, <1>after, <1>drained DEF ResolveTip, After
<1>7. CASE EarlyFailure(w)
  BY <1>7, <1>unbuilt, <1>kept, <1>after, <1>drained DEF EarlyFailure, After
<1>8. CASE CaptureSnapshot(w)
  BY <1>8, <1>unbuilt, <1>kept, <1>after, <1>drained DEF CaptureSnapshot, After
<1>9. CASE RecordFile(w)
  BY <1>9, <1>unbuilt, <1>kept, <1>after, <1>drained DEF RecordFile, After
<1>10. CASE WriteFile(w)
  BY <1>10, <1>unbuilt, <1>kept, <1>after, <1>drained DEF WriteFile, After
<1>11. CASE RecordFails(w)
  BY <1>11, <1>unbuilt, <1>kept, <1>after, <1>drained DEF RecordFails, After
<1>12. CASE WriteFails(w)
  BY <1>12, <1>unbuilt, <1>kept, <1>after, <1>drained DEF WriteFails, After
<1>13. CASE BuildFails(w)
  BY <1>13, <1>unbuilt, <1>kept, <1>after, <1>drained DEF BuildFails, After
<1>14. CASE CasSucceeds(w)
  <2>1. newCommit[w] # 0 /\ Swap(w) /\ commits' = commits /\ newCommit' = newCommit
    BY <1>14 DEF CasSucceeds, StageOK, Built
  <2>2. Published(w)'
    BY <2>1, SwapPublishes
  <2> QED
    BY <1>14, <2>2 DEF CasSucceeds
<1>15. CASE CasFails(w)
  BY <1>15, <1>unbuilt, <1>kept, <1>after, <1>drained DEF CasFails, After
<1>16. CASE Classify(w)
  <2>1. newCommit[w] # 0 /\ pc[w] = "classify" /\ UNCHANGED <<repoVars, newCommit, failure, cursor, written>>
    BY <1>16 DEF Classify, StageOK, Built
  <2>2. CASE pc' = [pc EXCEPT ![w] = "publish"] /\ UNCHANGED outcome /\ tip[target[w]] = newCommit[w]
    BY <1>kept, <2>1, <2>2, TipTells
  <2>3. CASE pc' = [pc EXCEPT ![w] = "inspect"] /\ UNCHANGED outcome
    BY <1>kept, <2>1, <2>3
  <2>4. CASE End(w, IF failure[w] = "async" THEN "cancelled" ELSE "unclassified")
    BY <1>kept, <2>1, <2>4
  <2> QED
    BY <1>16, <2>2, <2>3, <2>4 DEF Classify
<1>17. CASE ClassifyFails(w)
  BY <1>17, <1>unbuilt, <1>kept, <1>after, <1>drained DEF ClassifyFails, After
<1>18. CASE Publish(w)
  BY <1>18, <1>unbuilt, <1>kept, <1>after, <1>drained DEF Publish, After
<1>19. CASE Refresh(w)
  BY <1>19, <1>unbuilt, <1>kept, <1>after, <1>drained DEF Refresh, After
<1>20. CASE RefreshRaises(w)
  BY <1>20, <1>unbuilt, <1>kept, <1>after, <1>drained DEF RefreshRaises, After
<1>21. CASE InspectTip(w)
  <2>1. pc[w] = "inspect" /\ UNCHANGED <<repoVars, newCommit, failure, cursor, written>>
    BY <1>21 DEF InspectTip
  <2>2. CASE newCommit[w] # 0 /\ tip[target[w]] = newCommit[w] /\ End(w, Told(failure[w]))
    BY <1>kept, <2>1, <2>2, TipTells
  <2>3. CASE pc' = [pc EXCEPT ![w] = "index"] /\ UNCHANGED outcome
    BY <1>kept, <2>1, <2>3
  <2>4. CASE RollbackFailed(w)
    BY <1>kept, <2>1, <2>4
  <2> QED
    BY <1>21, <2>2, <2>3, <2>4 DEF InspectTip
<1>22. CASE InspectFails(w)
  BY <1>22, <1>unbuilt, <1>kept, <1>after, <1>drained DEF InspectFails, After
<1>23. CASE CheckIndex(w)
  BY <1>23, <1>unbuilt, <1>kept, <1>after, <1>drained DEF CheckIndex, After
<1>24. CASE RestoreFile(w)
  BY <1>24, <1>unbuilt, <1>kept, <1>after, <1>drained DEF RestoreFile, After
<1>25. CASE RemoveFile(w)
  BY <1>25, <1>unbuilt, <1>kept, <1>after, <1>drained DEF RemoveFile, After
<1>26. CASE PutBackFile(w)
  BY <1>26, <1>unbuilt, <1>kept, <1>after, <1>drained DEF PutBackFile, After
<1>27. CASE RestoreEnds(w)
  BY <1>27, <1>unbuilt, <1>kept, <1>after, <1>drained DEF RestoreEnds, After
<1>28. CASE ReleaseLock(w)
  BY <1>28, <1>unbuilt, <1>kept, <1>after, <1>drained DEF ReleaseLock, After
<1>29. CASE StrayChildSwaps(w)
  BY <1>29, <1>unbuilt, <1>kept, <1>after, <1>drained DEF StrayChildSwaps, After
<1>30. CASE Crash(w)
  BY <1>30, <1>unbuilt, <1>kept, <1>after, <1>drained DEF Crash, After
<1>31. CASE BuildCommit(w)
  BY <1>31, <1>unbuilt, <1>kept, <1>after, <1>drained DEF BuildCommit, After
<1> QED
  BY <1>1, <1>2, <1>3, <1>4, <1>5, <1>6, <1>7, <1>8, <1>9, <1>10, <1>11, <1>12, <1>13,
       <1>14, <1>15, <1>16, <1>17, <1>18, <1>19, <1>20, <1>21, <1>22, <1>23, <1>24, <1>25,
       <1>26, <1>27, <1>28, <1>29, <1>30, <1>31 DEF WriterStep, Step

\* The operation's own steps keep the account of its bytes.
LEMMA BytesOwn ==
  ASSUME TransactionConstants, Typed, History, NEW w \in Writer, WriterStep(w), BytesOK(w)
  PROVE  BytesOK(w)'
<1>1. pc[w] \notin {"done", "dead"} =>
        Untouched(w)' /\ \A p \in Path : worktree'[p] \in Ours(w) => p \in Left(w)'
  BY UntouchedOwn, LeftOwn DEF BytesOK
<1>2. ASSUME pc[w] \in {"release", "done"}, outcome[w] = "failed", ~Published(w), UNCHANGED worktree
      PROVE  Untouched(w)' /\ \A p \in Path : worktree'[p] \notin Ours(w)
  BY <1>2, UntouchedOwn DEF BytesOK, Bare
<1>3. (pc'[w] \in {"release", "done"} /\ outcome'[w] = "failed" /\ ~Published(w)') =>
        Untouched(w)' /\ \A p \in Path : worktree'[p] \notin Ours(w)
  BY <1>1, <1>2, ToldOwn
<1> QED
  BY <1>1, <1>3, ToldOwn DEF BytesOK, Bare, Ours, Part, Whole

\* Every step keeps the account of the operations' bytes.
LEMMA BytesNext ==
  ASSUME TransactionConstants, Typed, History, [Next]_vars, \A v \in Writer : BytesOK(v)
  PROVE  \A v \in Writer : BytesOK(v)'
<1> SUFFICES ASSUME NEW v \in Writer PROVE BytesOK(v)'
  OBVIOUS
<1>1. CASE UNCHANGED vars
  BY <1>1 DEF BytesOK, Untouched, Bare, Left, Ours, Part, Whole, Published, Reachable,
       OnBranch, PastOf,
              vars, repoVars, txnVars, found, made, history
<1>2. CASE OutsideStep
  <2>1. UNCHANGED <<snapshot, pc, outcome, cursor, written>>
    BY <1>2 DEF OutsideStep, txnVars, found, made, history
  <2>2. \A p \in Path : worktree'[p] = worktree[p] \/ worktree'[p] \in {Absent, Foreign}
    BY <1>2 DEF OutsideStep, Outside, ExternalCommit, SwitchHead, Edit, Stage, Typed,
         TypeOK, RepoTypeOK
  <2>3. Untouched(v)' <=> Untouched(v)
    BY <2>1 DEF Untouched, Ours, Part, Whole
  <2>4. \A p \in Path : worktree'[p] \in Ours(v) => worktree[p] \in Ours(v)
    BY <2>2, OursThere
  <2>5. Left(v)' = Left(v)
    BY <2>1 DEF Left
  <2>6. Bare(v) => \A p \in Path : worktree'[p] \notin Ours(v)
    BY <2>4 DEF Bare
  <2> QED
    BY <1>2, <2>1, <2>3, <2>4, <2>5, <2>6, OutsidePublishes DEF BytesOK, Bare, Ours, Part, Whole
<1>3. ASSUME NEW w \in Writer, WriterStep(w) PROVE BytesOK(v)'
  BY <1>3, BytesOthers, BytesOwn
<1> QED
  BY <1>1, <1>2, <1>3 DEF Next, WriterStep

\* The two accounts, of the branch and of the bytes, are what the answer says.
LEMMA AnswerFollows ==
  ASSUME \A v \in Writer \ Outliving : AnswerOK(v),
         \A v \in Writer : BytesOK(v)
  PROVE  AnswerIsTrue
<1>1. AnswerMatchesBranch
  BY DEF AnswerOK, AnswerMatchesBranch
<1>2. RollbackOnlyIfUnpublished
  BY DEF AnswerOK, RollbackOnlyIfUnpublished
<1>3. FailureLeavesNothing
  BY DEF BytesOK, Bare, FailureLeavesNothing, At
<1> QED
  BY <1>1, <1>2, <1>3 DEF AnswerIsTrue

\* The answer is true of the branch and of the worktree, for any number of
\* operations side by side: what an operation is told about the branch as long as
\* its own git child does not outlive it, whatever children the others leave.
THEOREM AnswersAreTrue ==
  ASSUME TransactionConstants
  PROVE  Spec => []AnswerIsTrue
<1> DEFINE Answers == \A v \in Writer \ Outliving : AnswerOK(v)
           IInv == Typed /\ History /\ Answers /\ \A v \in Writer : BytesOK(v)
<1>1. Init => IInv
  BY TypedInit, HistoryInit, AnswerInit, BytesInit
<1>2. IInv /\ [Next]_vars => IInv'
  BY TypedNext, HistoryNext, AnswerNext, BytesNext
<1>3. IInv => AnswerIsTrue
  BY AnswerFollows
<1> HIDE DEF IInv
<1> QED
  BY <1>1, <1>2, <1>3, PTL DEF Spec

(***************************************************************************)
(* The order of publications.                                              *)
(***************************************************************************)
\* A commit is unpublished, to the publisher's knowledge, from its making to the
\* announcement.
Unannounced == {"cas", "classify", "publish"}
\* The fourth layer: what is still unannounced is in the history of nothing that
\* was announced.
OrderOK ==
  /\ \A i \in DOMAIN publications : publications[i] <= Len(commits)
  /\ \A w \in Writer : pc[w] \in Unannounced =>
       \A i \in DOMAIN publications : newCommit[w] \notin PastOf(publications[i])
  /\ PublicationInOrder

\* At the start nothing is announced.
LEMMA OrderInit ==
  ASSUME Init
  PROVE  OrderOK
BY DEF Init, OrderOK, Unannounced, PublicationInOrder

\* The object store only grows: the history of a commit stays as it is.
LEMMA PastsStay ==
  ASSUME TransactionConstants, Typed, History, [Next]_vars
  PROVE  /\ \A c \in 0..Len(commits) : PastOf(c)' = PastOf(c)
         /\ Len(commits) <= Len(commits')
<1>1. CASE UNCHANGED vars
  BY <1>1 DEF Typed, TypeOK, RepoTypeOK, PastOf, vars, repoVars
<1>2. CASE OutsideStep
  <2>1. UNCHANGED commits \/ \E p \in 0..Len(commits), f \in [Path -> Content] : CommitTree(p, f)
    BY <1>2, FilesTyped DEF OutsideStep, Outside, ExternalCommit, SwitchHead, Edit, Stage,
         Typed, TypeOK, RepoTypeOK
  <2>2. Len(commits) <= Len(commits')
    <3>1. CASE UNCHANGED commits
      BY <3>1 DEF Typed, TypeOK, RepoTypeOK
    <3>2. ASSUME NEW p \in 0..Len(commits), NEW f \in [Path -> Content], CommitTree(p, f)
          PROVE  Len(commits) <= Len(commits')
      <4>1. Len(commits') = NewOid /\ NewOid = Len(commits) + 1 /\ Len(commits) \in Nat
        BY <3>2, NewObject DEF History, Typed, TypeOK
      <4> QED
        BY <4>1
    <3> QED
      BY <2>1, <3>1, <3>2
  <2> QED
    BY <1>2, <2>2, OutsideGrows
<1>3. ASSUME NEW w \in Writer, BuildCommit(w)
      PROVE  (\A c \in 0..Len(commits) : PastOf(c)' = PastOf(c)) /\ Len(commits) <= Len(commits')
  BY <1>3, CommitBuilt
<1>4. ASSUME NEW w \in Writer, WriterStep(w), ~BuildCommit(w)
      PROVE  (\A c \in 0..Len(commits) : PastOf(c)' = PastOf(c)) /\ Len(commits) <= Len(commits')
  <2>1. commits' = commits
    BY <1>4, OwnPlan
  <2> QED
    BY <2>1 DEF PastOf, Typed, TypeOK, RepoTypeOK
<1> QED
  BY <1>1, <1>2, <1>3, <1>4 DEF Next, WriterStep

\* Only a new commit enters these stages, and only Publish announces one.
LEMMA Announcing ==
  ASSUME Typed, NEW w \in Writer, WriterStep(w), ~BuildCommit(w), ~Publish(w)
  PROVE  publications' = publications /\ (pc'[w] \in Unannounced => pc[w] \in Unannounced)
<1> USE DEF Typed, TypeOK, Unannounced, At, Goto, End, Fail, RollbackFailed, Abandon, history
<1>1. CASE Observe(w)
  BY <1>1 DEF Observe
<1>2. CASE AcquireLock(w)
  BY <1>2 DEF AcquireLock
<1>3. CASE LockFails(w)
  BY <1>3 DEF LockFails
<1>4. CASE CheckState(w)
  BY <1>4 DEF CheckState
<1>5. CASE PinHead(w)
  BY <1>5 DEF PinHead
<1>6. CASE ResolveTip(w)
  BY <1>6 DEF ResolveTip
<1>7. CASE EarlyFailure(w)
  BY <1>7 DEF EarlyFailure
<1>8. CASE CaptureSnapshot(w)
  BY <1>8 DEF CaptureSnapshot
<1>9. CASE RecordFile(w)
  BY <1>9 DEF RecordFile
<1>10. CASE WriteFile(w)
  BY <1>10 DEF WriteFile
<1>11. CASE RecordFails(w)
  BY <1>11 DEF RecordFails
<1>12. CASE WriteFails(w)
  BY <1>12 DEF WriteFails
<1>13. CASE BuildFails(w)
  BY <1>13 DEF BuildFails
<1>14. CASE CasSucceeds(w)
  BY <1>14 DEF CasSucceeds
<1>15. CASE CasFails(w)
  BY <1>15 DEF CasFails
<1>16. CASE Classify(w)
  BY <1>16 DEF Classify
<1>17. CASE ClassifyFails(w)
  BY <1>17 DEF ClassifyFails
<1>18. CASE Refresh(w)
  BY <1>18 DEF Refresh
<1>19. CASE RefreshRaises(w)
  BY <1>19 DEF RefreshRaises
<1>20. CASE InspectTip(w)
  BY <1>20 DEF InspectTip
<1>21. CASE InspectFails(w)
  BY <1>21 DEF InspectFails
<1>22. CASE CheckIndex(w)
  BY <1>22 DEF CheckIndex
<1>23. CASE RestoreFile(w)
  BY <1>23 DEF RestoreFile
<1>24. CASE RemoveFile(w)
  BY <1>24 DEF RemoveFile
<1>25. CASE PutBackFile(w)
  BY <1>25 DEF PutBackFile
<1>26. CASE RestoreEnds(w)
  BY <1>26 DEF RestoreEnds
<1>27. CASE ReleaseLock(w)
  BY <1>27 DEF ReleaseLock
<1>28. CASE StrayChildSwaps(w)
  BY <1>28 DEF StrayChildSwaps
<1>29. CASE Crash(w)
  BY <1>29 DEF Crash
<1> QED
  BY <1>1, <1>2, <1>3, <1>4, <1>5, <1>6, <1>7, <1>8, <1>9, <1>10, <1>11, <1>12, <1>13,
       <1>14, <1>15, <1>16, <1>17, <1>18, <1>19, <1>20, <1>21, <1>22, <1>23, <1>24, <1>25,
       <1>26, <1>27, <1>28, <1>29 DEF WriterStep, Step

\* While one writer is between its commit and the announcement, nobody announces.
LEMMA OrderNext ==
  ASSUME TransactionConstants, Typed, History, [Next]_vars, OrderOK
  PROVE  OrderOK'
<1> DEFINE Keeps == /\ publications' = publications
                    /\ \A v \in Writer : pc'[v] \in Unannounced =>
                         \/ pc[v] \in Unannounced /\ newCommit'[v] = newCommit[v]
                         \/ newCommit'[v] > Len(commits)
<1>1. /\ Len(commits) \in Nat /\ Len(commits) <= Len(commits') /\ Len(commits') \in Nat
      /\ publications \in Seq(1..MaxCommit) /\ MaxCommit \in Nat
  <2>1. Len(commits) <= Len(commits') /\ Typed'
    BY PastsStay, TypedNext
  <2>2. commits \in Seq(Commit) /\ commits' \in Seq(Commit) /\ publications \in Seq(1..MaxCommit)
    BY <2>1 DEF Typed, TypeOK, RepoTypeOK
  <2> QED
    BY <2>1, <2>2 DEF TransactionConstants, RepoConstants
<1>2. \A c \in 0..Len(commits) : PastOf(c)' = PastOf(c) /\ PastOf(c) \subseteq 1..c
  BY PastsStay DEF History, CommitsOK, PastOf
<1>3. \A i \in DOMAIN publications : publications[i] \in 1..Len(commits)
  <2> SUFFICES ASSUME NEW i \in DOMAIN publications PROVE publications[i] \in 1..Len(commits)
    OBVIOUS
  <2>1. publications[i] \in 1..MaxCommit
    BY <1>1
  <2>2. publications[i] <= Len(commits)
    BY DEF OrderOK
  <2> QED
    BY <1>1, <2>1, <2>2
<1>4. ASSUME Keeps PROVE OrderOK'
  <2>1. \A i \in DOMAIN publications : PastOf(publications[i])' = PastOf(publications[i])
    BY <1>2, <1>3, <1>4 DEF PastOf
  <2>2. PublicationInOrder'
    BY <1>4, <2>1 DEF OrderOK, PublicationInOrder
  <2>3. ASSUME NEW v \in Writer, pc'[v] \in Unannounced, NEW i \in DOMAIN publications
        PROVE  newCommit'[v] \notin PastOf(publications[i])
    <3>1. PastOf(publications[i]) \subseteq 1..publications[i] /\ publications[i] \in 1..Len(commits)
      BY <1>2, <1>3
    <3> QED
      BY <1>1, <1>4, <2>3, <3>1 DEF OrderOK
  <2>4. \A i \in DOMAIN publications : publications[i] <= Len(commits')
    BY <1>1, <1>3
  <2> QED
    BY <1>4, <2>1, <2>2, <2>3, <2>4 DEF OrderOK
<1>5. CASE UNCHANGED vars
  BY <1>4, <1>5 DEF vars, txnVars, made, history
<1>6. CASE OutsideStep
  BY <1>4, <1>6 DEF OutsideStep, txnVars, made, history
<1>7. ASSUME NEW w \in Writer, BuildCommit(w) PROVE OrderOK'
  <2>1. publications' = publications /\ newCommit'[w] = NewOid /\ NewOid = Len(commits) + 1
    BY <1>7, CommitBuilt DEF BuildCommit, history, Typed, TypeOK
  <2>2. \A v \in Writer \ {w} : Kept(v)
    BY <1>7, OthersKept DEF WriterStep, Step
  <2> QED
    BY <1>1, <1>4, <2>1, <2>2 DEF Kept
<1>8. ASSUME NEW w \in Writer, WriterStep(w), ~BuildCommit(w), ~Publish(w) PROVE OrderOK'
  <2>1. publications' = publications /\ (pc'[w] \in Unannounced => pc[w] \in Unannounced) /\ newCommit' = newCommit
    BY <1>8, Announcing, OwnPlan
  <2>2. \A v \in Writer \ {w} : Kept(v)
    BY <1>8, OthersKept
  <2> QED
    BY <1>4, <2>1, <2>2 DEF Kept
<1>9. ASSUME NEW w \in Writer, Publish(w) PROVE OrderOK'
  <2>1. /\ pc[w] = "publish" /\ pc' = [pc EXCEPT ![w] = "refresh"]
        /\ publications' = Append(publications, newCommit[w])
        /\ UNCHANGED <<newCommit, commits>>
    BY <1>9 DEF Publish, At, Goto, made, repoVars
  <2>2. newCommit[w] \in 1..Len(commits) /\ \A i \in DOMAIN publications : newCommit[w] \notin PastOf(publications[i])
    BY <2>1 DEF Typed, TypeOK, StageOK, Built, OrderOK, Unannounced
  <2>3. \A v \in Writer : pc'[v] \notin Unannounced
    <3>1. \A v \in Writer \ {w} : pc[v] \notin Locked
      BY <2>1 DEF Typed, LockOK, Locked, PC
    <3>2. Unannounced \subseteq Locked
      BY DEF Unannounced, Locked, PC
    <3> QED
      BY <2>1, <3>1, <3>2 DEF Typed, TypeOK, Unannounced
  <2>4. /\ DOMAIN publications' = 1..(Len(publications) + 1) /\ DOMAIN publications = 1..Len(publications)
        /\ Len(publications) \in Nat
        /\ \A i \in DOMAIN publications' :
             publications'[i] = IF i \in DOMAIN publications THEN publications[i] ELSE newCommit[w]
    BY <1>1, <2>1, <2>2
  <2>5. \A i \in DOMAIN publications' : publications'[i] \in 1..Len(commits)
    BY <1>3, <2>2, <2>4
  <2>6. ASSUME NEW i \in DOMAIN publications', NEW j \in DOMAIN publications', i < j
        PROVE  publications'[j] \notin PastOf(publications'[i])
    <3>1. i \in DOMAIN publications /\ publications'[i] = publications[i]
      BY <2>4, <2>6
    <3>2. CASE j \in DOMAIN publications
      BY <2>4, <2>6, <3>1, <3>2 DEF OrderOK, PublicationInOrder
    <3>3. CASE j \notin DOMAIN publications
      BY <2>2, <2>4, <3>1, <3>3
    <3> QED
      BY <3>2, <3>3
  <2>7. PublicationInOrder'
    BY <2>1, <2>6 DEF PublicationInOrder, PastOf
  <2> QED
    BY <2>1, <2>3, <2>5, <2>7 DEF OrderOK
<1> QED
  BY <1>5, <1>6, <1>7, <1>8, <1>9 DEF Next, WriterStep

\* The index publisher hears of the commits of all operations in history order,
\* for any number of them, crashes, late git children and outside commits.
THEOREM AnnouncedInOrder ==
  ASSUME TransactionConstants
  PROVE  Spec => []PublicationInOrder
<1> DEFINE IInv == Typed /\ History /\ OrderOK
<1>1. Init => IInv
  BY TypedInit, HistoryInit, OrderInit
<1>2. IInv /\ [Next]_vars => IInv'
  BY TypedNext, HistoryNext, OrderNext
<1>3. IInv => PublicationInOrder
  BY DEF OrderOK
<1> HIDE DEF IInv
<1> QED
  BY <1>1, <1>2, <1>3, PTL DEF Spec
=============================================================================
