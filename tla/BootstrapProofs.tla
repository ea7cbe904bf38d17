---------------------------- MODULE BootstrapProofs ----------------------------
(***************************************************************************)
(* Proofs about the bootstrap commit (Bootstrap.tla), for any number of    *)
(* inits, files, branches and commits, and with every failure, crash and   *)
(* outside step the model has.  The inductive invariant is built in        *)
(* layers, each inductive over the ones before it:                         *)
(*   Typed       types, and what an init holds at each stage;              *)
(*   History     an init's commit sits on what it expected, is nobody      *)
(*               else's, and is on no branch but the one it read;          *)
(*   AnswerOK    what the stages and the answers say of the branch;        *)
(*   RestoredOK  what the rollback of an undisturbed init has put back.    *)
(***************************************************************************)
EXTENDS Bootstrap, TLAPS

\* The stages under the lock, and those before there is a commit.
Locked == {"resolve", "write", "branch", "build", "record", "cas", "refresh", "unlock"}
Unbuilt == {"idle", "backup", "lock", "resolve", "write", "branch", "build"}

\* What an init holds at the stage it is at.
StageOK(w) ==
  /\ w \in inside => pc[w] \in Locked
  /\ pc[w] \in {"idle", "backup", "dead"} \/ backup[w] \in [Path -> Content]
  /\ pc[w] \in Unbuilt => built[w] = 0
  /\ pc[w] \in {"record", "cas", "refresh"} => built[w] # 0
  /\ candidate[w] \in {0, built[w]}
  /\ pc[w] = "record" => candidate[w] = 0
  /\ pc[w] \in {"cas", "refresh"} => candidate[w] = built[w]
  /\ pc[w] = "build" \/ built[w] # 0 => branchRef[w] \in Branch
  /\ outcome[w] # "none" => pc[w] = "done"
  /\ pc[w] \notin {"rollback", "done", "dead"} => cursor[w] = 0

\* The first layer of the inductive invariant.
Typed ==
  /\ RepoTypeOK
  /\ pc \in [Writer -> PC]
  /\ expected \in [Writer -> 0..Len(commits)]
  /\ backup \in [Writer -> [Path -> Content] \cup {None}]
  /\ written \in [Writer -> 0..Len(Files)] /\ cursor \in [Writer -> 0..Len(Files)]
  /\ branchRef \in [Writer -> Branch \cup {None}]
  /\ candidate \in [Writer -> 0..MaxCommit]
  /\ built \in [Writer -> 0..Len(commits)]
  /\ failure \in [Writer -> {"none", "sync", "async"}]
  /\ outcome \in [Writer -> {"none", "ok", "failed", "cancelled", "unsafe", "conflict"}]
  /\ \A w \in Writer : StageOK(w)

\* A commit has itself and only earlier commits in its history.
CommitsOK ==
  \A c \in 1..Len(commits) : c \in commits[c].past /\ commits[c].past \subseteq 1..c

\* The commit of an init sits on what the init expected, and only on its branch.
BuiltOK(w) ==
  built[w] # 0 =>
    /\ commits[built[w]].parent = expected[w]
    /\ PastOf(built[w]) = PastOf(expected[w]) \cup {built[w]}
    /\ built[w] \notin PastOf(expected[w])
    /\ \A v \in Writer : built[v] = built[w] => v = w
    /\ \A b \in Branch : OnBranch(built[w], b) => b = branchRef[w]

\* The second layer.
History == CommitsOK /\ \A w \in Writer : BuiltOK(w)

\* The third layer: what is recorded, the stage and the answer say of the branch.
AnswerOK(w) ==
  /\ candidate[w] = 0 => ~Published(w)
  /\ (pc[w] = "refresh" \/ (pc[w] = "unlock" /\ failure[w] = "none") \/ outcome[w] = "ok")
       => Published(w)
  /\ (pc[w] = "rollback" \/ outcome[w] = "failed") => ~Published(w)

\* The fourth layer: the files the rollback has dealt with are as the backup has them.
RestoredOK(w) ==
  Alone(w) =>
    /\ pc[w] = "rollback" \/ outcome[w] = "failed" =>
         \A i \in 1..cursor[w] :
           Files[i] \in EditedPath \/ worktree[Files[i]] = backup[w][Files[i]]
    /\ outcome[w] = "failed" => cursor[w] = Len(Files)

\* The inductive invariant.
IInv ==
  /\ Typed /\ History
  /\ \A w \in Writer : AnswerOK(w) /\ RestoredOK(w)

\* The steps of one init.
StepOf(w) == PrepareInit(w) \/ Step(w) \/ Crash(w)

\* What a path can hold has a value for every writer, whole or cut short.
LEMMA Contents ==
  /\ Absent \in Content /\ Foreign \in Content
  /\ \A w \in Writer : Whole(w) \in Content /\ Part(w) \in Content
BY DEF Content, Absent, Foreign, Whole, Part

\* The files init generates are managed paths.
LEMMA PathsTyped ==
  /\ Len(Files) \in Nat /\ Owned \subseteq Path
  /\ \A i \in 1..Len(Files) : Files[i] \in Path
BY FilesAssumption DEF Owned

\* The files of any commit, or of none, are a content for every path.
LEMMA FilesTyped ==
  ASSUME RepoTypeOK, NEW c \in 0..Len(commits)
  PROVE  FilesOf(c) \in [Path -> Content]
<1>1. CASE c = 0
  BY <1>1, Contents DEF FilesOf, Nothing
<1>2. CASE c # 0
  <2>1. commits[c] \in Commit
    BY <1>2 DEF RepoTypeOK
  <2> QED
    BY <1>2, <2>1 DEF FilesOf, Commit
<1> QED
  BY <1>1, <1>2

\* A new object keeps the types, and all that there was.
LEMMA Appending ==
  ASSUME RepoTypeOK, NEW p \in 0..Len(commits), NEW f \in [Path -> Content], CommitTree(p, f)
  PROVE  /\ commits' \in Seq(Commit) /\ Len(commits') = NewOid
         /\ NewOid \in 1..MaxCommit /\ NewOid = Len(commits) + 1
         /\ commits'[NewOid] = [past |-> PastOf(p) \cup {NewOid}, parent |-> p, files |-> f]
         /\ \A c \in 1..Len(commits) : commits'[c] = commits[c]
<1> USE RepoAssumption DEF RepoTypeOK, RepoConstants
<1>1. NewOid \in 1..MaxCommit /\ NewOid = Len(commits) + 1
  BY DEF CommitTree, NewOid
<1>2. PastOf(p) \subseteq 1..MaxCommit
  <2>1. CASE p = 0
    BY <2>1 DEF PastOf
  <2>2. CASE p # 0
    <3>1. commits[p] \in Commit
      BY <2>2
    <3> QED
      BY <2>2, <3>1 DEF PastOf, Commit
  <2> QED
    BY <2>1, <2>2
<1>3. [past |-> PastOf(p) \cup {NewOid}, parent |-> p, files |-> f] \in Commit
  BY <1>1, <1>2 DEF Commit
<1> QED
  BY <1>1, <1>3 DEF CommitTree

\* A new object leaves the history of every other commit alone.
LEMMA NewObject ==
  ASSUME RepoTypeOK, CommitsOK, NEW p \in 0..Len(commits), NEW f \in [Path -> Content],
         CommitTree(p, f)
  PROVE  /\ CommitsOK'
         /\ \A c \in 0..Len(commits) : PastOf(c)' = PastOf(c) /\ PastOf(c) \subseteq 1..c
         /\ \A c \in 1..Len(commits) : commits'[c] = commits[c]
         /\ commits'[NewOid].past = PastOf(p) \cup {NewOid} /\ commits'[NewOid].parent = p
         /\ Len(commits') = NewOid /\ NewOid = Len(commits) + 1 /\ Len(commits) \in Nat
<1>1. /\ commits' \in Seq(Commit) /\ Len(commits') = NewOid
      /\ NewOid = Len(commits) + 1 /\ Len(commits) \in Nat
      /\ commits'[NewOid] = [past |-> PastOf(p) \cup {NewOid}, parent |-> p, files |-> f]
      /\ \A c \in 1..Len(commits) : commits'[c] = commits[c]
  BY Appending DEF RepoTypeOK
<1>2. commits'[NewOid].past = PastOf(p) \cup {NewOid} /\ commits'[NewOid].parent = p
  BY <1>1
<1>3. \A c \in 0..Len(commits) : PastOf(c)' = PastOf(c) /\ PastOf(c) \subseteq 1..c
  BY <1>1 DEF PastOf, CommitsOK
<1>4. ASSUME NEW c \in 1..Len(commits')
      PROVE  c \in commits'[c].past /\ commits'[c].past \subseteq 1..c
  <2>1. CASE c = NewOid
    BY <1>1, <1>2, <1>3, <2>1
  <2>2. CASE c # NewOid
    BY <1>1, <2>2 DEF CommitsOK
  <2> QED
    BY <2>1, <2>2
<1> QED
  BY <1>1, <1>2, <1>3, <1>4 DEF CommitsOK

(***************************************************************************)
(* Types and stages.                                                       *)
(***************************************************************************)

\* At the start there is at most one commit, and nobody has begun.
LEMMA TypedInit ==
  ASSUME Init
  PROVE  Typed
<1> USE RepoAssumption, PathsTyped DEF RepoConstants
<1>1. /\ Len(commits) \in {0, 1} /\ commits \in Seq(Commit)
      /\ Nothing \in [Path -> Content]
  <2>1. Nothing \in [Path -> Content]
    BY Contents DEF Nothing
  <2>2. [past |-> {1}, parent |-> 0, files |-> Nothing] \in Commit
    BY <2>1 DEF Commit
  <2> QED
    <3>1. CASE commits = <<>>
      BY <2>1, <3>1
    <3>2. CASE commits = <<[past |-> {1}, parent |-> 0, files |-> Nothing]>>
      BY <2>1, <2>2, <3>2
    <3> QED
      BY <3>1, <3>2 DEF Init
<1>2. RepoTypeOK
  <2>1. worktree \in [Path -> Content]
    BY Contents DEF Init
  <2>2. Len(commits) \in 0..MaxCommit /\ 1..Len(commits) \subseteq 1..MaxCommit
    <3>1. CASE Len(commits) = 0
      BY <3>1
    <3>2. CASE Len(commits) = 1
      BY <3>2
    <3> QED
      BY <1>1, <3>1, <3>2
  <2> QED
    BY <1>1, <2>1, <2>2 DEF Init, RepoTypeOK, Lock!Init
<1>3. \A w \in Writer : StageOK(w)
  BY DEF Init, StageOK, Lock!Init
<1> QED
  BY <1>1, <1>2, <1>3 DEF Init, Typed, PC

\* The handler's look at the branch: with no candidate, or with the branch where it
\* was, it rolls back; otherwise the branch decides.
LEMMA Inspecting ==
  ASSUME Typed, NEW w \in Writer, Inspect(w)
  PROVE  /\ pc[w] = "handle"
         /\ UNCHANGED <<repoVars, inside, found, written, branchRef, made, failure, cursor>>
         /\ \/ /\ pc' = [pc EXCEPT ![w] = "rollback"] /\ outcome' = outcome
               /\ candidate[w] = 0 \/ tip[branchRef[w]] = expected[w]
            \/ /\ pc' = [pc EXCEPT ![w] = "done"]
               /\ candidate[w] # 0 /\ tip[branchRef[w]] = candidate[w]
               /\ \E told \in {"cancelled", "ok"} : outcome' = [outcome EXCEPT ![w] = told]
            \/ /\ pc' = [pc EXCEPT ![w] = "done"] /\ candidate[w] # 0
               /\ outcome' = [outcome EXCEPT ![w] = "conflict"]
<1>1. CASE candidate[w] = 0
  BY <1>1, Zenon DEF Inspect, At, Goto
<1>2. CASE candidate[w] # 0 /\ tip[branchRef[w]] = candidate[w]
  BY <1>2, Zenon DEF Inspect, At, Goto, End
<1>3. CASE candidate[w] # 0 /\ tip[branchRef[w]] # candidate[w] /\ tip[branchRef[w]] = expected[w]
  BY <1>3, Zenon DEF Inspect, At, Goto
<1>4. CASE candidate[w] # 0 /\ tip[branchRef[w]] # candidate[w] /\ tip[branchRef[w]] # expected[w]
  BY <1>4, Zenon DEF Inspect, At, Goto, End
<1> QED
  BY <1>1, <1>2, <1>3, <1>4

\* A step of one init changes nothing of another.
LEMMA OthersKept ==
  ASSUME Typed, NEW w \in Writer, StepOf(w), NEW v \in Writer \ {w}
  PROVE  /\ pc'[v] = pc[v] /\ expected'[v] = expected[v] /\ backup'[v] = backup[v]
         /\ branchRef'[v] = branchRef[v] /\ candidate'[v] = candidate[v]
         /\ built'[v] = built[v] /\ failure'[v] = failure[v] /\ cursor'[v] = cursor[v]
         /\ outcome'[v] = outcome[v]
<1> USE DEF Typed, Goto, End, Fail, found, made
<1>1. CASE PrepareInit(w)
  BY <1>1 DEF PrepareInit
<1>2. CASE BackUp(w)
  BY <1>2 DEF BackUp
<1>3. CASE AcquireLock(w) \/ LockFails(w)
  BY <1>3 DEF AcquireLock, LockFails
<1>4. CASE ResolveHead(w) \/ ReadBranch(w) \/ BodyFails(w)
  BY <1>4 DEF ResolveHead, ReadBranch, BodyFails
<1>5. CASE WriteFile(w) \/ WriteFails(w)
  BY <1>5 DEF WriteFile, WriteFails
<1>6. CASE BuildCommit(w) \/ RecordCandidate(w)
  BY <1>6 DEF BuildCommit, RecordCandidate
<1>7. CASE CasSucceeds(w) \/ CasFails(w)
  BY <1>7 DEF CasSucceeds, CasFails
<1>8. CASE Refresh(w) \/ Unlock(w)
  BY <1>8 DEF Refresh, Unlock
<1>9. CASE Inspect(w)
  <2>1. UNCHANGED <<expected, backup, branchRef, candidate, built, failure, cursor>>
    BY <1>9 DEF Inspect
  <2>2. /\ \E s \in PC : pc' = [pc EXCEPT ![w] = s]
        /\ outcome' = outcome \/ \E told : outcome' = [outcome EXCEPT ![w] = told]
    BY <1>9, Inspecting DEF Typed, PC
  <2> QED
    BY <2>1, <2>2
<1>10. CASE InspectFails(w)
  BY <1>10 DEF InspectFails
<1>11. CASE RestoreOrDelete(w) \/ RollbackEnds(w)
  BY <1>11 DEF RestoreOrDelete, RollbackEnds
<1>12. CASE Crash(w)
  BY <1>12 DEF Crash
<1> QED
  BY <1>1, <1>2, <1>3, <1>4, <1>5, <1>6, <1>7, <1>8, <1>9, <1>10, <1>11, <1>12
     DEF StepOf, Step

\* What a step of an init does to the branches and to the object store: nothing, a
\* swap of its branch, or a new commit.
LEMMA BranchStep ==
  ASSUME Typed, NEW w \in Writer, StepOf(w)
  PROVE  \/ UNCHANGED <<tip, commits, everTip>> /\ built' = built
         \/ pc[w] = "cas" /\ Swap(w) /\ UNCHANGED <<commits, built>>
         \/ BuildCommit(w)
<1> USE DEF repoVars, made, At
<1>1. CASE PrepareInit(w) \/ BackUp(w) \/ AcquireLock(w) \/ LockFails(w)
  BY <1>1 DEF PrepareInit, BackUp, AcquireLock, LockFails
<1>2. CASE ResolveHead(w) \/ WriteFile(w) \/ WriteFails(w) \/ ReadBranch(w)
  BY <1>2 DEF ResolveHead, WriteFile, WriteFails, ReadBranch
<1>3. CASE CasSucceeds(w) \/ CasFails(w)
  BY <1>3 DEF CasSucceeds, CasFails
<1>4. CASE RecordCandidate(w) \/ Refresh(w) \/ BodyFails(w) \/ Unlock(w)
  BY <1>4 DEF RecordCandidate, Refresh, BodyFails, Unlock
<1>5. CASE Inspect(w)
  BY <1>5 DEF Inspect
<1>6. CASE InspectFails(w) \/ RestoreOrDelete(w) \/ RollbackEnds(w)
  BY <1>6 DEF InspectFails, RestoreOrDelete, RollbackEnds
<1>7. CASE Crash(w)
  BY <1>7 DEF Crash
<1> QED
  BY <1>1, <1>2, <1>3, <1>4, <1>5, <1>6, <1>7 DEF StepOf, Step

\* A swap keeps the types of the branches.
LEMMA TypedSwap ==
  ASSUME Typed, NEW w \in Writer, pc[w] = "cas", Swap(w)
  PROVE  /\ branchRef[w] \in Branch /\ built[w] \in 1..Len(commits)
         /\ tip' \in [Branch -> 0..Len(commits)] /\ everTip' \in [Branch -> SUBSET (1..MaxCommit)]
<1>1. branchRef[w] \in Branch /\ built[w] \in 1..Len(commits)
  BY DEF Typed, StageOK
<1>2. 1..Len(commits) \subseteq 1..MaxCommit
  BY RepoAssumption DEF Typed, RepoTypeOK, RepoConstants
<1> QED
  BY <1>1, <1>2 DEF Typed, RepoTypeOK, Swap, UpdateRef

\* The tree of a bootstrap commit has a content for every path.
LEMMA TreeTyped ==
  ASSUME Typed, NEW w \in Writer
  PROVE  [p \in Path |-> IF p \in Owned THEN worktree[p] ELSE FilesOf(expected[w])[p]]
           \in [Path -> Content]
<1>1. FilesOf(expected[w]) \in [Path -> Content]
  BY FilesTyped DEF Typed
<1> QED
  BY <1>1 DEF Typed, RepoTypeOK

\* The object store only grows.
LEMMA StoreGrows ==
  ASSUME Typed, NEW w \in Writer, StepOf(w)
  PROVE  /\ commits' \in Seq(Commit) /\ Len(commits') <= MaxCommit
         /\ 0..Len(commits) \subseteq 0..Len(commits')
         /\ BuildCommit(w) => Len(commits') \in 0..Len(commits') /\ NewOid = Len(commits')
<1>1. CASE commits' = commits /\ ~BuildCommit(w)
  BY <1>1 DEF Typed, RepoTypeOK
<1>2. CASE BuildCommit(w)
  <2>1. CommitTree(expected[w], [p \in Path |-> IF p \in Owned THEN worktree[p]
                                                ELSE FilesOf(expected[w])[p]])
    BY <1>2 DEF BuildCommit
  <2>2. expected[w] \in 0..Len(commits) /\ RepoTypeOK
    BY DEF Typed
  <2>3. /\ commits' \in Seq(Commit) /\ Len(commits') = NewOid
        /\ NewOid \in 1..MaxCommit /\ NewOid = Len(commits) + 1
    BY <2>1, <2>2, TreeTyped, Appending
  <2> QED
    BY <2>3, RepoAssumption DEF Typed, RepoTypeOK, RepoConstants
<1> QED
  BY <1>1, <1>2, BranchStep

\* HEAD is the outsiders'; the lock is entered, left or kept, by a step under it.
LEMMA InsideStep ==
  ASSUME Typed, NEW w \in Writer, StepOf(w)
  PROVE  /\ head' = head /\ inside' \subseteq Writer
         /\ \A v \in Writer \ {w} : v \in inside' => v \in inside
         /\ w \in inside' => w \in inside \/ pc'[w] = "resolve"
<1> USE DEF Typed, RepoTypeOK, repoVars, Goto
<1>1. CASE PrepareInit(w) \/ BackUp(w) \/ LockFails(w)
  BY <1>1 DEF PrepareInit, BackUp, LockFails
<1>2. CASE AcquireLock(w)
  BY <1>2 DEF AcquireLock, Lock!Enter
<1>3. CASE ResolveHead(w) \/ ReadBranch(w) \/ BodyFails(w)
  BY <1>3 DEF ResolveHead, ReadBranch, BodyFails
<1>4. CASE WriteFile(w)
  BY <1>4 DEF WriteFile
<1>5. CASE WriteFails(w)
  BY <1>5 DEF WriteFails
<1>6. CASE BuildCommit(w) \/ RecordCandidate(w)
  BY <1>6 DEF BuildCommit, RecordCandidate
<1>7. CASE CasSucceeds(w) \/ CasFails(w)
  BY <1>7 DEF CasSucceeds, CasFails
<1>8. CASE Refresh(w)
  BY <1>8 DEF Refresh
<1>9. CASE Unlock(w)
  BY <1>9 DEF Unlock, Lock!Leave
<1>10. CASE Inspect(w) \/ InspectFails(w)
  BY <1>10 DEF Inspect, InspectFails
<1>11. CASE RestoreOrDelete(w)
  BY <1>11 DEF RestoreOrDelete
<1>12. CASE RollbackEnds(w)
  BY <1>12 DEF RollbackEnds
<1>13. CASE Crash(w)
  BY <1>13 DEF Crash, Lock!Leave
<1> QED
  BY <1>1, <1>2, <1>3, <1>4, <1>5, <1>6, <1>7, <1>8, <1>9, <1>10, <1>11, <1>12, <1>13
     DEF StepOf, Step

\* Which files a step may change: one of those init generates, while it writes them or
\* in the rollback, and the index in the refresh.
LEMMA FilesStep ==
  ASSUME Typed, NEW w \in Writer, StepOf(w)
  PROVE  worktree' \in [Path -> Content] /\ index' \in [Path -> Content]
<1> USE DEF Typed, RepoTypeOK, repoVars
<1>1. CASE PrepareInit(w) \/ BackUp(w) \/ LockFails(w)
  BY <1>1 DEF PrepareInit, BackUp, LockFails
<1>2. CASE AcquireLock(w)
  BY <1>2 DEF AcquireLock
<1>3. CASE ResolveHead(w) \/ ReadBranch(w) \/ BodyFails(w)
  BY <1>3 DEF ResolveHead, ReadBranch, BodyFails
<1>4. CASE WriteFile(w)
  <2>1. Whole(w) \in Content
    BY Contents
  <2> QED
    BY <1>4, <2>1, PathsTyped DEF WriteFile
<1>5. CASE WriteFails(w)
  <2>1. Part(w) \in Content /\ written[w] + 1 \in 1..Len(Files)
    BY <1>5, Contents, PathsTyped DEF WriteFails
  <2>2. PICK c \in {worktree[Files[written[w] + 1]], Part(w)} :
          worktree' = [worktree EXCEPT ![Files[written[w] + 1]] = c]
    BY <1>5 DEF WriteFails
  <2>3. Files[written[w] + 1] \in Path
    BY <2>1, PathsTyped
  <2> QED
    BY <1>5, <2>1, <2>2, <2>3 DEF WriteFails
<1>6. CASE BuildCommit(w) \/ RecordCandidate(w)
  BY <1>6 DEF BuildCommit, RecordCandidate
<1>7. CASE CasSucceeds(w) \/ CasFails(w)
  BY <1>7 DEF CasSucceeds, CasFails
<1>8. CASE Refresh(w)
  <2>1. CASE UNCHANGED index
    BY <1>8, <2>1 DEF Refresh
  <2>2. CASE head # None /\ ResetPaths(tip[head], Owned)
    <3>1. FilesOf(tip[head]) \in [Path -> Content]
      BY <2>2, FilesTyped
    <3> QED
      BY <1>8, <2>2, <3>1 DEF Refresh, ResetPaths
  <2> QED
    BY <1>8, <2>1, <2>2 DEF Refresh
<1>9. CASE Unlock(w)
  BY <1>9 DEF Unlock
<1>10. CASE Inspect(w) \/ InspectFails(w)
  BY <1>10 DEF Inspect, InspectFails
<1>11. CASE RestoreOrDelete(w)
  <2>1. cursor[w] + 1 \in 1..Len(Files)
    BY <1>11, PathsTyped DEF RestoreOrDelete
  <2>2. Files[cursor[w] + 1] \in Path /\ backup[w] \in [Path -> Content]
    BY <1>11, <2>1, PathsTyped DEF RestoreOrDelete, StageOK, At
  <2> QED
    BY <1>11, <2>2 DEF RestoreOrDelete
<1>12. CASE RollbackEnds(w)
  BY <1>12 DEF RollbackEnds
<1>13. CASE Crash(w)
  BY <1>13 DEF Crash
<1> QED
  BY <1>1, <1>2, <1>3, <1>4, <1>5, <1>6, <1>7, <1>8, <1>9, <1>10, <1>11, <1>12, <1>13
     DEF StepOf, Step

\* A step of an init keeps the types of the repository.
LEMMA RepoTyped ==
  ASSUME Typed, NEW w \in Writer, StepOf(w)
  PROVE  RepoTypeOK'
<1> USE DEF Typed, RepoTypeOK
<1>1. /\ commits' \in Seq(Commit) /\ Len(commits') <= MaxCommit
      /\ 0..Len(commits) \subseteq 0..Len(commits')
  BY StoreGrows
<1>2. tip' \in [Branch -> 0..Len(commits')] /\ everTip' \in [Branch -> SUBSET (1..MaxCommit)]
  <2>1. CASE UNCHANGED <<tip, everTip>>
    BY <1>1, <2>1
  <2>2. CASE pc[w] = "cas" /\ Swap(w)
    BY <1>1, <2>2, TypedSwap
  <2> QED
    BY <2>1, <2>2, BranchStep DEF BuildCommit
<1>3. head' = head /\ inside' \subseteq Writer
  BY InsideStep
<1>4. worktree' \in [Path -> Content] /\ index' \in [Path -> Content]
  BY FilesStep
<1> QED
  BY <1>1, <1>2, <1>3, <1>4

\* The types of what an init keeps for itself.
VarsTyped ==
  /\ pc \in [Writer -> PC]
  /\ expected \in [Writer -> 0..Len(commits)]
  /\ backup \in [Writer -> [Path -> Content] \cup {None}]
  /\ written \in [Writer -> 0..Len(Files)] /\ cursor \in [Writer -> 0..Len(Files)]
  /\ branchRef \in [Writer -> Branch \cup {None}]
  /\ candidate \in [Writer -> 0..MaxCommit]
  /\ built \in [Writer -> 0..Len(commits)]
  /\ failure \in [Writer -> {"none", "sync", "async"}]
  /\ outcome \in [Writer -> {"none", "ok", "failed", "cancelled", "unsafe", "conflict"}]

\* A step keeps the types of what the init keeps for itself.
LEMMA VarsKept ==
  ASSUME Typed, NEW w \in Writer, StepOf(w)
  PROVE  VarsTyped'
<1> USE PathsTyped DEF Typed, VarsTyped, RepoTypeOK, found, made, repoVars, At, PC, Raised, Told
<1> USE DEF Goto, End, Fail
<1>0. 0..Len(commits) \subseteq 0..MaxCommit
  BY RepoAssumption DEF RepoConstants
<1>1. CASE PrepareInit(w)
  BY <1>1 DEF PrepareInit
<1>2. CASE BackUp(w)
  <2>1. [p \in Path |-> IF p \in Owned THEN worktree[p] ELSE Absent] \in [Path -> Content]
    BY Contents
  <2> QED
    BY <1>2, <2>1 DEF BackUp
<1>3. CASE AcquireLock(w)
  BY <1>3 DEF AcquireLock
<1>4. CASE LockFails(w)
  BY <1>4 DEF LockFails
<1>5. CASE ResolveHead(w)
  BY <1>5 DEF ResolveHead
<1>6. CASE WriteFile(w)
  BY <1>6 DEF WriteFile
<1>7. CASE WriteFails(w)
  BY <1>7 DEF WriteFails
<1>8. CASE ReadBranch(w)
  BY <1>8 DEF ReadBranch
<1>9. CASE RecordCandidate(w)
  BY <1>0, <1>9 DEF RecordCandidate
<1>10. CASE CasSucceeds(w)
  BY <1>10 DEF CasSucceeds
<1>11. CASE CasFails(w)
  BY <1>11 DEF CasFails
<1>12. CASE Refresh(w)
  BY <1>12 DEF Refresh
<1>13. CASE BodyFails(w)
  BY <1>13 DEF BodyFails
<1>14. CASE Unlock(w)
  BY <1>14 DEF Unlock
<1>15. CASE InspectFails(w)
  BY <1>15 DEF InspectFails
<1>16. CASE RestoreOrDelete(w)
  <2>1. CASE UNCHANGED <<pc, outcome>> /\ cursor' = [cursor EXCEPT ![w] = @ + 1]
    BY <1>16, <2>1 DEF RestoreOrDelete
  <2>2. CASE UNCHANGED cursor
    BY <1>16, <2>2 DEF RestoreOrDelete
  <2> QED
    BY <1>16, <2>1, <2>2 DEF RestoreOrDelete
<1>17. CASE RollbackEnds(w)
  BY <1>17 DEF RollbackEnds
<1>18. CASE Crash(w)
  BY <1>18 DEF Crash
<1>19. CASE BuildCommit(w)
  BY <1>19, StoreGrows DEF BuildCommit
<1>20. CASE Inspect(w)
  <2>1. UNCHANGED <<inside, expected, backup, written, branchRef, candidate, built, failure,
                    cursor>>
    BY <1>20 DEF Inspect
  <2>2. CASE pc' = [pc EXCEPT ![w] = "rollback"] /\ outcome' = outcome
    BY <1>20, <2>1, <2>2 DEF Inspect
  <2>3. CASE \E told \in {"cancelled", "ok", "conflict"} :
                pc' = [pc EXCEPT ![w] = "done"] /\ outcome' = [outcome EXCEPT ![w] = told]
    BY <1>20, <2>1, <2>3 DEF Inspect
  <2> QED
    BY <1>20, <2>2, <2>3, Inspecting
<1> QED
  BY <1>1, <1>2, <1>3, <1>4, <1>5, <1>6, <1>7, <1>8, <1>9, <1>10, <1>11, <1>12, <1>13, <1>14,
     <1>15, <1>16, <1>17, <1>18, <1>19, <1>20 DEF StepOf, Step

\* After a step the init holds what its new stage needs.
LEMMA StageKept ==
  ASSUME Typed, NEW w \in Writer, StepOf(w)
  PROVE  StageOK(w)'
<1>0. w \in inside' => w \in inside \/ pc'[w] = "resolve"
  BY InsideStep
<1> USE <1>0 DEF Typed, StageOK, RepoTypeOK, found, made, repoVars, At, PC, Locked, Unbuilt
<1> USE DEF Goto, End, Fail
<1>1. CASE PrepareInit(w)
  BY <1>1 DEF PrepareInit
<1>2. CASE BackUp(w)
  <2>1. [p \in Path |-> IF p \in Owned THEN worktree[p] ELSE Absent] \in [Path -> Content]
    BY Contents
  <2> QED
    BY <1>2, <2>1 DEF BackUp
<1>3. CASE AcquireLock(w)
  BY <1>3 DEF AcquireLock
<1>4. CASE LockFails(w)
  BY <1>4 DEF LockFails
<1>5. CASE ResolveHead(w)
  BY <1>5 DEF ResolveHead
<1>6. CASE WriteFile(w)
  BY <1>6 DEF WriteFile
<1>7. CASE WriteFails(w)
  BY <1>7 DEF WriteFails
<1>8. CASE ReadBranch(w)
  BY <1>8 DEF ReadBranch
<1>9. CASE RecordCandidate(w)
  BY <1>9 DEF RecordCandidate
<1>10. CASE CasSucceeds(w)
  BY <1>10 DEF CasSucceeds
<1>11. CASE CasFails(w)
  BY <1>11 DEF CasFails
<1>12. CASE Refresh(w)
  BY <1>12 DEF Refresh
<1>13. CASE BodyFails(w)
  BY <1>13 DEF BodyFails
<1>14. CASE Unlock(w)
  <2>1. inside' = {}
    BY <1>14 DEF Unlock, Lock!Leave
  <2>2. CASE End(w, "ok") /\ failure' = failure
    BY <1>14, <2>1, <2>2 DEF Unlock
  <2>3. CASE Goto(w, "handle") /\ outcome' = outcome
    BY <1>14, <2>1, <2>3 DEF Unlock
  <2> QED
    BY <1>14, <2>2, <2>3 DEF Unlock
<1>15. CASE InspectFails(w)
  BY <1>15 DEF InspectFails
<1>16. CASE RestoreOrDelete(w)
  BY <1>16 DEF RestoreOrDelete
<1>17. CASE RollbackEnds(w)
  BY <1>17 DEF RollbackEnds
<1>18. CASE Crash(w)
  <2>1. w \notin inside'
    BY <1>18 DEF Crash, Lock!Leave
  <2> QED
    BY <1>18, <2>1 DEF Crash
<1>19. CASE BuildCommit(w)
  <2>1. NewOid # 0
    BY DEF NewOid
  <2> QED
    BY <1>19, <2>1 DEF BuildCommit
<1>20. CASE Inspect(w)
  <2>1. UNCHANGED <<inside, expected, backup, written, branchRef, candidate, built, failure,
                    cursor>>
    BY <1>20 DEF Inspect
  <2>2. CASE pc' = [pc EXCEPT ![w] = "rollback"] /\ outcome' = outcome
    BY <1>20, <2>1, <2>2 DEF Inspect
  <2>3. CASE \E told \in {"cancelled", "ok", "conflict"} :
                pc' = [pc EXCEPT ![w] = "done"] /\ outcome' = [outcome EXCEPT ![w] = told]
    BY <1>20, <2>1, <2>3 DEF Inspect
  <2> QED
    BY <1>20, <2>2, <2>3, Inspecting
<1> QED
  BY <1>1, <1>2, <1>3, <1>4, <1>5, <1>6, <1>7, <1>8, <1>9, <1>10, <1>11, <1>12, <1>13, <1>14,
     <1>15, <1>16, <1>17, <1>18, <1>19, <1>20 DEF StepOf, Step

\* A step of an init keeps the first layer.
LEMMA TypedStep ==
  ASSUME Typed, NEW w \in Writer, StepOf(w)
  PROVE  Typed'
<1>1. VarsTyped' /\ RepoTypeOK'
  BY VarsKept, RepoTyped
<1>2. ASSUME NEW v \in Writer PROVE StageOK(v)'
  <2>1. CASE v = w
    BY <2>1, StageKept
  <2>2. CASE v # w
    <3>1. v \in inside' => v \in inside
      BY <2>2, InsideStep
    <3> QED
      BY <2>2, <3>1, OthersKept DEF Typed, StageOK
  <2> QED
    BY <2>1, <2>2
<1> QED
  BY <1>1, <1>2 DEF Typed, VarsTyped

\* What outsiders do to the branches: a commit on top of one of them, or nothing.
LEMMA TypedOutside ==
  ASSUME Typed, OutsideStep
  PROVE  Typed' /\ 0..Len(commits) \subseteq 0..Len(commits')
<1> USE DEF Typed, RepoTypeOK
<1>1. UNCHANGED <<inside, pc, expected, backup, written, branchRef, candidate, built, failure,
                  cursor, outcome>>
  BY DEF OutsideStep, txnVars, found, made
<1>2. ASSUME NEW b \in Branch, ExternalCommit(b)
      PROVE  RepoTypeOK' /\ 0..Len(commits) \subseteq 0..Len(commits')
  <2>1. FilesOf(tip[b]) \in [Path -> Content] /\ tip[b] \in 0..Len(commits)
    BY FilesTyped
  <2>2. /\ commits' \in Seq(Commit) /\ Len(commits') = NewOid
        /\ NewOid \in 1..MaxCommit /\ NewOid = Len(commits) + 1
    BY <1>2, <2>1, Appending DEF ExternalCommit
  <2>3. tip' \in [Branch -> 0..Len(commits')] /\ everTip' \in [Branch -> SUBSET (1..MaxCommit)]
    BY <1>2, <2>2 DEF ExternalCommit, UpdateRef
  <2> QED
    BY <1>1, <1>2, <2>2, <2>3, RepoAssumption DEF ExternalCommit, RepoConstants
<1>3. ASSUME SwitchHead
      PROVE  RepoTypeOK' /\ 0..Len(commits) \subseteq 0..Len(commits')
  BY <1>1, <1>3 DEF SwitchHead
<1>4. ASSUME NEW p \in Path, Edit(p) \/ Stage(p)
      PROVE  RepoTypeOK' /\ 0..Len(commits) \subseteq 0..Len(commits')
  BY <1>1, <1>4, Contents DEF Edit, Stage
<1>5. RepoTypeOK' /\ 0..Len(commits) \subseteq 0..Len(commits')
  BY <1>1, <1>2, <1>3, <1>4 DEF OutsideStep, Outside
<1>6. \A w \in Writer : StageOK(w)'
  BY <1>1 DEF StageOK
<1> QED
  BY <1>1, <1>5, <1>6

(***************************************************************************)
(* The history.                                                            *)
(***************************************************************************)

\* At the start nobody has built a commit.
LEMMA HistoryInit ==
  ASSUME Init
  PROVE  History
<1>1. CommitsOK
  BY DEF Init, CommitsOK
<1>2. \A w \in Writer : BuiltOK(w)
  BY DEF Init, BuiltOK
<1> QED
  BY <1>1, <1>2 DEF History

\* What an init expected and what it built stay what they were, once it has built.
LEMMA PlanKept ==
  ASSUME Typed, NEW w \in Writer, StepOf(w), ~BuildCommit(w)
  PROVE  /\ built' = built /\ commits' = commits
         /\ built[w] # 0 => expected'[w] = expected[w] /\ branchRef'[w] = branchRef[w]
<1> USE DEF Typed, StageOK, Unbuilt, At, found, made, repoVars
<1>1. CASE PrepareInit(w) \/ BackUp(w) \/ AcquireLock(w) \/ LockFails(w)
  BY <1>1 DEF PrepareInit, BackUp, AcquireLock, LockFails
<1>2. CASE ResolveHead(w) \/ WriteFile(w) \/ WriteFails(w) \/ ReadBranch(w)
  BY <1>2 DEF ResolveHead, WriteFile, WriteFails, ReadBranch
<1>3. CASE RecordCandidate(w) \/ CasSucceeds(w) \/ CasFails(w) \/ Refresh(w)
  BY <1>3 DEF RecordCandidate, CasSucceeds, CasFails, Refresh
<1>4. CASE BodyFails(w) \/ Unlock(w) \/ Inspect(w) \/ InspectFails(w)
  BY <1>4 DEF BodyFails, Unlock, Inspect, InspectFails
<1>5. CASE RestoreOrDelete(w) \/ RollbackEnds(w) \/ Crash(w)
  BY <1>5 DEF RestoreOrDelete, RollbackEnds, Crash
<1> QED
  BY <1>1, <1>2, <1>3, <1>4, <1>5 DEF StepOf, Step

\* A swap adds the init's commit, and nothing else, to the branch it read.
LEMMA SwapGrows ==
  ASSUME Typed, History, NEW w \in Writer, pc[w] = "cas", Swap(w), commits' = commits
  PROVE  \A b \in Branch : PastOf(tip[b])' = IF b = branchRef[w] THEN PastOf(tip[b]) \cup {built[w]}
                                                                 ELSE PastOf(tip[b])
<1>1. branchRef[w] \in Branch /\ built[w] \in 1..Len(commits) /\ built[w] # 0
  BY TypedSwap
<1>2. tip[branchRef[w]] = expected[w] /\ tip' = [tip EXCEPT ![branchRef[w]] = built[w]]
  BY DEF Swap, UpdateRef
<1>3. PastOf(built[w]) = PastOf(tip[branchRef[w]]) \cup {built[w]}
  BY <1>1, <1>2 DEF History, BuiltOK
<1>4. \A b \in Branch : tip'[b] = IF b = branchRef[w] THEN built[w] ELSE tip[b]
  BY <1>1, <1>2 DEF Typed, RepoTypeOK
<1> SUFFICES ASSUME NEW b \in Branch
             PROVE  PastOf(tip[b])' = IF b = branchRef[w] THEN PastOf(tip[b]) \cup {built[w]}
                                                          ELSE PastOf(tip[b])
  OBVIOUS
<1>5. CASE b = branchRef[w]
  <2>1. tip'[b] = built[w] /\ PastOf(built[w]) = PastOf(tip[b]) \cup {built[w]}
    BY <1>3, <1>4, <1>5
  <2> QED
    BY <1>1, <1>5, <2>1 DEF PastOf
<1>6. CASE b # branchRef[w]
  BY <1>4, <1>6 DEF PastOf
<1> QED
  BY <1>5, <1>6

\* Outside steps leave every commit of an init where it was.
LEMMA OutsideGrows ==
  ASSUME Typed, History, OutsideStep
  PROVE  /\ CommitsOK'
         /\ \A c \in 0..Len(commits) : PastOf(c)' = PastOf(c)
         /\ \A c \in 1..Len(commits) : commits'[c] = commits[c]
         /\ \A b \in Branch, c \in 1..Len(commits) : OnBranch(c, b)' <=> OnBranch(c, b)
<1>1. ASSUME NEW b \in Branch, ExternalCommit(b)
      PROVE  /\ CommitsOK'
             /\ \A c \in 0..Len(commits) : PastOf(c)' = PastOf(c)
             /\ \A c \in 1..Len(commits) : commits'[c] = commits[c]
             /\ \A d \in Branch, c \in 1..Len(commits) : OnBranch(c, d)' <=> OnBranch(c, d)
  <2>1. tip[b] \in 0..Len(commits) /\ FilesOf(tip[b]) \in [Path -> Content] /\ RepoTypeOK
    BY FilesTyped DEF Typed, RepoTypeOK
  <2>2. /\ CommitsOK'
        /\ \A c \in 0..Len(commits) : PastOf(c)' = PastOf(c) /\ PastOf(c) \subseteq 1..c
        /\ \A c \in 1..Len(commits) : commits'[c] = commits[c]
        /\ commits'[NewOid].past = PastOf(tip[b]) \cup {NewOid}
        /\ NewOid = Len(commits) + 1 /\ Len(commits) \in Nat
    BY <1>1, <2>1, NewObject DEF ExternalCommit, History
  <2>3. tip' = [tip EXCEPT ![b] = NewOid]
    BY <1>1 DEF ExternalCommit, UpdateRef
  <2>4. ASSUME NEW d \in Branch
        PROVE  PastOf(tip[d])' = IF d = b THEN PastOf(tip[b]) \cup {NewOid} ELSE PastOf(tip[d])
    <3>1. tip'[d] = (IF d = b THEN NewOid ELSE tip[d]) /\ tip[d] \in 0..Len(commits)
      BY <2>3 DEF Typed, RepoTypeOK
    <3>2. CASE d = b
      <4>1. tip'[d] = NewOid /\ NewOid # 0
        BY <2>2, <3>1, <3>2
      <4> QED
        BY <2>2, <3>2, <4>1 DEF PastOf
    <3>3. CASE d # b
      BY <2>2, <3>1, <3>3 DEF PastOf
    <3> QED
      BY <3>2, <3>3
  <2> QED
    BY <2>2, <2>4 DEF OnBranch
<1>2. CASE UNCHANGED <<tip, commits>>
  BY <1>2 DEF History, CommitsOK, PastOf, OnBranch
<1> QED
  BY <1>1, <1>2 DEF OutsideStep, Outside, SwitchHead, Edit, Stage

\* A step that makes no commit: a quiet one, or the swap of a branch.
LEMMA HistoryQuiet ==
  ASSUME Typed, History, NEW w \in Writer, StepOf(w), ~BuildCommit(w)
  PROVE  History'
<1>1. /\ built' = built /\ commits' = commits
      /\ built[w] # 0 => expected'[w] = expected[w] /\ branchRef'[w] = branchRef[w]
  BY PlanKept
<1>2. \A v \in Writer : built[v] # 0 => expected'[v] = expected[v] /\ branchRef'[v] = branchRef[v]
  BY <1>1, OthersKept
<1>3. \A c \in 0..Len(commits) : PastOf(c)' = PastOf(c)
  BY <1>1 DEF PastOf
<1>4. ASSUME NEW v \in Writer, built[v] # 0, NEW b \in Branch, OnBranch(built[v], b)'
      PROVE  b = branchRef[v]
  <2>1. OnBranch(built[v], b) \/ (b = branchRef[w] /\ built[v] = built[w])
    <3>1. CASE UNCHANGED <<tip, commits>>
      BY <1>1, <1>4, <3>1 DEF OnBranch, PastOf
    <3>2. CASE pc[w] = "cas" /\ Swap(w)
      BY <1>1, <1>4, <3>2, SwapGrows DEF OnBranch
    <3> QED
      BY <3>1, <3>2, BranchStep
  <2> QED
    BY <1>4, <2>1 DEF History, BuiltOK
<1>5. ASSUME NEW v \in Writer PROVE BuiltOK(v)'
  <2>1. built[v] \in 0..Len(commits) /\ expected[v] \in 0..Len(commits)
    BY DEF Typed
  <2> QED
    BY <1>1, <1>2, <1>3, <1>4, <2>1 DEF History, BuiltOK
<1>6. CommitsOK'
  BY <1>1 DEF History, CommitsOK
<1> QED
  BY <1>5, <1>6 DEF History

\* What there is once an init has built its commit.
LEMMA CommitBuilt ==
  ASSUME Typed, History, NEW w \in Writer, BuildCommit(w)
  PROVE  /\ CommitsOK' /\ UNCHANGED <<tip, expected, branchRef, candidate>>
         /\ \A c \in 0..Len(commits) : PastOf(c)' = PastOf(c) /\ PastOf(c) \subseteq 1..c
         /\ \A c \in 1..Len(commits) : commits'[c] = commits[c]
         /\ commits'[NewOid].past = PastOf(expected[w]) \cup {NewOid}
         /\ commits'[NewOid].parent = expected[w]
         /\ NewOid = Len(commits) + 1 /\ Len(commits) \in Nat
         /\ \A v \in Writer : built'[v] = IF v = w THEN NewOid ELSE built[v]
<1>1. /\ expected[w] \in 0..Len(commits) /\ RepoTypeOK /\ CommitsOK
      /\ CommitTree(expected[w], [p \in Path |-> IF p \in Owned THEN worktree[p]
                                                 ELSE FilesOf(expected[w])[p]])
  BY DEF BuildCommit, Typed, History
<1>2. UNCHANGED <<tip, expected, branchRef, candidate>> /\ built' = [built EXCEPT ![w] = NewOid]
  BY DEF BuildCommit, found
<1>3. built \in [Writer -> 0..Len(commits)]
  BY DEF Typed
<1> QED
  BY <1>1, <1>2, <1>3, TreeTyped, NewObject

\* A new commit is nobody's and on no branch yet.
LEMMA HistoryBuild ==
  ASSUME Typed, History, NEW w \in Writer, BuildCommit(w)
  PROVE  History' /\ \A b \in Branch : ~OnBranch(built[w], b)'
<1>1. /\ CommitsOK' /\ UNCHANGED <<tip, expected, branchRef>>
      /\ \A c \in 0..Len(commits) : PastOf(c)' = PastOf(c) /\ PastOf(c) \subseteq 1..c
      /\ \A c \in 1..Len(commits) : commits'[c] = commits[c]
      /\ commits'[NewOid].past = PastOf(expected[w]) \cup {NewOid}
      /\ commits'[NewOid].parent = expected[w]
      /\ NewOid = Len(commits) + 1 /\ Len(commits) \in Nat
      /\ \A v \in Writer : built'[v] = IF v = w THEN NewOid ELSE built[v]
  BY CommitBuilt
<1>2. ASSUME NEW b \in Branch
      PROVE  /\ NewOid \notin PastOf(tip[b])'
             /\ \A c \in 1..Len(commits) : OnBranch(c, b)' <=> OnBranch(c, b)
  <2>1. tip[b] \in 0..Len(commits) /\ tip'[b] = tip[b]
    BY <1>1 DEF Typed, RepoTypeOK
  <2>2. PastOf(tip[b])' = PastOf(tip[b]) /\ PastOf(tip[b]) \subseteq 1..tip[b]
    BY <1>1, <2>1 DEF PastOf
  <2>3. NewOid \notin PastOf(tip[b])
    BY <1>1, <2>1, <2>2
  <2> QED
    BY <1>1, <2>2, <2>3 DEF OnBranch
<1>3. ASSUME NEW v \in Writer, built'[v] # 0 PROVE BuiltOK(v)'
  <2>1. built[v] \in 0..Len(commits) /\ expected[v] \in 0..Len(commits)
        /\ \A u \in Writer : built[u] \in 0..Len(commits)
    BY DEF Typed
  <2>2. CASE v = w
    <3>1. PastOf(expected[w])' = PastOf(expected[w]) /\ PastOf(expected[w]) \subseteq 1..expected[w]
      BY <1>1, <2>1, <2>2 DEF PastOf
    <3>2. PastOf(built[w])' = PastOf(expected[w])' \cup {NewOid} /\ built'[w] = NewOid /\ NewOid # 0
      BY <1>1, <3>1 DEF PastOf
    <3>3. NewOid \notin PastOf(expected[w])'
      BY <1>1, <2>1, <2>2, <3>1
    <3>4. \A u \in Writer : built'[u] = NewOid => u = w
      BY <1>1, <2>1
    <3> QED
      BY <1>1, <1>2, <2>2, <3>2, <3>3, <3>4 DEF BuiltOK, OnBranch
  <2>3. CASE v # w
    <3>1. built'[v] = built[v] /\ built[v] \in 1..Len(commits)
      BY <1>1, <1>3, <2>1, <2>3
    <3>2. PastOf(built[v])' = PastOf(built[v]) /\ PastOf(expected[v])' = PastOf(expected[v])
      BY <1>1, <2>1, <3>1 DEF PastOf
    <3>3. \A u \in Writer : built'[u] = built'[v] => u = v
      BY <1>1, <2>1, <3>1 DEF History, BuiltOK
    <3>4. \A b \in Branch : OnBranch(built[v], b)' <=> OnBranch(built[v], b)
      BY <1>2, <3>1 DEF OnBranch
    <3> QED
      BY <1>1, <3>1, <3>2, <3>3, <3>4 DEF History, BuiltOK
  <2> QED
    BY <2>2, <2>3
<1>4. \A v \in Writer : BuiltOK(v)'
  BY <1>3 DEF BuiltOK
<1>5. \A b \in Branch : ~OnBranch(built[w], b)'
  BY <1>1, <1>2 DEF OnBranch
<1> QED
  BY <1>1, <1>4, <1>5 DEF History

\* Outside steps keep the history: the commits of inits stay where they were.
LEMMA HistoryOutside ==
  ASSUME Typed, History, OutsideStep
  PROVE  History'
<1>1. UNCHANGED <<expected, branchRef, built>>
  BY DEF OutsideStep, txnVars, found, made
<1>2. ASSUME NEW v \in Writer PROVE BuiltOK(v)'
  <2>1. built[v] \in 0..Len(commits) /\ expected[v] \in 0..Len(commits)
    BY DEF Typed
  <2>2. PastOf(built[v])' = PastOf(built[v]) /\ PastOf(expected[v])' = PastOf(expected[v])
    BY <1>1, <2>1, OutsideGrows DEF PastOf
  <2>3. built[v] # 0 => \A b \in Branch : OnBranch(built[v], b)' <=> OnBranch(built[v], b)
    BY <1>1, <2>1, OutsideGrows DEF OnBranch
  <2>4. built[v] # 0 => commits'[built[v]] = commits[built[v]]
    BY <2>1, OutsideGrows
  <2> QED
    BY <1>1, <2>2, <2>3, <2>4 DEF History, BuiltOK
<1> QED
  BY <1>2, OutsideGrows DEF History

(***************************************************************************)
(* What the init knows and tells of the branch.                            *)
(***************************************************************************)

\* A step publishes and takes back nobody's commit, but for the init's own by its swap.
LEMMA PublishedKept ==
  ASSUME Typed, History, NEW w \in Writer, StepOf(w), NEW v \in Writer,
         v # w \/ (~BuildCommit(w) /\ pc[w] # "cas")
  PROVE  Published(v)' <=> Published(v)
<1>1. built'[v] = built[v] /\ built[v] \in 0..Len(commits)
  BY OthersKept, PlanKept DEF Typed
<1>2. CASE BuildCommit(w)
  <2>1. /\ UNCHANGED tip
        /\ \A c \in 0..Len(commits) : PastOf(c)' = PastOf(c)
    BY <1>2, CommitBuilt
  <2>2. \A b \in Branch : PastOf(tip[b])' = PastOf(tip[b])
    BY <2>1 DEF Typed, RepoTypeOK, PastOf
  <2> QED
    BY <1>1, <2>2 DEF Published, Reachable, OnBranch
<1>3. CASE UNCHANGED <<tip, commits>>
  BY <1>1, <1>3 DEF Published, Reachable, OnBranch, PastOf
<1>4. CASE pc[w] = "cas" /\ Swap(w) /\ commits' = commits /\ ~BuildCommit(w)
  <2>1. built[v] # 0 => built[v] # built[w]
    BY <1>4 DEF History, BuiltOK
  <2>2. \A b \in Branch : PastOf(tip[b])' = IF b = branchRef[w] THEN PastOf(tip[b]) \cup {built[w]}
                                                                ELSE PastOf(tip[b])
    BY <1>4, SwapGrows
  <2> QED
    BY <1>1, <2>1, <2>2 DEF Published, Reachable, OnBranch
<1> QED
  BY <1>2, <1>3, <1>4, BranchStep

\* A swap publishes the commit.
LEMMA SwapPublishes ==
  ASSUME Typed, History, NEW w \in Writer, pc[w] = "cas", Swap(w), UNCHANGED <<commits, built>>
  PROVE  Published(w)'
<1>1. branchRef[w] \in Branch /\ built[w] # 0
  BY DEF Typed, StageOK
<1>2. \E b \in Branch : built'[w] \in PastOf(tip[b])'
  BY <1>1, SwapGrows
<1> QED
  BY <1>1, <1>2 DEF Published, Reachable, OnBranch

\* The branch is the authority: one that still is where the init expected it does not
\* have the commit, nor has any other, and one that is at the commit has it.
LEMMA TipTells ==
  ASSUME Typed, History, NEW w \in Writer, built[w] # 0
  PROVE  /\ tip[branchRef[w]] = expected[w] => ~Published(w)
         /\ tip[branchRef[w]] = built[w] => Published(w)
<1>1. branchRef[w] \in Branch /\ built[w] \in 1..Len(commits)
  BY DEF Typed, StageOK
<1>2. \A b \in Branch : OnBranch(built[w], b) => b = branchRef[w]
  BY DEF History, BuiltOK
<1>3. built[w] \notin PastOf(expected[w]) /\ built[w] \in PastOf(built[w])
  BY <1>1 DEF History, BuiltOK
<1> QED
  BY <1>1, <1>2, <1>3 DEF Published, Reachable, OnBranch

\* At the start nothing is recorded, published or told.
LEMMA AnswerInit ==
  ASSUME Init, NEW w \in Writer
  PROVE  AnswerOK(w)
BY DEF Init, AnswerOK, Published

\* The init's own steps.
LEMMA AnswerOwn ==
  ASSUME Typed, History, NEW w \in Writer, StepOf(w), AnswerOK(w)
  PROVE  AnswerOK(w)'
<1>0. ~BuildCommit(w) /\ pc[w] # "cas" => (Published(w)' <=> Published(w))
  BY PublishedKept
<1> USE DEF Typed, StageOK, AnswerOK, found, made, At, Goto, End, Fail, Raised, PC, Unbuilt
<1>1. CASE PrepareInit(w)
  BY <1>0, <1>1 DEF PrepareInit, BuildCommit
<1>2. CASE BackUp(w) \/ AcquireLock(w) \/ ResolveHead(w)
  BY <1>0, <1>2 DEF BackUp, AcquireLock, ResolveHead, BuildCommit
<1>3. CASE LockFails(w)
  BY <1>0, <1>3 DEF LockFails, BuildCommit
<1>4. CASE WriteFile(w) \/ WriteFails(w) \/ ReadBranch(w)
  BY <1>0, <1>4 DEF WriteFile, WriteFails, ReadBranch, BuildCommit
<1>5. CASE BuildCommit(w)
  <2>1. ~Published(w)'
    BY <1>5, HistoryBuild DEF Published, Reachable
  <2> QED
    BY <1>5, <2>1 DEF BuildCommit
<1>6. CASE RecordCandidate(w)
  BY <1>0, <1>6 DEF RecordCandidate, BuildCommit
<1>7. CASE CasSucceeds(w)
  <2>1. Published(w)'
    BY <1>7, SwapPublishes DEF CasSucceeds
  <2> QED
    BY <1>7, <2>1 DEF CasSucceeds
<1>8. CASE CasFails(w)
  BY <1>8 DEF CasFails
<1>9. CASE Refresh(w)
  BY <1>0, <1>9 DEF Refresh, BuildCommit
<1>10. CASE BodyFails(w)
  BY <1>0, <1>10 DEF BodyFails, BuildCommit
<1>11. CASE Unlock(w)
  <2>1. Published(w)' <=> Published(w)
    BY <1>0, <1>11 DEF Unlock, BuildCommit
  <2>2. CASE failure[w] = "none" /\ End(w, "ok") /\ UNCHANGED failure
    BY <1>11, <2>1, <2>2 DEF Unlock
  <2>3. CASE Goto(w, "handle") /\ UNCHANGED outcome
    BY <1>11, <2>1, <2>3 DEF Unlock
  <2> QED
    BY <1>11, <2>2, <2>3 DEF Unlock
<1>12. CASE Inspect(w)
  <2>1. /\ UNCHANGED <<candidate, built, failure>> /\ pc[w] = "handle"
        /\ Published(w)' <=> Published(w)
    BY <1>0, <1>12, Inspecting DEF BuildCommit
  <2>2. CASE /\ pc' = [pc EXCEPT ![w] = "rollback"] /\ outcome' = outcome
             /\ candidate[w] = 0 \/ tip[branchRef[w]] = expected[w]
    <3>1. ~Published(w)
      BY <2>2, TipTells
    <3> QED
      BY <2>1, <2>2, <3>1
  <2>3. CASE /\ pc' = [pc EXCEPT ![w] = "done"]
             /\ candidate[w] # 0 /\ tip[branchRef[w]] = candidate[w]
             /\ \E told \in {"cancelled", "ok"} : outcome' = [outcome EXCEPT ![w] = told]
    <3>1. Published(w)
      BY <2>3, TipTells
    <3> QED
      BY <2>1, <2>3, <3>1
  <2>4. CASE /\ pc' = [pc EXCEPT ![w] = "done"] /\ candidate[w] # 0
             /\ outcome' = [outcome EXCEPT ![w] = "conflict"]
    BY <2>1, <2>4
  <2> QED
    BY <1>12, <2>2, <2>3, <2>4, Inspecting
<1>13. CASE InspectFails(w)
  BY <1>0, <1>13 DEF InspectFails, BuildCommit
<1>14. CASE RestoreOrDelete(w)
  BY <1>0, <1>14 DEF RestoreOrDelete, BuildCommit
<1>15. CASE RollbackEnds(w)
  BY <1>0, <1>15 DEF RollbackEnds, BuildCommit, Told
<1>16. CASE Crash(w)
  BY <1>0, <1>16 DEF Crash, BuildCommit
<1> QED
  BY <1>1, <1>2, <1>3, <1>4, <1>5, <1>6, <1>7, <1>8, <1>9, <1>10, <1>11, <1>12, <1>13,
     <1>14, <1>15, <1>16 DEF StepOf, Step

\* Outsiders neither publish nor take back an init's commit.
LEMMA OutsidePublishes ==
  ASSUME Typed, History, OutsideStep, NEW w \in Writer
  PROVE  Published(w)' <=> Published(w)
<1>1. built' = built /\ built[w] \in 0..Len(commits)
  BY DEF OutsideStep, txnVars, made, Typed
<1>2. built[w] # 0 => \A b \in Branch : OnBranch(built[w], b)' <=> OnBranch(built[w], b)
  BY <1>1, OutsideGrows DEF OnBranch
<1> QED
  BY <1>1, <1>2 DEF Published, Reachable

\* The third layer is kept.
LEMMA AnswerNext ==
  ASSUME Typed, History, \A w \in Writer : AnswerOK(w), Next
  PROVE  \A w \in Writer : AnswerOK(w)'
<1>1. ASSUME NEW w \in Writer, StepOf(w), NEW v \in Writer PROVE AnswerOK(v)'
  <2>1. CASE v = w
    BY <1>1, <2>1, AnswerOwn
  <2>2. CASE v # w
    <3>1. Published(v)' <=> Published(v)
      BY <1>1, <2>2, PublishedKept
    <3>2. /\ candidate'[v] = candidate[v] /\ pc'[v] = pc[v] /\ failure'[v] = failure[v]
          /\ outcome'[v] = outcome[v]
      BY <1>1, <2>2, OthersKept
    <3> QED
      BY <3>1, <3>2 DEF AnswerOK
  <2> QED
    BY <2>1, <2>2
<1>2. ASSUME OutsideStep, NEW v \in Writer PROVE AnswerOK(v)'
  <2>1. UNCHANGED <<candidate, pc, failure, outcome>>
    BY <1>2 DEF OutsideStep, txnVars, made
  <2> QED
    BY <1>2, <2>1, OutsidePublishes DEF AnswerOK
<1> QED
  BY <1>1, <1>2 DEF Next, StepOf

(***************************************************************************)
(* What a rollback puts back.                                              *)
(***************************************************************************)

\* At the start nobody rolls back.
LEMMA RestoredInit ==
  ASSUME Init, NEW w \in Writer
  PROVE  RestoredOK(w)
BY DEF Init, RestoredOK

\* Whoever takes a step has begun, and is no longer out of the others' way.
LEMMA Begun ==
  ASSUME Typed, NEW w \in Writer, StepOf(w)
  PROVE  pc'[w] # "idle"
<1> USE DEF Typed, At, Goto, End, Fail, PC
<1>1. CASE PrepareInit(w) \/ BackUp(w) \/ AcquireLock(w) \/ LockFails(w)
  BY <1>1 DEF PrepareInit, BackUp, AcquireLock, LockFails
<1>2. CASE ResolveHead(w) \/ WriteFile(w) \/ WriteFails(w) \/ ReadBranch(w)
  BY <1>2 DEF ResolveHead, WriteFile, WriteFails, ReadBranch
<1>3. CASE RecordCandidate(w) \/ CasSucceeds(w) \/ CasFails(w) \/ Refresh(w)
  BY <1>3 DEF RecordCandidate, CasSucceeds, CasFails, Refresh
<1>4. CASE BodyFails(w) \/ Unlock(w) \/ InspectFails(w) \/ BuildCommit(w)
  BY <1>4 DEF BodyFails, Unlock, InspectFails, BuildCommit
<1>5. CASE RestoreOrDelete(w)
  BY <1>5 DEF RestoreOrDelete
<1>6. CASE RollbackEnds(w) \/ Crash(w)
  BY <1>6 DEF RollbackEnds, Crash
<1>7. CASE Inspect(w)
  BY <1>7, Inspecting
<1> QED
  BY <1>1, <1>2, <1>3, <1>4, <1>5, <1>6, <1>7 DEF StepOf, Step

\* Only an init that rolls back, or begins to, is concerned.
LEMMA RollingBack ==
  ASSUME Typed, NEW w \in Writer, StepOf(w), ~RestoreOrDelete(w), ~RollbackEnds(w)
  PROVE  /\ pc'[w] = "rollback" => cursor'[w] = 0
         /\ outcome'[w] # "failed"
<1> USE DEF Typed, StageOK, At, Goto, End, Fail, PC
<1>1. CASE PrepareInit(w) \/ BackUp(w) \/ AcquireLock(w) \/ LockFails(w)
  BY <1>1 DEF PrepareInit, BackUp, AcquireLock, LockFails
<1>2. CASE ResolveHead(w) \/ WriteFile(w) \/ WriteFails(w) \/ ReadBranch(w)
  BY <1>2 DEF ResolveHead, WriteFile, WriteFails, ReadBranch
<1>3. CASE RecordCandidate(w) \/ CasSucceeds(w) \/ CasFails(w) \/ Refresh(w)
  BY <1>3 DEF RecordCandidate, CasSucceeds, CasFails, Refresh
<1>4. CASE BodyFails(w) \/ InspectFails(w) \/ BuildCommit(w) \/ Crash(w)
  BY <1>4 DEF BodyFails, InspectFails, BuildCommit, Crash
<1>5. CASE Unlock(w)
  BY <1>5 DEF Unlock
<1>6. CASE Inspect(w)
  <2>1. cursor' = cursor /\ cursor[w] = 0 /\ outcome[w] = "none"
    BY <1>6, Inspecting
  <2>2. outcome' = outcome \/ \E told \in {"cancelled", "ok", "conflict"} :
                                outcome' = [outcome EXCEPT ![w] = told]
    BY <1>6, Inspecting
  <2> QED
    BY <2>1, <2>2
<1> QED
  BY <1>1, <1>2, <1>3, <1>4, <1>5, <1>6 DEF StepOf, Step

\* A file that is put back, or removed again, is as the backup has it; what was put
\* back before stays so.
LEMMA RestoredOwn ==
  ASSUME Typed, NEW w \in Writer, StepOf(w), RestoredOK(w)
  PROVE  RestoredOK(w)'
<1>1. Alone(w)' <=> Alone(w)
  BY OthersKept DEF Alone, At
<1> USE DEF Typed, StageOK, RepoTypeOK, RestoredOK, At, Goto, End
<1>2. CASE ~RestoreOrDelete(w) /\ ~RollbackEnds(w)
  BY <1>2, RollingBack
<1>3. CASE RestoreOrDelete(w)
  <2>1. /\ pc[w] = "rollback" /\ outcome[w] = "none" /\ backup' = backup
        /\ cursor[w] \in 0..Len(Files) /\ cursor[w] < Len(Files)
    BY <1>3 DEF RestoreOrDelete, found
  <2>2. CASE UNCHANGED <<worktree, cursor>> /\ \E told \in {"cancelled", "unsafe"} : End(w, told)
    BY <2>1, <2>2
  <2>3. CASE /\ worktree' = [worktree EXCEPT ![Files[cursor[w] + 1]] =
                                             backup[w][Files[cursor[w] + 1]]]
             /\ cursor' = [cursor EXCEPT ![w] = @ + 1]
             /\ UNCHANGED <<pc, outcome>>
    <3>1. ASSUME Alone(w), NEW i \in 1..cursor'[w]
          PROVE  Files[i] \in EditedPath \/ worktree'[Files[i]] = backup[w][Files[i]]
      <4>1. Files[i] \in Path /\ cursor'[w] = cursor[w] + 1
        BY <2>1, <2>3, PathsTyped
      <4>2. CASE Files[i] = Files[cursor[w] + 1]
        BY <2>3, <4>1, <4>2
      <4>3. CASE Files[i] # Files[cursor[w] + 1]
        <5>1. i \in 1..cursor[w]
          BY <2>1, <4>1, <4>3, PathsTyped
        <5> QED
          BY <2>1, <2>3, <3>1, <4>1, <4>3, <5>1
      <4> QED
        BY <4>2, <4>3
    <3> QED
      BY <1>1, <2>1, <2>3, <3>1
  <2> QED
    BY <1>3, <2>2, <2>3 DEF RestoreOrDelete
<1>4. CASE RollbackEnds(w)
  <2>1. /\ pc[w] = "rollback" /\ cursor[w] = Len(Files) /\ outcome[w] = "none"
        /\ UNCHANGED <<worktree, backup, cursor>> /\ pc' = [pc EXCEPT ![w] = "done"]
    BY <1>4 DEF RollbackEnds, repoVars, found
  <2> QED
    BY <1>1, <2>1
<1> QED
  BY <1>2, <1>3, <1>4

\* The fourth layer is kept: another init would end its being alone, and outsiders edit
\* no other paths than theirs.
LEMMA RestoredNext ==
  ASSUME Typed, \A w \in Writer : RestoredOK(w), Next
  PROVE  \A w \in Writer : RestoredOK(w)'
<1>1. ASSUME NEW w \in Writer, StepOf(w), NEW v \in Writer PROVE RestoredOK(v)'
  <2>1. CASE v = w
    BY <1>1, <2>1, RestoredOwn
  <2>2. CASE v # w
    <3>1. pc'[w] # "idle"
      BY <1>1, Begun
    <3> QED
      BY <2>2, <3>1 DEF RestoredOK, Alone, At
  <2> QED
    BY <2>1, <2>2
<1>2. ASSUME OutsideStep, NEW w \in Writer PROVE RestoredOK(w)'
  <2>1. UNCHANGED <<pc, cursor, outcome, backup>>
    BY <1>2 DEF OutsideStep, txnVars, found
  <2>2. \A p \in Path \ EditedPath : worktree'[p] = worktree[p]
    BY <1>2 DEF OutsideStep, Outside, ExternalCommit, SwitchHead, Edit, Stage, Typed, RepoTypeOK
  <2>3. \A i \in 1..cursor[w] : Files[i] \in Path
    BY PathsTyped DEF Typed
  <2> QED
    BY <2>1, <2>2, <2>3 DEF RestoredOK, Alone, At
<1> QED
  BY <1>1, <1>2 DEF Next, StepOf

(***************************************************************************)
(* The theorems.                                                           *)
(***************************************************************************)

\* Every step keeps the whole of the invariant.
LEMMA InvNext ==
  ASSUME IInv, [Next]_vars
  PROVE  IInv'
<1>1. CASE UNCHANGED vars
  <2>1. UNCHANGED <<inside, pc, expected, backup, written, branchRef, candidate, built, failure,
                    cursor, outcome, head, tip, commits, worktree, index, everTip>>
    BY <1>1 DEF vars, repoVars, txnVars, found, made
  <2>2. Typed'
    BY <2>1 DEF IInv, Typed, RepoTypeOK, StageOK
  <2>3. History'
    BY <2>1 DEF IInv, History, CommitsOK, BuiltOK, OnBranch, PastOf
  <2>4. \A w \in Writer : AnswerOK(w)'
    BY <2>1 DEF IInv, AnswerOK, Published, Reachable, OnBranch, PastOf
  <2>5. \A w \in Writer : RestoredOK(w)'
    BY <2>1 DEF IInv, RestoredOK, Alone, At
  <2> QED
    BY <2>2, <2>3, <2>4, <2>5 DEF IInv
<1>2. CASE Next
  <2>1. Typed'
    BY <1>2, TypedStep, TypedOutside DEF IInv, Next, StepOf
  <2>2. History'
    BY <1>2, HistoryQuiet, HistoryBuild, HistoryOutside DEF IInv, Next, StepOf
  <2>3. \A w \in Writer : AnswerOK(w)'
    BY <1>2, AnswerNext DEF IInv
  <2>4. \A w \in Writer : RestoredOK(w)'
    BY <1>2, RestoredNext DEF IInv
  <2> QED
    BY <2>1, <2>2, <2>3, <2>4 DEF IInv
<1> QED
  BY <1>1, <1>2

\* Types, the history, what the stages say of the branch and what a rollback has put
\* back, for any number of inits, files, branches and commits.
THEOREM Invariance == Spec => []IInv
<1>1. Init => IInv
  BY TypedInit, HistoryInit, AnswerInit, RestoredInit DEF IInv
<1>2. IInv /\ [Next]_vars => IInv'
  BY InvNext
<1> QED
  BY <1>1, <1>2, PTL DEF Spec

\* An init that is told it succeeded is published on top of what it was prepared for,
\* and files are rolled back, and an ordinary failure told, only when it is not.
THEOREM OutcomesTrue == Spec => []OutcomesAreTrue
<1>1. IInv => OutcomesAreTrue
  <2> SUFFICES ASSUME IInv PROVE TypeOK /\ OutcomeIsTrue
    BY DEF OutcomesAreTrue
  <2>1. TypeOK
    <3>1. \A w \in inside : pc[w] \in Locked
      BY DEF IInv, Typed, RepoTypeOK, StageOK
    <3>2. 0..Len(commits) \subseteq 0..MaxCommit
      BY RepoAssumption DEF IInv, Typed, RepoTypeOK, RepoConstants
    <3>3. \A w \in Writer : backup[w] # None => backup[w] \in [Path -> Content]
      BY DEF IInv, Typed
    <3> QED
      BY <3>1, <3>2, <3>3 DEF IInv, Typed, StageOK, TypeOK, Locked
  <2>2. OutcomeIsTrue
    BY DEF IInv, AnswerOK, History, BuiltOK, OutcomeIsTrue, At, Published
  <2> QED
    BY <2>1, <2>2
<1> QED
  BY <1>1, Invariance, PTL

\* An init that fails, and that no other init interferes with, leaves every file as it
\* found it, but for those people edit.
THEOREM FailuresRestored == Spec => []FailureRestores
<1>1. IInv => FailureRestores
  <2> SUFFICES ASSUME IInv, NEW w \in Writer, outcome[w] = "failed", Alone(w),
                      NEW p \in Owned \ EditedPath
               PROVE  worktree[p] = backup[w][p]
    BY DEF FailureRestores
  <2>1. PICK i \in 1..Len(Files) : p = Files[i]
    BY FilesAssumption DEF Owned
  <2>2. cursor[w] = Len(Files)
    BY DEF IInv, RestoredOK
  <2> QED
    BY <2>1, <2>2 DEF IInv, RestoredOK
<1> QED
  BY <1>1, Invariance, PTL
=============================================================================
