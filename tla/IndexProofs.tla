------------------------------ MODULE IndexProofs ------------------------------
(***************************************************************************)
(* Proofs about an index database: how its file is published               *)
(* (Publication.tla), for any number of publishers of one target, in       *)
(* threads or processes that may die at any step, and for any limit of the *)
(* restore attempts; and how the vector table in it is stored (Vec0.tla),  *)
(* for any values of its columns, any chunk size that is a whole number of *)
(* bytes, and any number of rows, chunks, statements and failed writes.    *)
(*                                                                         *)
(* The inductive invariant of the publication has three parts: what each   *)
(* path holds at each stage (FilesOK), which publisher still holds the     *)
(* last copy of a database (KeptOK), and what a publisher has recorded for *)
(* its report (ToldOK, ReportOK and Standing).                             *)
(*                                                                         *)
(* That of the vector table (StorageInv) compares the shadow tables with   *)
(* those the statement at work began with: they differ at one row and one  *)
(* position (ElsewhereKept), there in just what its steps have written so  *)
(* far (InsertOK, DeleteOK, UpdateOK), and where no statement is at work   *)
(* they agree with one another (Agree).                                    *)
(***************************************************************************)
EXTENDS Publication, Vec0, WellFoundedInduction, TLAPS

\* The stages at which a publisher has not reserved a backup; those after which
\* it does not sweep the backup any more without looking at the target.
Unreserved == {"idle", "build", "refresh", "observe", "reserve", "install"}
Keeping == {"replace", "reobserve", "reconcile", "retain", "done", "dead"}

\* What the paths of a publisher hold at its stage.  An install starts from a
\* finished candidate; a backup that may be restored is a finished database.
OwnOK(p) ==
  /\ pc[p] \in {"idle", "build", "refresh", "observe"} => ~existed[p]
  /\ pc[p] \in {"build", "refresh"} => Exists(candidate[p])
  /\ pc[p] \in {"observe", "reserve", "unreserve", "install", "replace"} => Whole(candidate[p])
  /\ pc[p] \in Unreserved => backup[p] = None
  /\ pc[p] = "replace" => Exists(backup[p])
  /\ (pc[p] \in {"replace", "reobserve", "reconcile", "retain"} /\ Exists(backup[p])) =>
       Whole(backup[p]) /\ p \in Replacing /\ existed[p]
  /\ sidecar[p] => pc[p] \in {"sweep", "done", "dead"}

FilesOK == (Exists(target) => Whole(target)) /\ \A p \in Publisher : OwnOK(p)

\* A database that is not under the target's name is in the backup of a publisher
\* that will not sweep it.
KeptOK ==
  (\E p \in Publisher : existed[p]) =>
    \/ Whole(target)
    \/ \E p \in Publisher : pc[p] \in Keeping /\ Whole(backup[p])

\* What a publisher has recorded of failures and of its install.
ToldOK(p) ==
  /\ pc[p] = "reobserve" => Exists(candidate[p]) \/ p \in installed
  /\ pc[p] = "reconcile" => problem[p] \/ cancelled[p]
  /\ pc[p] = "sweep" => problem[p] \/ cancelled[p] \/ p \in installed
  /\ outcome[p] # "none" => pc[p] = "done"

\* The parts of ReportIsTrue about a publisher's own files.
Litter(p) == Exists(candidate[p]) \/ Exists(backup[p]) \/ sidecar[p]
ReportOK(p) ==
  pc[p] = "done" =>
    /\ outcome[p] = "succeeded" => p \in installed /\ ~Litter(p)
    /\ Litter(p) => outcome[p] \in {"failstop", "cancelled"} \/ p \in stuck

\* Where a publisher that found a target, and that no other disturbs, may rely on it:
\* always, if its install is a rename; else unless it has moved the target away itself.
Standing(p) ==
  (/\ existed[p] /\ Undisturbed(p)
   /\ \/ p \notin Replacing
      \/ pc[p] \in {"reserve", "unreserve", "install", "sweep"}
      \/ outcome[p] \in {"succeeded", "failed"}) => Whole(target)

\* A database is a file, whole or not; the one that was there is whole.
LEMMA Typed ==
  ASSUME PublicationConstants, Init
  PROVE  TypeOK
<1>1. [by |-> Old, whole |-> TRUE] \in File
  BY DEF File
<1>2. target \in Place /\ None \in Place
  BY <1>1 DEF Init, Place
<1> QED
  BY <1>2 DEF PublicationConstants, Init, TypeOK, PC

\* What a failure records has its type, and is the publisher's own.
LEMMA Recorded ==
  ASSUME TypeOK, NEW p \in Publisher, NoFailure \/ Failure(p)
  PROVE  /\ problem' \in [Publisher -> BOOLEAN] /\ cancelled' \in [Publisher -> BOOLEAN]
         /\ \A q \in Publisher \ {p} : problem'[q] = problem[q] /\ cancelled'[q] = cancelled[q]
         /\ problem[p] => problem'[p]
         /\ cancelled[p] => cancelled'[p]
         /\ ~NoFailure => problem'[p] \/ cancelled'[p]
BY DEF TypeOK, NoFailure, Failure

\* Every step of a publisher keeps the types.
LEMMA TypedStep ==
  ASSUME PublicationConstants, TypeOK, FilesOK, NEW p \in Publisher, Step(p) \/ Crash(p)
  PROVE  TypeOK'
<1> USE DEF TypeOK, PC, Goto, files
<1>files. None \in Place /\ [by |-> p, whole |-> FALSE] \in Place
  BY DEF Place, File
<1>failures. NoFailure \/ Failure(p) =>
                  /\ problem' \in [Publisher -> BOOLEAN]
                  /\ cancelled' \in [Publisher -> BOOLEAN]
  BY Recorded
<1>report. ASSUME NEW failStop \in BOOLEAN, Finish(p, failStop)
           PROVE  /\ pc' \in [Publisher -> PC]
                  /\ outcome' \in [Publisher -> {"none", "succeeded", "failed", "failstop", "cancelled"}]
  BY <1>report DEF Finish
<1>1. CASE Create(p)
  <2>1. candidate' \in [Publisher -> Place]
    BY <1>1, <1>files DEF Create
  <2>2. pc' \in [Publisher -> PC]
    BY <1>1 DEF Create
  <2> QED
    BY <1>1, <1>failures, <2>1, <2>2 DEF Create
<1>2. CASE Build(p)
  BY <1>2, <1>failures DEF Build
<1>3. CASE Refresh(p)
  <2>1. CASE candidate' = [candidate EXCEPT ![p].whole = TRUE]
    <3>1. candidate[p] \in File
      BY <1>3 DEF Refresh, FilesOK, OwnOK, Exists, Place
    <3>2. [candidate[p] EXCEPT !.whole = TRUE] \in Place
      BY <3>1 DEF Place, File
    <3> QED
      BY <1>3, <1>failures, <2>1, <3>2 DEF Refresh
  <2>2. CASE UNCHANGED candidate
    BY <1>3, <1>failures, <2>2 DEF Refresh
  <2> QED
    BY <1>3, <2>1, <2>2 DEF Refresh
<1>4. CASE Observe(p)
  BY <1>4, <1>failures DEF Observe, Exists
<1>5. CASE Reserve(p)
  <2>1. PICK left \in Place : backup' = [backup EXCEPT ![p] = left]
    BY <1>5, <1>files DEF Reserve
  <2>2. pc' \in [Publisher -> PC]
    BY <1>5 DEF Reserve
  <2> QED
    BY <1>5, <1>failures, <2>1, <2>2 DEF Reserve
<1>6. CASE Unreserve(p)
  BY <1>6, <1>files, <1>failures DEF Unreserve
<1>7. CASE Install(p)
  BY <1>7, <1>files, <1>failures DEF Install, MoveIn, InstallFails
<1>8. CASE Replace(p)
  BY <1>8, <1>files, <1>failures DEF Replace, MoveIn, InstallFails
<1>9. CASE Reobserve(p)
  BY <1>9 DEF Reobserve, NoFailure
<1>10. CASE Restore(p)
  <2>1. restores' \in [Publisher -> 0..MaximumRestores]
    BY <1>10 DEF Restore, PublicationConstants
  <2> QED
    BY <1>10, <1>files, <1>failures, <2>1 DEF Restore, MoveBack
<1>11. CASE EndRestore(p)
  BY <1>11, <1>failures DEF EndRestore
<1>12. CASE Sweep(p)
  <2>1. candidate' \in [Publisher -> Place] /\ backup' \in [Publisher -> Place]
    BY <1>12, <1>files DEF Sweep
  <2>2. sidecar' \in [Publisher -> BOOLEAN]
    BY <1>12 DEF Sweep
  <2>3. NoFailure \/ Failure(p)
    BY <1>12 DEF Sweep, Removals
  <2>4. stuck' \in SUBSET Publisher
    BY <1>12 DEF Sweep, Removals
  <2> QED
    BY <1>12, <1>failures, <1>report, <2>1, <2>2, <2>3, <2>4 DEF Sweep
<1>13. CASE Retain(p)
  <2>1. candidate' \in [Publisher -> Place] /\ backup' \in [Publisher -> Place]
    BY <1>13, <1>files DEF Retain
  <2>2. sidecar' \in [Publisher -> BOOLEAN]
    BY <1>13 DEF Retain
  <2>3. NoFailure \/ Failure(p)
    BY <1>13 DEF Retain, Removals
  <2>4. stuck' \in SUBSET Publisher
    BY <1>13 DEF Retain, Removals
  <2> QED
    BY <1>13, <1>failures, <1>report, <2>1, <2>2, <2>3, <2>4 DEF Retain
<1>14. CASE Crash(p)
  BY <1>14 DEF Crash
<1> QED
  BY <1>1, <1>2, <1>3, <1>4, <1>5, <1>6, <1>7,
     <1>8, <1>9, <1>10, <1>11, <1>12, <1>13, <1>14 DEF Step

\* A step of one publisher touches nothing of another.
LEMMA OthersKept ==
  ASSUME TypeOK, NEW p \in Publisher, Step(p) \/ Crash(p), NEW q \in Publisher \ {p}
  PROVE  /\ candidate'[q] = candidate[q] /\ sidecar'[q] = sidecar[q] /\ backup'[q] = backup[q]
         /\ pc'[q] = pc[q] /\ existed'[q] = existed[q] /\ outcome'[q] = outcome[q]
         /\ problem'[q] = problem[q] /\ cancelled'[q] = cancelled[q]
         /\ (q \in installed' <=> q \in installed) /\ (q \in stuck' <=> q \in stuck)
<1> USE DEF TypeOK, Goto, NoFailure, Failure, files, MoveIn, InstallFails, MoveBack, Finish,
            Removals
<1>1. CASE Create(p)
  BY <1>1 DEF Create
<1>2. CASE Build(p)
  BY <1>2 DEF Build
<1>3. CASE Refresh(p)
  BY <1>3 DEF Refresh
<1>4. CASE Observe(p)
  BY <1>4 DEF Observe
<1>5. CASE Reserve(p)
  BY <1>5 DEF Reserve
<1>6. CASE Unreserve(p)
  BY <1>6 DEF Unreserve
<1>7. CASE Install(p)
  BY <1>7 DEF Install
<1>8. CASE Replace(p)
  BY <1>8 DEF Replace
<1>9. CASE Reobserve(p)
  BY <1>9 DEF Reobserve
<1>10. CASE Restore(p)
  BY <1>10 DEF Restore
<1>11. CASE EndRestore(p)
  BY <1>11 DEF EndRestore
<1>12. CASE Sweep(p)
  BY <1>12 DEF Sweep
<1>13. CASE Retain(p)
  BY <1>13 DEF Retain
<1>14. CASE Crash(p)
  BY <1>14 DEF Crash
<1> QED
  BY <1>1, <1>2, <1>3, <1>4, <1>5, <1>6, <1>7,
     <1>8, <1>9, <1>10, <1>11, <1>12, <1>13, <1>14 DEF Step

\* The target's name changes to a finished database, or goes away in the first half
\* of an install that goes through the backup path.
LEMMA TargetStep ==
  ASSUME PublicationConstants, TypeOK, FilesOK, NEW p \in Publisher, Step(p) \/ Crash(p)
  PROVE  \/ target' = target
         \/ Whole(target')
         \/ /\ p \in Replacing /\ pc'[p] = "replace"
            /\ backup'[p] = target /\ Exists(target) /\ target' = None
<1> USE DEF TypeOK, FilesOK, OwnOK, Goto, files, Whole, Exists
<1>1. CASE Create(p)
  BY <1>1 DEF Create
<1>2. CASE Build(p)
  BY <1>2 DEF Build
<1>3. CASE Refresh(p)
  BY <1>3 DEF Refresh
<1>4. CASE Observe(p)
  BY <1>4 DEF Observe
<1>5. CASE Reserve(p)
  BY <1>5 DEF Reserve
<1>6. CASE Unreserve(p)
  BY <1>6 DEF Unreserve
<1>7. CASE Install(p)
  BY <1>7 DEF Install, MoveIn, InstallFails
<1>8. CASE Replace(p)
  BY <1>8 DEF Replace, MoveIn, InstallFails
<1>9. CASE Reobserve(p)
  BY <1>9 DEF Reobserve
<1>10. CASE Restore(p)
  BY <1>10 DEF Restore, MoveBack
<1>11. CASE EndRestore(p)
  BY <1>11 DEF EndRestore
<1>12. CASE Sweep(p)
  BY <1>12 DEF Sweep
<1>13. CASE Retain(p)
  BY <1>13 DEF Retain
<1>14. CASE Crash(p)
  BY <1>14 DEF Crash
<1> QED
  BY <1>1, <1>2, <1>3, <1>4, <1>5, <1>6, <1>7,
     <1>8, <1>9, <1>10, <1>11, <1>12, <1>13, <1>14 DEF Step

\* A publisher's own files stay what its stage says they are.
LEMMA OwnStep ==
  ASSUME PublicationConstants, TypeOK, FilesOK, NEW p \in Publisher, Step(p) \/ Crash(p)
  PROVE  OwnOK(p)'
<1> USE DEF TypeOK, FilesOK, OwnOK, Unreserved, Goto, files, Whole, Exists, MoveIn, InstallFails,
            MoveBack, Finish
<1>1. CASE Create(p)
  <2>1. [by |-> p, whole |-> FALSE] \in File
    BY DEF File
  <2>2. [by |-> p, whole |-> FALSE] # None
    BY <2>1 DEF PublicationConstants
  <2> QED
    BY <1>1, <2>2 DEF Create
<1>2. CASE Build(p)
  BY <1>2 DEF Build
<1>3. CASE Refresh(p)
  <2>1. CASE candidate' = [candidate EXCEPT ![p].whole = TRUE]
    <3>1. candidate[p] \in File
      BY <1>3 DEF Refresh, Place
    <3>2. candidate'[p] \in File /\ candidate'[p].whole
      BY <2>1, <3>1 DEF File
    <3>3. Whole(candidate'[p])
      BY <3>2 DEF PublicationConstants
    <3> QED
      BY <1>3, <3>3 DEF Refresh
  <2>2. CASE pc' = [pc EXCEPT ![p] = "sweep"]
    BY <1>3, <2>2 DEF Refresh
  <2> QED
    BY <1>3, <2>1, <2>2 DEF Refresh
<1>4. CASE Observe(p)
  BY <1>4 DEF Observe
<1>5. CASE Reserve(p)
  BY <1>5 DEF Reserve
<1>6. CASE Unreserve(p)
  BY <1>6 DEF Unreserve
<1>7. CASE Install(p)
  BY <1>7 DEF Install
<1>8. CASE Replace(p)
  BY <1>8 DEF Replace
<1>9. CASE Reobserve(p)
  BY <1>9 DEF Reobserve
<1>10. CASE Restore(p)
  BY <1>10 DEF Restore
<1>11. CASE EndRestore(p)
  BY <1>11 DEF EndRestore
<1>12. CASE Sweep(p)
  BY <1>12 DEF Sweep
<1>13. CASE Retain(p)
  BY <1>13 DEF Retain
<1>14. CASE Crash(p)
  BY <1>14 DEF Crash
<1> QED
  BY <1>1, <1>2, <1>3, <1>4, <1>5, <1>6, <1>7,
     <1>8, <1>9, <1>10, <1>11, <1>12, <1>13, <1>14 DEF Step

\* Every step of a publisher keeps the account of the files.
LEMMA FilesStep ==
  ASSUME PublicationConstants, TypeOK, FilesOK, NEW p \in Publisher, Step(p) \/ Crash(p)
  PROVE  FilesOK'
<1>1. Exists(target') => Whole(target')
  <2>1. CASE target' = target
    BY <2>1 DEF FilesOK
  <2>2. CASE target' = None
    BY <2>2 DEF Exists
  <2> QED
    BY <2>1, <2>2, TargetStep
<1>2. \A q \in Publisher \ {p} : OwnOK(q)'
  BY OthersKept DEF FilesOK, OwnOK
<1> QED
  BY <1>1, <1>2, OwnStep DEF FilesOK

\* A copy that is kept is given up only when the target is a database.
LEMMA GivenUp ==
  ASSUME PublicationConstants, TypeOK, FilesOK, NEW p \in Publisher, Step(p) \/ Crash(p),
         pc[p] \in Keeping, Whole(backup[p])
  PROVE  (pc'[p] \in Keeping /\ Whole(backup'[p])) \/ Whole(target')
<1> USE DEF TypeOK, FilesOK, OwnOK, Keeping, Goto, files, Whole, Exists, MoveIn, InstallFails,
            MoveBack, Finish, InstallationProven
<1>1. CASE Create(p)
  BY <1>1 DEF Create
<1>2. CASE Build(p)
  BY <1>2 DEF Build
<1>3. CASE Refresh(p)
  BY <1>3 DEF Refresh
<1>4. CASE Observe(p)
  BY <1>4 DEF Observe
<1>5. CASE Reserve(p)
  BY <1>5 DEF Reserve
<1>6. CASE Unreserve(p)
  BY <1>6 DEF Unreserve
<1>7. CASE Install(p)
  BY <1>7 DEF Install
<1>8. CASE Replace(p)
  BY <1>8 DEF Replace
<1>9. CASE Reobserve(p)
  BY <1>9 DEF Reobserve
<1>10. CASE Restore(p)
  BY <1>10 DEF Restore
<1>11. CASE EndRestore(p)
  BY <1>11 DEF EndRestore
<1>12. CASE Sweep(p)
  BY <1>12 DEF Sweep
<1>13. CASE Retain(p)
  BY <1>13 DEF Retain
<1>14. CASE Crash(p)
  BY <1>14 DEF Crash
<1> QED
  BY <1>1, <1>2, <1>3, <1>4, <1>5, <1>6, <1>7,
     <1>8, <1>9, <1>10, <1>11, <1>12, <1>13, <1>14 DEF Step

\* A publisher finds a target only where there is one.
LEMMA Found ==
  ASSUME PublicationConstants, TypeOK, FilesOK, NEW p \in Publisher, Step(p) \/ Crash(p)
  PROVE  existed'[p] => existed[p] \/ Whole(target')
<1> USE DEF TypeOK, FilesOK, Goto, files, Whole, Exists
<1>1. CASE Create(p)
  BY <1>1 DEF Create
<1>2. CASE Build(p)
  BY <1>2 DEF Build
<1>3. CASE Refresh(p)
  BY <1>3 DEF Refresh
<1>4. CASE Observe(p)
  BY <1>4 DEF Observe
<1>5. CASE Reserve(p)
  BY <1>5 DEF Reserve
<1>6. CASE Unreserve(p)
  BY <1>6 DEF Unreserve
<1>7. CASE Install(p)
  BY <1>7 DEF Install
<1>8. CASE Replace(p)
  BY <1>8 DEF Replace
<1>9. CASE Reobserve(p)
  BY <1>9 DEF Reobserve
<1>10. CASE Restore(p)
  BY <1>10 DEF Restore
<1>11. CASE EndRestore(p)
  BY <1>11 DEF EndRestore
<1>12. CASE Sweep(p)
  BY <1>12 DEF Sweep
<1>13. CASE Retain(p)
  BY <1>13 DEF Retain
<1>14. CASE Crash(p)
  BY <1>14 DEF Crash
<1> QED
  BY <1>1, <1>2, <1>3, <1>4, <1>5, <1>6, <1>7,
     <1>8, <1>9, <1>10, <1>11, <1>12, <1>13, <1>14 DEF Step

\* Every step keeps a copy of the database.
LEMMA KeptStep ==
  ASSUME PublicationConstants, TypeOK, FilesOK, KeptOK, NEW p \in Publisher, Step(p) \/ Crash(p)
  PROVE  KeptOK'
<1>1. (\E q \in Publisher : existed'[q]) => (\E q \in Publisher : existed[q]) \/ Whole(target')
  BY Found, OthersKept
<1>2. CASE Whole(target)
  <2>1. CASE target' = target
    BY <1>2, <2>1 DEF KeptOK
  <2>2. CASE p \in Replacing /\ pc'[p] = "replace" /\ backup'[p] = target
    BY <1>2, <2>2 DEF KeptOK, Keeping
  <2> QED
    BY <2>1, <2>2, TargetStep DEF KeptOK
<1>3. ASSUME NEW q \in Publisher, pc[q] \in Keeping, Whole(backup[q]) PROVE KeptOK'
  <2>1. CASE q = p
    BY <1>3, <2>1, GivenUp DEF KeptOK
  <2>2. CASE q # p
    BY <1>3, <2>2, OthersKept DEF KeptOK
  <2> QED
    BY <2>1, <2>2
<1> QED
  BY <1>1, <1>2, <1>3 DEF KeptOK

\* What a publisher records leads to a true report of its own files.
LEMMA ToldStep ==
  ASSUME PublicationConstants, TypeOK, FilesOK, NEW p \in Publisher, Step(p) \/ Crash(p), ToldOK(p)
  PROVE  ToldOK(p)'
<1> USE DEF TypeOK, ToldOK, Goto, NoFailure, Failure, files, MoveIn, InstallFails, MoveBack, Finish,
            InstallationProven, Exists
<1>1. CASE Create(p)
  BY <1>1 DEF Create
<1>2. CASE Build(p)
  BY <1>2 DEF Build
<1>3. CASE Refresh(p)
  BY <1>3 DEF Refresh
<1>4. CASE Observe(p)
  BY <1>4 DEF Observe
<1>5. CASE Reserve(p)
  BY <1>5 DEF Reserve
<1>6. CASE Unreserve(p)
  BY <1>6 DEF Unreserve
<1>7. CASE Install(p)
  BY <1>7 DEF Install, FilesOK, OwnOK, Whole
<1>8. CASE Replace(p)
  BY <1>8 DEF Replace, FilesOK, OwnOK, Whole
<1>9. CASE Reobserve(p)
  BY <1>9 DEF Reobserve
<1>10. CASE Restore(p)
  BY <1>10 DEF Restore
<1>11. CASE EndRestore(p)
  BY <1>11 DEF EndRestore
<1>12. CASE Sweep(p)
  BY <1>12 DEF Sweep
<1>13. CASE Retain(p)
  BY <1>13 DEF Retain
<1>14. CASE Crash(p)
  BY <1>14 DEF Crash
<1> QED
  BY <1>1, <1>2, <1>3, <1>4, <1>5, <1>6, <1>7,
     <1>8, <1>9, <1>10, <1>11, <1>12, <1>13, <1>14 DEF Step

\* The report, when it is made.
LEMMA ReportStep ==
  ASSUME PublicationConstants, TypeOK, NEW p \in Publisher, Step(p) \/ Crash(p),
         ToldOK(p), ReportOK(p)
  PROVE  ReportOK(p)'
<1> USE DEF TypeOK, ReportOK, Litter, Goto, files, MoveIn, InstallFails, MoveBack, Exists
<1>1. CASE Create(p)
  BY <1>1 DEF Create
<1>2. CASE Build(p)
  BY <1>2 DEF Build
<1>3. CASE Refresh(p)
  BY <1>3 DEF Refresh
<1>4. CASE Observe(p)
  BY <1>4 DEF Observe
<1>5. CASE Reserve(p)
  BY <1>5 DEF Reserve
<1>6. CASE Unreserve(p)
  BY <1>6 DEF Unreserve
<1>7. CASE Install(p)
  BY <1>7 DEF Install
<1>8. CASE Replace(p)
  BY <1>8 DEF Replace
<1>9. CASE Reobserve(p)
  BY <1>9 DEF Reobserve
<1>10. CASE Restore(p)
  BY <1>10 DEF Restore
<1>11. CASE EndRestore(p)
  BY <1>11 DEF EndRestore
<1>12. CASE Sweep(p)
  BY <1>12 DEF Sweep, Finish, Removals, ToldOK, NoFailure, Failure
<1>13. CASE Retain(p)
  BY <1>13 DEF Retain, Finish, Removals
<1>14. CASE Crash(p)
  BY <1>14 DEF Crash
<1> QED
  BY <1>1, <1>2, <1>3, <1>4, <1>5, <1>6, <1>7,
     <1>8, <1>9, <1>10, <1>11, <1>12, <1>13, <1>14 DEF Step

\* A target that was found stands while nobody else moves it away.
LEMMA StandingStep ==
  ASSUME PublicationConstants, TypeOK, FilesOK, NEW p \in Publisher,
         Step(p) \/ Crash(p), ToldOK(p), Standing(p)
  PROVE  Standing(p)'
<1> USE DEF TypeOK, FilesOK, OwnOK, ToldOK, Standing, Goto, files, Whole, Exists, MoveIn,
            InstallFails,
            MoveBack, Finish, InstallationProven
<1>u. Undisturbed(p)' <=> Undisturbed(p)
  BY OthersKept DEF Undisturbed, PublicationConstants
<1>1. CASE Create(p)
  BY <1>1, <1>u DEF Create
<1>2. CASE Build(p)
  BY <1>2, <1>u DEF Build
<1>3. CASE Refresh(p)
  BY <1>3, <1>u DEF Refresh
<1>4. CASE Observe(p)
  BY <1>4, <1>u DEF Observe
<1>5. CASE Reserve(p)
  BY <1>5, <1>u DEF Reserve
<1>6. CASE Unreserve(p)
  BY <1>6, <1>u DEF Unreserve
<1>7. CASE Install(p)
  BY <1>7, <1>u DEF Install
<1>8. CASE Replace(p)
  BY <1>8, <1>u DEF Replace
<1>9. CASE Reobserve(p)
  BY <1>9, <1>u DEF Reobserve
<1>10. CASE Restore(p)
  BY <1>10, <1>u DEF Restore
<1>11. CASE EndRestore(p)
  BY <1>11, <1>u DEF EndRestore
<1>12. CASE Sweep(p)
  BY <1>12, <1>u DEF Sweep
<1>13. CASE Retain(p)
  BY <1>13, <1>u DEF Retain
<1>14. CASE Crash(p)
  BY <1>14, <1>u DEF Crash
<1> QED
  BY <1>1, <1>2, <1>3, <1>4, <1>5, <1>6, <1>7,
     <1>8, <1>9, <1>10, <1>11, <1>12, <1>13, <1>14 DEF Step

\* Nobody is idle any more once it has taken a step.
LEMMA Begun ==
  ASSUME TypeOK, NEW p \in Publisher, Step(p) \/ Crash(p)
  PROVE  pc'[p] # "idle"
<1> USE DEF TypeOK, Goto, files, MoveIn, InstallFails, Finish
<1>1. CASE Create(p) \/ Build(p) \/ Refresh(p) \/ Observe(p) \/ Reserve(p) \/ Unreserve(p)
  BY <1>1 DEF Create, Build, Refresh, Observe, Reserve, Unreserve
<1>2. CASE Install(p) \/ Replace(p) \/ Reobserve(p)
  BY <1>2 DEF Install, Replace, Reobserve
<1>3. CASE Restore(p) \/ EndRestore(p) \/ Sweep(p) \/ Retain(p) \/ Crash(p)
  BY <1>3 DEF Restore, EndRestore, Sweep, Retain, Crash
<1> QED
  BY <1>1, <1>2, <1>3 DEF Step

\* The steps of others leave it there: nobody who disturbs has begun.
LEMMA StandingOthers ==
  ASSUME PublicationConstants, TypeOK, FilesOK, NEW p \in Publisher,
         Step(p) \/ Crash(p), NEW q \in Publisher \ {p}, Standing(q)
  PROVE  Standing(q)'
<1>1. SUFFICES ASSUME Undisturbed(q)' PROVE Standing(q)'
  BY DEF Standing
<1>2. p \notin Replacing
  BY <1>1, Begun DEF Undisturbed
<1>3. \A r \in Replacing : pc'[r] = pc[r]
  BY <1>2, OthersKept DEF PublicationConstants
<1>4. Undisturbed(q)
  BY <1>1, <1>3 DEF Undisturbed
<1>5. Whole(target) => Whole(target')
  BY <1>2, TargetStep
<1> QED
  BY <1>4, <1>5, OthersKept DEF Standing

\* In every reachable state: types, what each path holds, and the kept copy.
Sound == TypeOK /\ FilesOK /\ KeptOK

\* At the start no publisher has a file.
LEMMA SoundInit ==
  ASSUME PublicationConstants, Init
  PROVE  Sound
<1>1. TypeOK
  BY Typed
<1>2. FilesOK /\ KeptOK
  BY DEF Init, FilesOK, OwnOK, KeptOK, Unreserved, Exists, Whole
<1> QED
  BY <1>1, <1>2 DEF Sound

\* Every step of every publisher, and a crash, keeps it.
LEMMA SoundNext ==
  ASSUME PublicationConstants, Sound, [Next]_vars
  PROVE  Sound'
<1>1. CASE UNCHANGED vars
  BY <1>1 DEF Sound, TypeOK, FilesOK, OwnOK, KeptOK, vars
<1>2. ASSUME NEW p \in Publisher, Step(p) \/ Crash(p) PROVE Sound'
  BY <1>2, TypedStep, FilesStep, KeptStep DEF Sound
<1> QED
  BY <1>1, <1>2 DEF Next

\* In every reachable state the paths hold what the stages say: an install starts from
\* a finished candidate, whatever is under the target's name is a finished database,
\* and a backup that may be restored is one.
THEOREM Soundness ==
  ASSUME PublicationConstants
  PROVE  Spec => []Sound
<1>1. Init => Sound
  BY SoundInit
<1>2. Sound /\ [Next]_vars => Sound'
  BY SoundNext
<1> QED
  BY <1>1, <1>2, PTL DEF Spec

\* Once there was a database there always is one, under the target's name or in a
\* file a publisher keeps, for any number of publishers and in both install styles.
THEOREM Preserved ==
  ASSUME PublicationConstants
  PROVE  Spec => []NothingLost
<1>1. Sound => NothingLost
  <2>1. Sound => TypeOK
    BY DEF Sound
  <2>2. Sound => NothingLost!2
    BY DEF Sound, KeptOK
  <2> QED
    BY <2>1, <2>2 DEF NothingLost
<1> QED
  BY <1>1, Soundness, PTL

\* By the rename of the production dependencies the target goes in one step from
\* nothing, or a database, to a finished database, whatever the others do.
THEOREM Atomic ==
  ASSUME PublicationConstants
  PROVE  Spec => AtomicPublication
<1>1. Sound /\ [Next]_vars => [PublishesWhole]_vars
  <2> SUFFICES ASSUME Sound, NEW p \in Publisher, Step(p) \/ Crash(p), Renames
               PROVE  target' # target => Whole(target')
    BY DEF Next, PublishesWhole
  <2>1. p \notin Replacing
    BY OthersKept DEF Renames, Sound
  <2> QED
    BY <2>1, TargetStep DEF Sound
<1> QED
  BY <1>1, Soundness, PTL DEF Spec, AtomicPublication

\* The invariant the reports rest on.
Reporting == Sound /\ \A p \in Publisher : ToldOK(p) /\ ReportOK(p) /\ Standing(p)

\* Reports are true: success means the candidate became the target and left nothing
\* behind, success or an ordinary failure that the target is there if it was, and
\* only fail stop, a cancellation or a failed removal leave files.  The second of them
\* is about a publisher that no other disturbs: in a window between the two moves of
\* an install through the backup path, another has the target away while it reports.
THEOREM ReportsAreTrue ==
  ASSUME PublicationConstants
  PROVE  Spec => []ReportIsTrue
<1>1. Init => Reporting
  BY SoundInit DEF Init, Reporting, ToldOK, ReportOK, Standing
<1>2. Reporting /\ [Next]_vars => Reporting'
  <2>1. CASE UNCHANGED vars
    BY <2>1, SoundNext DEF Reporting, ToldOK, ReportOK, Litter, Standing, Undisturbed, vars
  <2>2. ASSUME Reporting, NEW p \in Publisher, Step(p) \/ Crash(p) PROVE Reporting'
    <3>1. Sound'
      BY <2>2, SoundNext DEF Reporting, Next
    <3>2. ToldOK(p)' /\ ReportOK(p)' /\ Standing(p)'
      BY <2>2, ToldStep, ReportStep, StandingStep DEF Reporting, Sound
    <3>3. ASSUME NEW q \in Publisher \ {p} PROVE ToldOK(q)' /\ ReportOK(q)' /\ Standing(q)'
      <4>1. ToldOK(q)' /\ ReportOK(q)'
        BY <2>2, OthersKept DEF Reporting, Sound, ToldOK, ReportOK, Litter
      <4>2. Standing(q)'
        BY <2>2, StandingOthers DEF Reporting, Sound
      <4> QED
        BY <4>1, <4>2
    <3> QED
      BY <3>1, <3>2, <3>3 DEF Reporting
  <2> QED
    BY <2>1, <2>2 DEF Next
<1>3. Reporting => ReportIsTrue
  BY DEF Reporting, Sound, TypeOK, ReportOK, Litter, Standing, ReportIsTrue
<1> QED
  BY <1>1, <1>2, <1>3, PTL DEF Spec
-----------------------------------------------------------------------------
(***************************************************************************)
(* The vector table.                                                       *)
(***************************************************************************)
Rowids == 1 .. MaxRowid
Value == NewRow \cup NewValues
Parts == {q.part : q \in NewRow}
Vectors == {Blank} \cup {q.vector : q \in Value}
Views == {Blank, Cut} \cup {q.text : q \in Value}
VectorChunk == [Offset -> Vectors]
ViewChunk == [Offset -> Views]
ChunkType == [part : Parts, validity : SUBSET Offset, rowids : [Offset -> 0 .. MaxRowid]]

\* The types of the shadow tables.
TablesType(d) ==
  /\ d = [rowids |-> d.rowids, lastRowid |-> d.lastRowid, chunks |-> d.chunks,
          vectors |-> d.vectors, views |-> d.views, texts |-> d.texts, aux |-> d.aux]
  /\ d.lastRowid \in 0 .. MaxRowid
  /\ \A r \in DOMAIN d.rowids : r \in Rowids /\ r <= d.lastRowid /\ d.rowids[r] \in Position
  /\ d.chunks \in Seq(ChunkType) /\ Len(d.chunks) <= MaxChunk
  /\ d.vectors \in Seq(VectorChunk) /\ d.views \in Seq(ViewChunk)
  /\ DOMAIN d.aux \subseteq Rowids /\ DOMAIN d.texts \subseteq Rowids

\* The steps of the statements.  Both INSERT and UPDATE write metadata.
Unplaced == {"insertRowid", "nextAvailable"}
Unset == {"newVectorChunk", "newMetadataChunk", "validity"}
InsertStep == Unplaced \cup Unset \cup {"vector", "chunkRowids", "position", "aux"}
Clearing == {"deleteRowids", "deleteAux", "clearView", "clearText"}
Updating == {"updateAux", "updateVector"}
TextStep == {"metadata", "text"}
Steps ==
  InsertStep \cup Clearing \cup Updating \cup TextStep
  \cup {"idle", "failed", "refuse", "clearValidity", "update"}

IsInsertion(q) ==
  /\ q.op = "insert" /\ q.key \in Id \cup {NoValue} \cup Rowids
  /\ q.part \in Parts /\ q.vector \in Vectors /\ q.text \in Views \ {Cut}
IsDeletion(q) == q.op = "delete" /\ q.row \in Rowids
IsRevision(q) ==
  /\ q.op = "update" /\ q.row \in Rowids
  /\ q.vector \in Vectors /\ q.text \in Views \ {Cut}

PlaceType == [rowid : 0 .. MaxRowid, chunk : 0 .. MaxChunk, offset : Offset, long : BOOLEAN]

\* The statement is one that has the step.
StatementOK ==
  /\ step \in Steps /\ stmt \in Statement \cup {Nothing} /\ (step = "idle" <=> stmt = Nothing)
  /\ step # "idle" => place \in PlaceType
  /\ step \in InsertStep => IsInsertion(stmt) /\ BadType \notin {stmt.part, stmt.vector}
  /\ step \in Clearing \cup {"clearValidity"} => IsDeletion(stmt)
  /\ step \in Updating \cup {"update"} => IsRevision(stmt)
  /\ step \in TextStep =>
       \/ IsRevision(stmt)
       \/ IsInsertion(stmt) /\ BadType \notin {stmt.part, stmt.vector}

StorageTyped ==
  /\ TablesType(db) /\ TablesType(saved) /\ TablesType(before)
  /\ open \in BOOLEAN /\ textKey \in BOOLEAN /\ told \in {"ok", "error"} /\ faults \in Nat
  /\ ~open => saved = EmptyTables

\* The keys of the rows.
KeysOK(d, isText) ==
  /\ isText => \A r \in DOMAIN d.rowids :
       d.rowids[r].id \in Id /\ RowidsOf(d, d.rowids[r].id) = {r}
  /\ ~isText => \A r \in DOMAIN d.rowids : d.rowids[r].id = NoValue

Agree(d) == RowsAgree(d) /\ KeysOK(d, textKey) /\ (faults = 0 => NoTextIsLeft(d))

\* A statement that works at a place leaves the other rows and positions as they were.
KeptRow(b, d, r) ==
  /\ r \in DOMAIN d.rowids <=> r \in DOMAIN b.rowids
  /\ r \in DOMAIN b.rowids => d.rowids[r] = b.rowids[r]
  /\ r \in DOMAIN d.aux <=> r \in DOMAIN b.aux
  /\ r \in DOMAIN b.aux => d.aux[r] = b.aux[r]
  /\ r \in DOMAIN d.texts <=> r \in DOMAIN b.texts
  /\ r \in DOMAIN b.texts => d.texts[r] = b.texts[r]
KeptPosition(b, d, c, o) ==
  /\ o \in d.chunks[c].validity <=> o \in b.chunks[c].validity
  /\ d.chunks[c].rowids[o] = b.chunks[c].rowids[o]
  /\ d.vectors[c][o] = b.vectors[c][o]
  /\ d.views[c][o] = b.views[c][o]
ElsewhereKept(b, d, p) ==
  /\ \A r \in Rowids \ {p.rowid} : KeptRow(b, d, r)
  /\ Len(b.chunks) <= Len(d.chunks)
  /\ \A c \in DOMAIN b.chunks :
       /\ d.chunks[c].part = b.chunks[c].part
       /\ \A o \in Offset : c # p.chunk \/ o # p.offset => KeptPosition(b, d, c, o)
  /\ \A c \in DOMAIN d.chunks \ DOMAIN b.chunks :
       c = p.chunk /\ d.chunks[c].validity \subseteq {p.offset}

\* The chunks have their vector chunks and metadata chunks, or are about to.
LengthsOK ==
  /\ step = "newVectorChunk" => Len(db.vectors) + 1 = Len(db.chunks)
  /\ step # "newVectorChunk" => Len(db.vectors) = Len(db.chunks)
  /\ step \in {"newVectorChunk", "newMetadataChunk"} => Len(db.views) + 1 = Len(db.chunks)
  /\ step \notin {"newVectorChunk", "newMetadataChunk"} => Len(db.views) = Len(db.chunks)

View == db.views[place.chunk][place.offset]
Placed(d) ==
  /\ place.rowid \in DOMAIN d.rowids
  /\ d.rowids[place.rowid].chunk = place.chunk /\ d.rowids[place.rowid].offset = place.offset

\* The new row has a key of its own.
NewRowOK ==
  /\ place.rowid \in DOMAIN db.rowids \ DOMAIN before.rowids
  /\ db.rowids[place.rowid].id = IF textKey THEN stmt.key ELSE NoValue
  /\ TypedKey(stmt.key, textKey)
  /\ textKey => RowidsOf(before, stmt.key) = {}
  /\ ~textKey /\ stmt.key # NoValue => place.rowid = stmt.key

\* The new position is free, and what it holds step by step.
NewPositionOK ==
  LET c == place.chunk  o == place.offset
  IN  /\ c \in DOMAIN db.chunks /\ db.chunks[c].part = stmt.part
      /\ c \in DOMAIN before.chunks => o \notin before.chunks[c].validity
      /\ step \in {"newVectorChunk", "newMetadataChunk"} =>
           c \notin DOMAIN before.chunks /\ c = Len(db.chunks)
      /\ step \in Unset => buffer = db.chunks[c].validity /\ o \notin buffer
      /\ step \notin Unset => o \in db.chunks[c].validity
      /\ step \in {"chunkRowids", "position", "aux"} \cup TextStep => db.vectors[c][o] = stmt.vector
      /\ step \in {"position", "aux"} \cup TextStep => db.chunks[c].rowids[o] = place.rowid
      /\ step \in {"aux"} \cup TextStep => Placed(db)

InsertOK ==
  /\ step = "insertRowid" =>
       db = before /\ (textKey \/ stmt.key = NoValue => db.lastRowid < MaxRowid)
  /\ step # "insertRowid" => NewRowOK
  /\ step = "nextAvailable" =>
       db.chunks = before.chunks /\ db.vectors = before.vectors /\ db.views = before.views
  /\ step \notin Unplaced => NewPositionOK
  /\ step \in TextStep =>
       place.rowid \in DOMAIN db.aux /\ db.aux[place.rowid] = stmt.aux /\ stmt.aux # BadType
  /\ step = "text" => stmt.text \notin {BadType, Null} /\ View = ViewOf(stmt.text)

DeleteOK ==
  /\ stmt.row \in DOMAIN before.rowids
  /\ step = "clearValidity" => db = before
  /\ step # "clearValidity" =>
       /\ place.rowid = stmt.row /\ Placed(before)
       /\ Len(db.chunks) = Len(before.chunks)
       /\ place.offset \notin db.chunks[place.chunk].validity
       /\ step # "deleteRowids" => place.rowid \notin DOMAIN db.rowids
       /\ step \in {"clearView", "clearText"} => place.rowid \notin DOMAIN db.aux
       /\ step # "clearText" => db.views = before.views
       /\ step = "clearText" =>
            (place.long <=> before.views[place.chunk][place.offset] = Cut)

NewText ==
  /\ stmt.text \notin {NoValue, BadType, Null} /\ View = ViewOf(stmt.text)
UpdateOK ==
  /\ stmt.row \in DOMAIN before.rowids
  /\ step = "update" => db = before
  /\ step # "update" =>
       /\ place.rowid = stmt.row /\ Placed(before)
       /\ stmt.part = NoValue
       /\ textKey => stmt.key \in {NoValue, before.rowids[place.rowid].id}
       /\ db.rowids = before.rowids /\ db.chunks = before.chunks /\ db.vectors = before.vectors
       /\ DOMAIN db.aux = DOMAIN before.aux
       /\ step = "updateAux" => db.aux = before.aux
       /\ step # "updateAux" =>
            db.aux[place.rowid] =
              IF stmt.aux = NoValue THEN before.aux[place.rowid] ELSE stmt.aux
       /\ step \in {"updateAux", "metadata"} => db.views = before.views
       /\ step = "metadata" => stmt.text # NoValue
       /\ step = "text" =>
            /\ NewText
            /\ place.long <=> before.views[place.chunk][place.offset] = Cut
       /\ step = "updateVector" =>
            \/ stmt.text = NoValue /\ db.views = before.views /\ db.texts = before.texts
            \/ /\ NewText
               /\ stmt.text \in Long =>
                    place.rowid \in DOMAIN db.texts /\ db.texts[place.rowid] = stmt.text
               /\ stmt.text \notin Long /\ faults = 0 => place.rowid \notin DOMAIN db.texts

Running ==
  /\ ElsewhereKept(before, db, place) /\ LengthsOK
  /\ step # "updateVector" => db.texts = before.texts
  /\ stmt.op = "insert" => InsertOK
  /\ stmt.op = "delete" => DeleteOK
  /\ stmt.op = "update" => UpdateOK

StorageInv ==
  /\ StatementOK /\ StorageTyped
  /\ Agree(before) /\ Agree(saved)
  /\ step = "idle" => Agree(db)
  /\ step = "refuse" => db = before
  /\ step \notin {"idle", "failed", "refuse"} => Running

-----------------------------------------------------------------------------
\* The statements have the values of their rows.
LEMMA StatementFields ==
  ASSUME VecConstants
  PROVE  /\ \A q \in NewRow :
              /\ IsInsertion(Insertion(q)) /\ Insertion(q) \in Statement
              /\ Insertion(q).part = q.part /\ Insertion(q).vector = q.vector
         /\ \A r \in Rowids :
              /\ IsDeletion(Deletion(r)) /\ Deletion(r) \in Statement /\ Deletion(r).row = r
         /\ \A q \in NewValues, r \in Rowids :
              IsRevision(Revision(r, q)) /\ Revision(r, q) \in Statement /\ Revision(r, q).row = r
<1>1. /\ \A q \in NewRow \cup NewValues : q.text # Cut
      /\ \A q \in NewRow : q.key \in Id \cup {NoValue} \cup 1 .. MaxRowid
  BY DEF VecConstants
<1>2. ASSUME NEW q \in NewRow
      PROVE  /\ IsInsertion(Insertion(q)) /\ Insertion(q).part = q.part
             /\ Insertion(q).vector = q.vector
  BY <1>1 DEF IsInsertion, Insertion, Asked, Parts, Vectors, Views, Value, Rowids
<1>3. ASSUME NEW r \in Rowids  PROVE IsDeletion(Deletion(r)) /\ Deletion(r).row = r
  BY DEF IsDeletion, Deletion
<1>4. ASSUME NEW q \in NewValues, NEW r \in Rowids
      PROVE  IsRevision(Revision(r, q)) /\ Revision(r, q).row = r
  BY <1>1 DEF IsRevision, Revision, Asked, Vectors, Views, Value
<1> QED
  BY <1>2, <1>3, <1>4 DEF Statement, Rowids

\* The empty tables are as they should be.
LEMMA EmptyTablesOK ==
  ASSUME VecConstants
  PROVE  TablesType(EmptyTables) /\ Agree(EmptyTables) /\ TableOf(EmptyTables) = <<>>
<1>1. /\ DOMAIN EmptyTables.rowids = {} /\ DOMAIN EmptyTables.chunks = {}
      /\ DOMAIN EmptyTables.aux = {} /\ DOMAIN EmptyTables.texts = {}
  BY DEF EmptyTables
<1>2. TablesType(EmptyTables)
  BY <1>1 DEF EmptyTables, TablesType, VecConstants
<1>3. RowsAgree(EmptyTables)
  BY <1>1 DEF EmptyTables, RowsAgree
<1>4. (\A isText : KeysOK(EmptyTables, isText)) /\ NoTextIsLeft(EmptyTables)
  BY <1>1 DEF KeysOK, NoTextIsLeft
<1>5. TableOf(EmptyTables) = <<>>
  BY <1>1 DEF TableOf
<1> QED
  BY <1>2, <1>3, <1>4, <1>5 DEF Agree

\* The least of a set of numbers.
LEMMA SomeLeast ==
  ASSUME NEW S \in SUBSET Nat, S # {}
  PROVE  \E x \in S : \A y \in S : x <= y
<1> DEFINE R == OpToRel(<, Nat)
<1>1. IsWellFoundedOn(R, Nat)
  BY NatLessThanWellFounded
<1>2. \A x, y \in Nat : x < y => <<x, y>> \in R
  BY DEF OpToRel
<1> HIDE DEF R
<1>3. PICK x \in S : \A y \in S : ~ (<<y, x>> \in R)
  BY <1>1, WFMin
<1>4. ASSUME NEW y \in S  PROVE x <= y
  <2>1. x \in Nat /\ y \in Nat
    OBVIOUS
  <2>2. ~ (y < x)
    BY <1>2, <1>3, <2>1
  <2> QED
    BY <2>1, <2>2
<1> QED
  BY <1>4

\* The least of a nonempty set of naturals.
LEMMA LeastIsThere ==
  ASSUME NEW S \in SUBSET Nat, S # {}
  PROVE  Min(S) \in S
BY SomeLeast DEF Min

\* The greatest of a bounded set of numbers.
LEMMA GreatestIsThere ==
  ASSUME NEW n \in Nat, NEW S \in SUBSET (1 .. n), S # {}
  PROVE  Max(S) \in S
<1> DEFINE T == {n - x : x \in S}
<1>1. ASSUME NEW x \in S  PROVE n - x \in Nat /\ x \in 1 .. n
  OBVIOUS
<1>2. T \in SUBSET Nat /\ T # {}
  BY <1>1
<1>3. PICK t \in T : \A y \in T : t <= y
  BY <1>2, SomeLeast
<1>4. PICK x \in S : t = n - x
  BY <1>3
<1>5. ASSUME NEW y \in S  PROVE x >= y
  <2>1. n - x <= n - y
    BY <1>3, <1>4
  <2> QED
    BY <2>1, <1>1
<1> QED
  BY <1>5 DEF Max

-----------------------------------------------------------------------------
(***************************************************************************)
(* A step of the storage carries out or refuses a statement of the table,  *)
(* begins or ends a transaction, or is not seen.                           *)
(***************************************************************************)
Promised == [Promise!Next]_(Promise!vars)

\* The first of them.
LEMMA StorageStarts ==
  ASSUME VecConstants, StorageInit
  PROVE  StorageInv /\ Promise!Init
<1>1. TablesType(EmptyTables) /\ Agree(EmptyTables) /\ TableOf(EmptyTables) = <<>>
  BY EmptyTablesOK
<1>2. StorageInv
  BY <1>1 DEF StorageInit, StorageInv, StatementOK, StorageTyped, Steps, InsertStep, Unset,
     Unplaced, Clearing, Updating, TextStep
<1>3. Promise!Init
  BY <1>1 DEF StorageInit, Promise!Init
<1> QED
  BY <1>2, <1>3

\* Within a statement nothing is seen.
LEMMA NothingIsSeen ==
  ASSUME step \notin {"idle", "failed"}, step' \notin {"idle", "failed"},
         UNCHANGED <<saved, before, open, textKey, stmt, told>>
  PROVE  Promised
BY DEF Promised, Promise!vars

\* A statement that fails leaves the rows as they were.
LEMMA FailStep ==
  ASSUME VecConstants, StorageInv, step \notin {"idle", "failed"}, Fail,
         faults' \in {faults, faults + 1}
  PROVE  StorageInv' /\ Promised
<1>1. TablesType(EmptyTables) /\ Agree(EmptyTables)
  BY EmptyTablesOK
<1>2. /\ textKey' = textKey /\ saved' = saved /\ open' = open /\ told' = "error"
      /\ faults' \in Nat /\ (faults' = 0 => faults = 0)
  BY DEF Fail, Rest, StorageInv, StorageTyped
<1>3. stmt # Nothing
  BY DEF StorageInv, StatementOK
<1>4. CASE open
  <2>1. step' = "failed" /\ UNCHANGED <<db, stmt, before, place, buffer>>
    BY <1>4 DEF Fail
  <2>2. StorageInv'
    BY <1>2, <2>1 DEF StorageInv, StatementOK, StorageTyped, Steps, Agree, InsertStep, Unset,
       Unplaced, Clearing, Updating, TextStep
  <2>3. Promise!Refuse
    BY <1>2, <1>3, <2>1 DEF Promise!Refuse
  <2> QED
    BY <2>2, <2>3 DEF Promised, Promise!Next
<1>5. CASE ~open
  <2>1. step' = "idle" /\ db' = before /\ stmt' = Nothing /\ before' = EmptyTables
    BY <1>5 DEF Fail, Forget
  <2>2. StatementOK' /\ StorageTyped'
    BY <1>1, <1>2, <2>1 DEF StorageInv, StatementOK, StorageTyped, Steps, InsertStep, Unset,
       Unplaced, Clearing, Updating, TextStep
  <2>3. Agree(before)' /\ Agree(saved)' /\ Agree(db)'
    BY <1>1, <1>2, <2>1 DEF StorageInv, Agree
  <2>4. Promise!Refuse
    BY <1>2, <1>3, <2>1 DEF Promise!Refuse
  <2> QED
    BY <2>1, <2>2, <2>3, <2>4 DEF StorageInv, Promised, Promise!Next
<1> QED
  BY <1>4, <1>5

\* One that succeeds leaves the tables in agreement.
LEMMA SucceedStep ==
  ASSUME VecConstants, StorageInv, step \notin {"idle", "failed"},
         step' = "idle", Forget, UNCHANGED Rest,
         faults' \in {faults, faults + 1}, told' = "ok", TablesType(db'), Agree(db)'
  PROVE  StorageInv'
<1>1. TablesType(EmptyTables) /\ Agree(EmptyTables)
  BY EmptyTablesOK
<1>2. /\ textKey' = textKey /\ saved' = saved /\ open' = open
      /\ faults' \in Nat /\ (faults' = 0 => faults = 0)
      /\ stmt' = Nothing /\ before' = EmptyTables
  BY DEF Forget, Rest, StorageInv, StorageTyped
<1>3. StatementOK' /\ StorageTyped'
  BY <1>1, <1>2 DEF StorageInv, StatementOK, StorageTyped, Steps, InsertStep, Unset, Unplaced,
     Clearing, Updating, TextStep
<1>4. Agree(before)' /\ Agree(saved)'
  BY <1>1, <1>2 DEF StorageInv, Agree
<1> QED
  BY <1>3, <1>4 DEF StorageInv

\* Transactions.
LEMMA TransactionStep ==
  ASSUME VecConstants, StorageInv, Begin \/ Commit \/ Rollback
  PROVE  StorageInv' /\ Promised
<1>1. TablesType(EmptyTables) /\ Agree(EmptyTables) /\ TableOf(EmptyTables) = <<>>
  BY EmptyTablesOK
<1>2. CASE Begin
  <2>1. /\ step = "idle" /\ step' = "idle" /\ ~open /\ open' = TRUE /\ saved' = db
        /\ UNCHANGED <<db, before, textKey, stmt, place, told, faults>>
    BY <1>2 DEF Begin
  <2>2. StatementOK' /\ StorageTyped'
    BY <2>1 DEF StorageInv, StatementOK, StorageTyped, Steps, InsertStep, Unset, Unplaced,
       Clearing, Updating, TextStep
  <2>3. Agree(before)' /\ Agree(saved)' /\ Agree(db)'
    BY <2>1 DEF StorageInv, Agree
  <2>4. Promise!Begin
    BY <2>1 DEF Promise!Begin
  <2> QED
    BY <2>1, <2>2, <2>3, <2>4 DEF StorageInv, Promised, Promise!Next
<1>3. CASE Commit
  <2>1. /\ step = "idle" /\ step' = "idle" /\ open /\ open' = FALSE /\ saved' = EmptyTables
        /\ UNCHANGED <<db, before, textKey, stmt, place, told, faults>>
    BY <1>3 DEF Commit
  <2>2. StatementOK' /\ StorageTyped'
    BY <1>1, <2>1 DEF StorageInv, StatementOK, StorageTyped, Steps, InsertStep, Unset,
       Unplaced, Clearing, Updating, TextStep
  <2>3. Agree(before)' /\ Agree(saved)' /\ Agree(db)'
    BY <1>1, <2>1 DEF StorageInv, Agree
  <2>4. Promise!Commit
    BY <1>1, <2>1 DEF Promise!Commit
  <2> QED
    BY <2>1, <2>2, <2>3, <2>4 DEF StorageInv, Promised, Promise!Next
<1>4. CASE Rollback
  <2>1. /\ step \in {"idle", "failed"} /\ step' = "idle" /\ open /\ open' = FALSE
        /\ db' = saved /\ saved' = EmptyTables
        /\ stmt' = Nothing /\ before' = EmptyTables /\ UNCHANGED <<textKey, told, faults>>
    BY <1>4 DEF Rollback, Forget
  <2>2. StatementOK' /\ StorageTyped'
    BY <1>1, <2>1 DEF StorageInv, StatementOK, StorageTyped, Steps, InsertStep, Unset,
       Unplaced, Clearing, Updating, TextStep
  <2>3. Agree(before)' /\ Agree(saved)' /\ Agree(db)'
    BY <1>1, <2>1 DEF StorageInv, Agree
  <2>4. Promise!Rollback
    BY <1>1, <2>1 DEF Promise!Rollback
  <2> QED
    BY <2>1, <2>2, <2>3, <2>4 DEF StorageInv, Promised, Promise!Next
<1> QED
  BY <1>2, <1>3, <1>4

\* A statement begins; the tables are as they were.
LEMMA StartStep ==
  ASSUME VecConstants, StorageInv, NEW q \in Statement,
         NEW first \in {"insertRowid", "refuse", "clearValidity", "update"},
         Start(q, first),
         q.op \in {"update", "delete"} => q.row \in DOMAIN db.rowids
  PROVE  Promised /\ UNCHANGED <<db, saved, open, textKey, told, faults>>
         /\ before' = db /\ stmt' = q /\ step' = first /\ step = "idle"
         /\ StorageTyped' /\ Agree(before)' /\ Agree(saved)' /\ place' \in PlaceType
         /\ ElsewhereKept(before, db, place)' /\ LengthsOK' /\ stmt' # Nothing
<1>1. /\ step = "idle" /\ step' = first /\ stmt' = q /\ before' = db
      /\ place' = [rowid |-> 0, chunk |-> 0, offset |-> 0, long |-> FALSE]
      /\ UNCHANGED <<db, saved, open, textKey, told, faults>>
  BY DEF Start
<1>2. StorageTyped' /\ Agree(before)' /\ Agree(saved)'
  BY <1>1 DEF StorageInv, StorageTyped, Agree
<1>3. place' \in PlaceType
  BY <1>1 DEF PlaceType, VecConstants, Offset
<1>4. ElsewhereKept(before, db, place)'
  <2>1. /\ TablesType(db) /\ place'.rowid = 0 /\ place'.chunk = 0
    BY <1>1 DEF StorageInv, StorageTyped
  <2>2. 0 \notin DOMAIN db.chunks
    BY <2>1 DEF TablesType
  <2>3. \A r : KeptRow(before, db, r)'
    BY <1>1 DEF KeptRow
  <2>4. \A c, o : KeptPosition(before, db, c, o)'
    BY <1>1 DEF KeptPosition
  <2>5. Len(db.chunks) \in Nat
    BY <2>1 DEF TablesType
  <2> QED
    BY <1>1, <2>1, <2>2, <2>3, <2>4, <2>5 DEF ElsewhereKept
<1>5. LengthsOK' \/ first \in {"newVectorChunk", "newMetadataChunk"}
  BY <1>1 DEF StorageInv, Agree, RowsAgree, LengthsOK
<1>6. Promised
  <2>1. stmt = Nothing /\ q # Nothing /\ stmt' # Nothing
    BY <1>1 DEF StorageInv, StatementOK, VecConstants
  <2>2. Promise!Ask(stmt')
    BY <1>1, <2>1 DEF Promise!Ask, TableOf
  <2> QED
    BY <1>1, <2>1, <2>2 DEF Promised, Promise!Next
<1> QED
  BY <1>1, <1>2, <1>3, <1>4, <1>5, <1>6 DEF StorageInv, StatementOK, VecConstants

\* A statement begins with the tables as they stand: nothing is written yet.
LEMMA StartsKeep ==
  ASSUME VecConstants, StorageInv, StartInsert \/ StartDelete \/ StartUpdate
  PROVE  StorageInv' /\ Promised
<1> USE DEF Steps, InsertStep, Unset, Unplaced, Clearing, Updating, TextStep
<1>1. CASE StartInsert
  <2>1. PICK q \in NewRow :
          /\ WithinBounds(q)
          /\ Start(Insertion(q), IF ChecksBeforeInsert(q) THEN "insertRowid" ELSE "refuse")
    BY <1>1 DEF StartInsert
  <2> DEFINE s == Insertion(q)
  <2>2. /\ IsInsertion(s) /\ s \in Statement /\ s.part = q.part /\ s.vector = q.vector
        /\ s.key = q.key /\ s.op = "insert"
    BY StatementFields DEF Insertion, Asked
  <2> HIDE DEF s
  <2>3. CASE ChecksBeforeInsert(q)
    <3>1. Start(s, "insertRowid")
      BY <2>1, <2>3 DEF s
    <3>2. /\ Promised /\ UNCHANGED <<db, saved, open, textKey, told, faults>>
          /\ before' = db /\ stmt' = s /\ step' = "insertRowid" /\ step = "idle"
          /\ StorageTyped' /\ Agree(before)' /\ Agree(saved)' /\ place' \in PlaceType
          /\ ElsewhereKept(before, db, place)' /\ LengthsOK' /\ stmt' # Nothing
      BY <3>1, <2>2, StartStep
    <3>3. StatementOK'
      BY <2>2, <2>3, <3>2 DEF StatementOK, ChecksBeforeInsert
    <3>4. InsertOK'
      BY <2>1, <2>2, <3>2 DEF InsertOK, WithinBounds
    <3>5. Running'
      BY <2>2, <3>2, <3>4 DEF Running
    <3> QED
      BY <3>2, <3>3, <3>5 DEF StorageInv
  <2>4. CASE ~ChecksBeforeInsert(q)
    <3>1. Start(s, "refuse")
      BY <2>1, <2>4 DEF s
    <3>2. /\ Promised /\ UNCHANGED <<db, saved, open, textKey, told, faults>>
          /\ before' = db /\ stmt' = s /\ step' = "refuse" /\ step = "idle"
          /\ StorageTyped' /\ Agree(before)' /\ Agree(saved)' /\ place' \in PlaceType
          /\ ElsewhereKept(before, db, place)' /\ LengthsOK' /\ stmt' # Nothing
      BY <3>1, <2>2, StartStep
    <3>3. StatementOK'
      BY <2>2, <3>2 DEF StatementOK
    <3> QED
      BY <3>2, <3>3 DEF StorageInv
  <2> QED
    BY <2>3, <2>4
<1>2. CASE StartDelete
  <2>1. PICK r \in DOMAIN db.rowids : Start(Deletion(r), "clearValidity")
    BY <1>2 DEF StartDelete
  <2>2. r \in Rowids
    BY DEF StorageInv, StorageTyped, TablesType
  <2> DEFINE s == Deletion(r)
  <2>3. IsDeletion(s) /\ s \in Statement /\ s.row = r /\ s.op = "delete"
    BY <2>2, StatementFields DEF Deletion
  <2>4. Start(s, "clearValidity")
    BY <2>1
  <2> HIDE DEF s
  <2>5. /\ Promised /\ UNCHANGED <<db, saved, open, textKey, told, faults>>
        /\ before' = db /\ stmt' = s /\ step' = "clearValidity" /\ step = "idle"
        /\ StorageTyped' /\ Agree(before)' /\ Agree(saved)' /\ place' \in PlaceType
        /\ ElsewhereKept(before, db, place)' /\ LengthsOK' /\ stmt' # Nothing
    BY <2>3, <2>4, StartStep
  <2>6. StatementOK'
    BY <2>3, <2>5 DEF StatementOK
  <2>7. DeleteOK'
    BY <2>3, <2>5 DEF DeleteOK
  <2>8. Running'
    BY <2>3, <2>5, <2>7 DEF Running
  <2> QED
    BY <2>5, <2>6, <2>8 DEF StorageInv
<1>3. CASE StartUpdate
  <2>1. PICK r \in DOMAIN db.rowids, q \in NewValues : Start(Revision(r, q), "update")
    BY <1>3 DEF StartUpdate
  <2>2. r \in Rowids
    BY DEF StorageInv, StorageTyped, TablesType
  <2> DEFINE s == Revision(r, q)
  <2>3. IsRevision(s) /\ s \in Statement /\ s.row = r /\ s.op = "update"
    BY <2>2, StatementFields DEF Revision, Asked
  <2>4. Start(s, "update")
    BY <2>1
  <2> HIDE DEF s
  <2>5. /\ Promised /\ UNCHANGED <<db, saved, open, textKey, told, faults>>
        /\ before' = db /\ stmt' = s /\ step' = "update" /\ step = "idle"
        /\ StorageTyped' /\ Agree(before)' /\ Agree(saved)' /\ place' \in PlaceType
        /\ ElsewhereKept(before, db, place)' /\ LengthsOK' /\ stmt' # Nothing
    BY <2>3, <2>4, StartStep
  <2>6. StatementOK'
    BY <2>3, <2>5 DEF StatementOK
  <2>7. UpdateOK'
    BY <2>3, <2>5 DEF UpdateOK
  <2>8. Running'
    BY <2>3, <2>5, <2>7 DEF Running
  <2> QED
    BY <2>5, <2>6, <2>8 DEF StorageInv
<1> QED
  BY <1>1, <1>2, <1>3

\* A statement that is refused at once.
LEMMA RefuseStep ==
  ASSUME VecConstants, StorageInv, Refuse
  PROVE  StorageInv' /\ Promised
<1>1. step \notin {"idle", "failed"} /\ Fail /\ faults' \in {faults, faults + 1}
  BY DEF Refuse
<1> QED
  BY <1>1, FailStep

-----------------------------------------------------------------------------
(***************************************************************************)
(* INSERT.                                                                 *)
(***************************************************************************)
\* The steps of a statement.
LEMMA MiddleStep ==
  ASSUME VecConstants, StorageInv, step \notin {"idle", "failed", "refuse"},
         UNCHANGED <<Rest, Kept, told, faults>>, TablesType(db'), place' \in PlaceType,
         \/ stmt.op = "insert" /\ step' \in (InsertStep \cup TextStep) \ {"insertRowid"}
         \/ stmt.op = "delete" /\ step' \in Clearing
         \/ stmt.op = "update" /\ step' \in Updating \cup TextStep,
         Running'
  PROVE  StorageInv' /\ Promised
<1> USE DEF Steps, InsertStep, Unset, Unplaced, Clearing, Updating, TextStep
<1>1. UNCHANGED <<saved, open, textKey, stmt, before, told, faults>>
  BY DEF Rest, Kept
<1>2. step' \notin {"idle", "failed", "refuse"}
  OBVIOUS
<1>3. StatementOK'
  BY <1>1 DEF StorageInv, StatementOK, IsInsertion, IsDeletion, IsRevision
<1>4. StorageTyped'
  BY <1>1 DEF StorageInv, StorageTyped
<1>5. Agree(before)' /\ Agree(saved)'
  BY <1>1 DEF StorageInv, Agree
<1> QED
  BY <1>1, <1>2, <1>3, <1>4, <1>5, NothingIsSeen DEF StorageInv

\* A new row of _rowids.
LEMMA NewRowTyped ==
  ASSUME VecConstants, NEW d, TablesType(d), NEW r \in Rowids, NEW id \in Id \cup {NoValue},
         NEW last \in 0 .. MaxRowid, d.lastRowid <= last, r <= last,
         NEW e, e = [rowids |-> e.rowids, lastRowid |-> last, chunks |-> d.chunks,
                     vectors |-> d.vectors, views |-> d.views, texts |-> d.texts, aux |-> d.aux],
         DOMAIN e.rowids = DOMAIN d.rowids \cup {r}, e.rowids[r] = NoPosition(id),
         \A x \in DOMAIN d.rowids \ {r} : e.rowids[x] = d.rowids[x]
  PROVE  TablesType(e)
<1>1. NoPosition(id) \in Position
  BY DEF NoPosition, Position, Offset, VecConstants
<1>2. \A x \in DOMAIN e.rowids : x \in Rowids /\ x <= e.lastRowid /\ e.rowids[x] \in Position
  BY <1>1 DEF TablesType, Rowids, VecConstants
<1> QED
  BY <1>2 DEF TablesType

\* The first write: the key is new.
LEMMA InsertRowidKeeps ==
  ASSUME VecConstants, StorageInv, InsertRowidStep
  PROVE  StorageInv' /\ Promised
<1> USE DEF Steps, InsertStep, Unset, Unplaced, Clearing, Updating, TextStep
<1>1. step = "insertRowid" /\ Running /\ faults' = faults
  BY DEF InsertRowidStep, StorageInv
<1>2. CASE Fail
  BY <1>1, <1>2, FailStep
<1>3. CASE ~Fail
  <2>1. /\ TypedKey(stmt.key, textKey)
        /\ textKey => RowidsOf(db, stmt.key) = {}
        /\ ~textKey => stmt.key \notin DOMAIN db.rowids
    BY <1>3 DEF InsertRowidStep
  <2>2. /\ UNCHANGED <<Rest, Kept, buffer, told, faults>> /\ step' = "nextAvailable"
        /\ \/ /\ textKey \/ stmt.key = NoValue
              /\ db' = RowidsInsertId(db, stmt.key)
              /\ place' = [place EXCEPT !.rowid = db.lastRowid + 1]
           \/ /\ ~textKey /\ stmt.key # NoValue
              /\ db' = RowidsInsertRowid(db, stmt.key)
              /\ place' = [place EXCEPT !.rowid = stmt.key]
    BY <1>3 DEF InsertRowidStep, Write
  <2>3. /\ IsInsertion(stmt) /\ place \in PlaceType /\ BadType \notin {stmt.part, stmt.vector}
        /\ TablesType(db)
    BY <1>1 DEF StorageInv, StatementOK, StorageTyped
  <2>4. db = before /\ (textKey \/ stmt.key = NoValue => db.lastRowid < MaxRowid)
    BY <1>1, <2>3 DEF Running, InsertOK, IsInsertion
  <2> DEFINE r == place'.rowid
             id == IF textKey THEN stmt.key ELSE NoValue
             last == IF r > db.lastRowid THEN r ELSE db.lastRowid
  <2>5. db.lastRowid \in 0 .. MaxRowid /\ MaxRowid \in Nat
    BY <2>3 DEF TablesType, VecConstants
  <2>6. id \in Id \cup {NoValue}
    BY <2>1 DEF TypedKey
  <2>7. /\ place' = [place EXCEPT !.rowid = r] /\ r \in Rowids /\ r \notin DOMAIN db.rowids
        /\ db' = [db EXCEPT !.rowids = With(db.rowids, r, NoPosition(id)), !.lastRowid = last]
        /\ ~textKey /\ stmt.key # NoValue => r = stmt.key
    <3>1. CASE textKey \/ stmt.key = NoValue
      <4>1. r = db.lastRowid + 1 /\ place' = [place EXCEPT !.rowid = r]
        BY <2>2, <2>3, <3>1 DEF PlaceType
      <4>2. r \in Rowids /\ r \notin DOMAIN db.rowids /\ last = db.lastRowid + 1
        BY <2>3, <2>4, <2>5, <3>1, <4>1 DEF Rowids, TablesType
      <4>3. id = stmt.key
        BY <3>1
      <4> QED
        BY <2>2, <3>1, <4>1, <4>2, <4>3 DEF RowidsInsertId
    <3>2. CASE ~textKey /\ stmt.key # NoValue
      <4>1. r = stmt.key /\ place' = [place EXCEPT !.rowid = r]
        BY <2>2, <2>3, <3>2 DEF PlaceType
      <4>2. r \in Rowids /\ r \notin DOMAIN db.rowids
        BY <2>1, <2>3, <3>2, <4>1 DEF IsInsertion, TypedKey
      <4> QED
        BY <2>2, <3>2, <4>1, <4>2 DEF RowidsInsertRowid
    <3> QED
      BY <3>1, <3>2
  <2>8. last \in 0 .. MaxRowid /\ r <= last /\ db.lastRowid <= last
    BY <2>5, <2>7 DEF Rowids
  <2> HIDE DEF id, last
  <2>9. /\ db' = [rowids |-> db'.rowids, lastRowid |-> last, chunks |-> db.chunks,
                    vectors |-> db.vectors, views |-> db.views, texts |-> db.texts,
                    aux |-> db.aux]
        /\ db'.rowids = With(db.rowids, r, NoPosition(id))
    BY <2>3, <2>7 DEF TablesType
  <2>10. /\ DOMAIN db'.rowids = DOMAIN db.rowids \cup {r} /\ db'.rowids[r] = NoPosition(id)
         /\ \A x \in DOMAIN db.rowids \ {r} : db'.rowids[x] = db.rowids[x]
    BY <2>9 DEF With
  <2>11. TablesType(db')
    BY <2>3, <2>6, <2>7, <2>8, <2>9, <2>10, NewRowTyped
  <2>12. /\ db'.chunks = db.chunks /\ db'.vectors = db.vectors /\ db'.views = db.views
         /\ db'.texts = db.texts /\ db'.aux = db.aux
    BY <2>9
  <2>13. place' \in PlaceType /\ place'.chunk = place.chunk /\ place'.offset = place.offset
    BY <2>3, <2>7 DEF PlaceType, Rowids
  <2>14. UNCHANGED <<saved, open, textKey, stmt, before>>
    BY <2>2 DEF Rest, Kept
  <2>15. ElsewhereKept(before, db, place)'
    BY <1>1, <2>4, <2>10, <2>11, <2>12, <2>13, <2>14 DEF Running, ElsewhereKept, KeptRow,
       KeptPosition
  <2>16. LengthsOK'
    BY <1>1, <2>2, <2>10, <2>11, <2>12 DEF Running, LengthsOK
  <2>17. NewRowOK'
    BY <2>1, <2>4, <2>7, <2>10, <2>11, <2>12, <2>14 DEF NewRowOK, NoPosition, id
  <2>18. InsertOK' /\ db'.texts = before'.texts
    BY <2>2, <2>4, <2>10, <2>11, <2>12, <2>14, <2>17 DEF InsertOK
  <2>19. Running'
    BY <2>2, <2>3, <2>14, <2>15, <2>16, <2>18 DEF Running, IsInsertion
  <2> QED
    BY <1>1, <2>2, <2>3, <2>10, <2>11, <2>12, <2>13, <2>19, MiddleStep DEF IsInsertion
<1> QED
  BY <1>2, <1>3

\* What is known of an INSERT at work.
LEMMA InsertKnows ==
  ASSUME VecConstants, StorageInv, step \in (InsertStep \cup TextStep) \ {"insertRowid"},
         stmt.op = "insert" \/ step \in InsertStep
  PROVE  /\ IsInsertion(stmt) /\ stmt.op = "insert" /\ BadType \notin {stmt.part, stmt.vector}
         /\ place \in PlaceType /\ TablesType(db) /\ TablesType(before) /\ Agree(before)
         /\ ElsewhereKept(before, db, place) /\ LengthsOK /\ db.texts = before.texts /\ InsertOK
         /\ textKey \in BOOLEAN /\ faults \in Nat
<1>1. IsInsertion(stmt) /\ stmt.op = "insert" /\ BadType \notin {stmt.part, stmt.vector}
  BY DEF StorageInv, StatementOK, IsInsertion, IsRevision
<1>2. Running /\ step # "updateVector"
  BY DEF StorageInv, InsertStep, TextStep, Unplaced, Unset
<1> QED
  BY <1>1, <1>2
     DEF StorageInv, StatementOK, StorageTyped, Running, InsertStep, TextStep, Unplaced, Unset

\* Chunks, vector chunks and metadata chunks that are added or changed.
LEMMA ChunksTyped ==
  ASSUME VecConstants, NEW d, TablesType(d), NEW e,
         \E x : e = [rowids |-> d.rowids, lastRowid |-> d.lastRowid, chunks |-> x,
                     vectors |-> d.vectors, views |-> d.views, texts |-> d.texts, aux |-> d.aux],
         \/ \E k \in ChunkType : Len(d.chunks) < MaxChunk /\ e.chunks = Append(d.chunks, k)
         \/ \E c \in DOMAIN d.chunks, k \in ChunkType : e.chunks = [d.chunks EXCEPT ![c] = k]
  PROVE  /\ TablesType(e) /\ e.rowids = d.rowids /\ e.lastRowid = d.lastRowid
         /\ e.vectors = d.vectors /\ e.views = d.views /\ e.texts = d.texts /\ e.aux = d.aux
<1>1. /\ e.rowids = d.rowids /\ e.lastRowid = d.lastRowid
      /\ e.vectors = d.vectors /\ e.views = d.views /\ e.texts = d.texts /\ e.aux = d.aux
      /\ e = [rowids |-> e.rowids, lastRowid |-> e.lastRowid, chunks |-> e.chunks,
              vectors |-> e.vectors, views |-> e.views, texts |-> e.texts, aux |-> e.aux]
  OBVIOUS
<1>2. e.chunks \in Seq(ChunkType) /\ Len(e.chunks) <= MaxChunk
  <2>1. d.chunks \in Seq(ChunkType) /\ Len(d.chunks) <= MaxChunk /\ MaxChunk \in Nat
    BY DEF TablesType, VecConstants
  <2>2. CASE \E k \in ChunkType : Len(d.chunks) < MaxChunk /\ e.chunks = Append(d.chunks, k)
    BY <2>1, <2>2
  <2>3. CASE \E c \in DOMAIN d.chunks, k \in ChunkType : e.chunks = [d.chunks EXCEPT ![c] = k]
    BY <2>1, <2>3
  <2> QED
    BY <2>2, <2>3
<1> QED
  BY <1>1, <1>2 DEF TablesType

\* A vector chunk added or overwritten leaves the tables typed and the others as they were.
LEMMA VectorsTyped ==
  ASSUME VecConstants, NEW d, TablesType(d), NEW e,
         \E x : e = [rowids |-> d.rowids, lastRowid |-> d.lastRowid, chunks |-> d.chunks,
                     vectors |-> x, views |-> d.views, texts |-> d.texts, aux |-> d.aux],
         \/ \E k \in VectorChunk : e.vectors = Append(d.vectors, k)
         \/ \E c \in DOMAIN d.vectors, k \in VectorChunk : e.vectors = [d.vectors EXCEPT ![c] = k]
  PROVE  /\ TablesType(e) /\ e.rowids = d.rowids /\ e.lastRowid = d.lastRowid
         /\ e.chunks = d.chunks /\ e.views = d.views /\ e.texts = d.texts /\ e.aux = d.aux
<1>1. /\ e.rowids = d.rowids /\ e.lastRowid = d.lastRowid
      /\ e.chunks = d.chunks /\ e.views = d.views /\ e.texts = d.texts /\ e.aux = d.aux
      /\ e = [rowids |-> e.rowids, lastRowid |-> e.lastRowid, chunks |-> e.chunks,
              vectors |-> e.vectors, views |-> e.views, texts |-> e.texts, aux |-> e.aux]
  OBVIOUS
<1>2. e.vectors \in Seq(VectorChunk)
  <2>1. d.vectors \in Seq(VectorChunk)
    BY DEF TablesType
  <2>2. CASE \E k \in VectorChunk : e.vectors = Append(d.vectors, k)
    BY <2>1, <2>2
  <2>3. CASE \E c \in DOMAIN d.vectors, k \in VectorChunk : e.vectors = [d.vectors EXCEPT ![c] = k]
    BY <2>1, <2>3
  <2> QED
    BY <2>2, <2>3
<1> QED
  BY <1>1, <1>2 DEF TablesType

\* The same of a chunk of the metadata column.
LEMMA ViewsTyped ==
  ASSUME VecConstants, NEW d, TablesType(d), NEW e,
         \E x : e = [rowids |-> d.rowids, lastRowid |-> d.lastRowid, chunks |-> d.chunks,
                     vectors |-> d.vectors, views |-> x, texts |-> d.texts, aux |-> d.aux],
         \/ \E k \in ViewChunk : e.views = Append(d.views, k)
         \/ \E c \in DOMAIN d.views, k \in ViewChunk : e.views = [d.views EXCEPT ![c] = k]
  PROVE  /\ TablesType(e) /\ e.rowids = d.rowids /\ e.lastRowid = d.lastRowid
         /\ e.chunks = d.chunks /\ e.vectors = d.vectors /\ e.texts = d.texts /\ e.aux = d.aux
<1>1. /\ e.rowids = d.rowids /\ e.lastRowid = d.lastRowid
      /\ e.chunks = d.chunks /\ e.vectors = d.vectors /\ e.texts = d.texts /\ e.aux = d.aux
      /\ e = [rowids |-> e.rowids, lastRowid |-> e.lastRowid, chunks |-> e.chunks,
              vectors |-> e.vectors, views |-> e.views, texts |-> e.texts, aux |-> e.aux]
  OBVIOUS
<1>2. e.views \in Seq(ViewChunk)
  <2>1. d.views \in Seq(ViewChunk)
    BY DEF TablesType
  <2>2. CASE \E k \in ViewChunk : e.views = Append(d.views, k)
    BY <2>1, <2>2
  <2>3. CASE \E c \in DOMAIN d.views, k \in ViewChunk : e.views = [d.views EXCEPT ![c] = k]
    BY <2>1, <2>3
  <2> QED
    BY <2>2, <2>3
<1> QED
  BY <1>1, <1>2 DEF TablesType

\* A free position of the latest chunk, or a new chunk.
LEMMA NextAvailableKeeps ==
  ASSUME VecConstants, StorageInv, InsertNextAvailableStep
  PROVE  StorageInv' /\ Promised
<1> USE DEF InsertStep, Unset, Unplaced, Clearing, Updating, TextStep
<1>1. step = "nextAvailable" /\ UNCHANGED <<Rest, Kept, told, faults>>
  BY DEF InsertNextAvailableStep, Write
<1>2. /\ IsInsertion(stmt) /\ stmt.op = "insert" /\ place \in PlaceType
      /\ TablesType(db) /\ TablesType(before)
      /\ ElsewhereKept(before, db, place) /\ LengthsOK /\ db.texts = before.texts /\ InsertOK
  BY <1>1, InsertKnows
<1>3. UNCHANGED <<saved, open, textKey, stmt, before>>
  BY <1>1 DEF Rest, Kept
<1>4. /\ NewRowOK
      /\ db.chunks = before.chunks /\ db.vectors = before.vectors /\ db.views = before.views
  BY <1>1, <1>2 DEF InsertOK
<1>5. /\ db.chunks \in Seq(ChunkType) /\ Len(db.chunks) \in Nat /\ Len(db.chunks) <= MaxChunk
      /\ DOMAIN db.chunks = 1 .. Len(db.chunks) /\ MaxChunk \in Nat
  BY <1>2 DEF TablesType, VecConstants
<1> DEFINE found == ChunksOfPart(db, stmt.part)
           latest == Max(found)
           free == Offset \ db.chunks[latest].validity
<1>6. CASE found # {} /\ free # {}
  <2>1. /\ db' = db /\ step' = "validity" /\ buffer' = db.chunks[latest].validity
        /\ place' = [place EXCEPT !.chunk = latest, !.offset = Min(free)]
    BY <1>6 DEF InsertNextAvailableStep, Write
  <2>2. found \in SUBSET (1 .. Len(db.chunks)) /\ \A c \in found : db.chunks[c].part = stmt.part
    BY <1>5 DEF ChunksOfPart
  <2>3. latest \in found
    BY <1>5, <1>6, <2>2, GreatestIsThere
  <2>4. free \in SUBSET Nat
    BY DEF Offset, VecConstants
  <2>5. Min(free) \in free
    BY <1>6, <2>4, LeastIsThere
  <2> DEFINE c == place'.chunk  o == place'.offset
  <2>6. /\ place' \in PlaceType /\ place'.rowid = place.rowid
        /\ c \in DOMAIN db.chunks /\ db.chunks[c].part = stmt.part
        /\ o \in Offset /\ o \notin db.chunks[c].validity /\ buffer' = db.chunks[c].validity
    <3>1. place' = [place EXCEPT !.chunk = latest, !.offset = Min(free)]
      BY <2>1
    <3>2. c = latest /\ o = Min(free) /\ place'.rowid = place.rowid /\ place'.long = place.long
      BY <1>2, <3>1 DEF PlaceType
    <3> HIDE DEF free, latest, found
    <3>3. /\ latest \in 1 .. Len(db.chunks) /\ Min(free) \in Offset
          /\ db.chunks[latest].part = stmt.part
      BY <2>2, <2>3, <2>5 DEF free
    <3>4. Min(free) \notin db.chunks[latest].validity
      BY <2>5 DEF free
    <3>5. place' = [rowid |-> place.rowid, chunk |-> latest, offset |-> Min(free),
                    long |-> place.long]
      BY <1>2, <3>1 DEF PlaceType
    <3>6. latest \in 0 .. MaxChunk
      BY <1>5, <3>3
    <3>7. place' \in PlaceType
      BY <1>2, <3>3, <3>5, <3>6 DEF PlaceType
    <3> QED
      BY <1>5, <2>1, <3>2, <3>3, <3>4, <3>7
  <2> HIDE DEF c, o, free, latest, found
  <2>7. ElsewhereKept(before, db, place)'
    BY <1>2, <1>3, <1>4, <1>5, <2>1, <2>6 DEF ElsewhereKept, KeptRow, KeptPosition
  <2>8. LengthsOK'
    BY <1>1, <1>2, <2>1 DEF LengthsOK
  <2>9. NewRowOK'
    BY <1>3, <1>4, <2>1, <2>6 DEF NewRowOK
  <2>10. NewPositionOK'
    BY <1>3, <1>4, <2>1, <2>6 DEF NewPositionOK, c, o
  <2>11. Running'
    BY <1>2, <1>3, <2>1, <2>7, <2>8, <2>9, <2>10 DEF Running, InsertOK
  <2> QED
    BY <1>1, <1>2, <2>1, <2>6, <2>11, MiddleStep
<1>7. CASE ~(found # {} /\ free # {})
  <2>1. /\ Len(db.chunks) < MaxChunk /\ buffer' = {} /\ step' = "newVectorChunk"
        /\ place' = [place EXCEPT !.chunk = Len(db.chunks) + 1, !.offset = 0]
        /\ db' = NewChunk(db, stmt.part)
    BY <1>7 DEF InsertNextAvailableStep, Write
  <2> HIDE DEF free, latest, found
  <2> DEFINE k == [part |-> stmt.part, validity |-> {}, rowids |-> [x \in Offset |-> 0]]
  <2>2. k \in ChunkType /\ k.part = stmt.part /\ k.validity = {}
    BY <1>2 DEF IsInsertion, ChunkType, VecConstants
  <2> DEFINE chunks == Append(db.chunks, k)
  <2>3. db' = [rowids |-> db.rowids, lastRowid |-> db.lastRowid, chunks |-> chunks,
               vectors |-> db.vectors, views |-> db.views, texts |-> db.texts, aux |-> db.aux]
    BY <1>2, <2>1 DEF NewChunk, TablesType
  <2> HIDE DEF k
  <2>4. /\ TablesType(db') /\ db'.rowids = db.rowids
        /\ db'.vectors = db.vectors /\ db'.views = db.views /\ db'.texts = db.texts
        /\ db'.aux = db.aux
        /\ db'.chunks = chunks
    <3>1. db'.chunks = chunks
      BY <2>3
    <3> HIDE DEF chunks
    <3>2. \E x : db' = [rowids |-> db.rowids, lastRowid |-> db.lastRowid, chunks |-> x,
               vectors |-> db.vectors, views |-> db.views, texts |-> db.texts, aux |-> db.aux]
      BY <2>3
    <3>3. \E y \in ChunkType : Len(db.chunks) < MaxChunk /\ db'.chunks = Append(db.chunks, y)
      BY <2>1, <2>2, <3>1 DEF chunks
    <3> QED
      BY <1>2, <3>1, <3>2, <3>3, ChunksTyped
  <2>5. /\ Len(chunks) = Len(db.chunks) + 1 /\ DOMAIN chunks = 1 .. Len(db.chunks) + 1
        /\ chunks[Len(db.chunks) + 1] = k
        /\ \A c \in 1 .. Len(db.chunks) : chunks[c] = db.chunks[c]
    BY <1>5, <2>2
  <2> HIDE DEF chunks
  <2>6. /\ place' \in PlaceType /\ place'.rowid = place.rowid
        /\ place'.chunk = Len(db.chunks) + 1 /\ place'.offset = 0
    <3>1. place' = [rowid |-> place.rowid, chunk |-> Len(db.chunks) + 1, offset |-> 0,
                    long |-> place.long]
      BY <1>2, <2>1 DEF PlaceType
    <3>2. Len(db.chunks) + 1 \in 0 .. MaxChunk /\ 0 \in Offset
      BY <1>5, <2>1 DEF Offset, VecConstants
    <3> QED
      BY <1>2, <3>1, <3>2 DEF PlaceType
  <2>7. ElsewhereKept(before, db, place)'
    BY <1>2, <1>3, <1>4, <1>5, <2>2, <2>4, <2>5, <2>6 DEF ElsewhereKept, KeptRow, KeptPosition
  <2>8. LengthsOK'
    BY <1>1, <1>2, <1>5, <2>1, <2>4, <2>5 DEF LengthsOK
  <2>9. NewRowOK'
    BY <1>3, <1>4, <2>4, <2>6 DEF NewRowOK
  <2>10. NewPositionOK'
    BY <1>3, <1>4, <1>5, <2>1, <2>2, <2>4, <2>5, <2>6 DEF NewPositionOK
  <2>11. Running'
    BY <1>2, <1>3, <2>1, <2>4, <2>7, <2>8, <2>9, <2>10 DEF Running, InsertOK
  <2> QED
    BY <1>1, <1>2, <2>1, <2>4, <2>6, <2>11, MiddleStep
<1> QED
  BY <1>6, <1>7

\* The vector chunk of a new chunk, and its metadata chunk.
LEMMA NewVectorChunkKeeps ==
  ASSUME VecConstants, StorageInv, step = "newVectorChunk", NewChunkStep
  PROVE  StorageInv' /\ Promised
<1> USE DEF InsertStep, Unset, Unplaced, Clearing, Updating, TextStep
<1>1. /\ step = "newVectorChunk" /\ step' = "newMetadataChunk" /\ db' = NewVectorChunk(db)
      /\ UNCHANGED <<Rest, Kept, place, buffer, told, faults>>
  BY DEF NewChunkStep, Write
<1>2. /\ IsInsertion(stmt) /\ stmt.op = "insert" /\ place \in PlaceType
      /\ TablesType(db) /\ TablesType(before)
      /\ ElsewhereKept(before, db, place) /\ LengthsOK /\ db.texts = before.texts /\ InsertOK
  BY <1>1, InsertKnows
<1>3. UNCHANGED <<saved, open, textKey, stmt, before, place>>
  BY <1>1 DEF Rest, Kept
<1>4. /\ db.chunks \in Seq(ChunkType) /\ db.vectors \in Seq(VectorChunk)
      /\ db.views \in Seq(ViewChunk)
      /\ before.chunks \in Seq(ChunkType)
  BY <1>2 DEF TablesType
<1>5. NewRowOK /\ NewPositionOK
  BY <1>1, <1>2 DEF InsertOK
<1> DEFINE k == [o \in Offset |-> Blank]
<1>6. k \in VectorChunk
  BY DEF VectorChunk, Vectors
<1>7. db' = [rowids |-> db.rowids, lastRowid |-> db.lastRowid, chunks |-> db.chunks,
             vectors |-> Append(db.vectors, k), views |-> db.views, texts |-> db.texts,
             aux |-> db.aux]
  BY <1>1, <1>2 DEF NewVectorChunk, TablesType
<1> HIDE DEF k
<1>8. /\ TablesType(db') /\ db'.rowids = db.rowids /\ db'.lastRowid = db.lastRowid
      /\ db'.chunks = db.chunks /\ db'.views = db.views /\ db'.texts = db.texts
      /\ db'.aux = db.aux
      /\ db'.vectors = Append(db.vectors, k)
  <2>1. db'.vectors = Append(db.vectors, k)
    BY <1>7
  <2>2. \E x : db' = [rowids |-> db.rowids, lastRowid |-> db.lastRowid, chunks |-> db.chunks,
             vectors |-> x, views |-> db.views, texts |-> db.texts, aux |-> db.aux]
    BY <1>7
  <2> QED
    BY <1>2, <1>6, <2>1, <2>2, VectorsTyped
<1>9. /\ Len(db'.vectors) = Len(db.vectors) + 1
      /\ \A c \in 1 .. Len(db.vectors) : db'.vectors[c] = db.vectors[c]
  BY <1>4, <1>6, <1>8
<1>10. Len(db.vectors) + 1 = Len(db.chunks) /\ Len(before.chunks) < Len(db.chunks)
  <2>1. /\ place.chunk \notin DOMAIN before.chunks /\ place.chunk = Len(db.chunks)
        /\ place.chunk \in DOMAIN db.chunks
    BY <1>1, <1>5 DEF NewPositionOK
  <2> QED
    BY <1>1, <1>2, <1>4, <2>1 DEF LengthsOK
<1>11. ElsewhereKept(before, db, place)'
  <2>1. \A c \in DOMAIN before.chunks : c \in 1 .. Len(db.vectors)
    BY <1>4, <1>10
  <2>2. \A c \in DOMAIN before.chunks : db'.vectors[c] = db.vectors[c]
    BY <1>9, <2>1
  <2>3. \A r \in Rowids \ {place.rowid} : KeptRow(before, db, r)'
    BY <1>2, <1>3, <1>8 DEF ElsewhereKept, KeptRow
  <2>4. ASSUME NEW c \in DOMAIN before.chunks, NEW o \in Offset, c # place.chunk \/ o # place.offset
        PROVE  KeptPosition(before, db, c, o)'
    <3>1. KeptPosition(before, db, c, o)
      BY <1>2, <2>4 DEF ElsewhereKept
    <3> QED
      BY <1>3, <1>8, <2>2, <3>1 DEF KeptPosition
  <2> QED
    BY <1>2, <1>3, <1>8, <2>3, <2>4 DEF ElsewhereKept
<1>12. LengthsOK'
  BY <1>1, <1>2, <1>8, <1>9, <1>10 DEF LengthsOK
<1>13. NewRowOK' /\ NewPositionOK'
  BY <1>1, <1>3, <1>5, <1>8 DEF NewRowOK, NewPositionOK
<1>14. Running'
  BY <1>1, <1>2, <1>3, <1>8, <1>11, <1>12, <1>13 DEF Running, InsertOK
<1> QED
  BY <1>1, <1>2, <1>3, <1>8, <1>14, MiddleStep

\* vec0_new_chunk's last write: the metadata column's chunk at the new position.
LEMMA NewMetadataChunkKeeps ==
  ASSUME VecConstants, StorageInv, step = "newMetadataChunk", NewChunkStep
  PROVE  StorageInv' /\ Promised
<1> USE DEF InsertStep, Unset, Unplaced, Clearing, Updating, TextStep
<1>1. /\ step = "newMetadataChunk" /\ step' = "validity" /\ db' = NewMetadataChunk(db)
      /\ UNCHANGED <<Rest, Kept, place, buffer, told, faults>>
  BY DEF NewChunkStep, Write
<1>2. /\ IsInsertion(stmt) /\ stmt.op = "insert" /\ place \in PlaceType
      /\ TablesType(db) /\ TablesType(before)
      /\ ElsewhereKept(before, db, place) /\ LengthsOK /\ db.texts = before.texts /\ InsertOK
  BY <1>1, InsertKnows
<1>3. UNCHANGED <<saved, open, textKey, stmt, before, place>>
  BY <1>1 DEF Rest, Kept
<1>4. /\ db.chunks \in Seq(ChunkType) /\ db.vectors \in Seq(VectorChunk)
      /\ db.views \in Seq(ViewChunk)
      /\ before.chunks \in Seq(ChunkType)
  BY <1>2 DEF TablesType
<1>5. NewRowOK /\ NewPositionOK
  BY <1>1, <1>2 DEF InsertOK
<1> DEFINE k == [o \in Offset |-> Blank]
<1>6. k \in ViewChunk
  BY DEF ViewChunk, Views
<1>7. db' = [rowids |-> db.rowids, lastRowid |-> db.lastRowid, chunks |-> db.chunks,
             vectors |-> db.vectors, views |-> Append(db.views, k), texts |-> db.texts,
             aux |-> db.aux]
  BY <1>1, <1>2 DEF NewMetadataChunk, TablesType
<1> HIDE DEF k
<1>8. /\ TablesType(db') /\ db'.rowids = db.rowids /\ db'.lastRowid = db.lastRowid
      /\ db'.chunks = db.chunks /\ db'.vectors = db.vectors /\ db'.texts = db.texts
      /\ db'.aux = db.aux
      /\ db'.views = Append(db.views, k)
  <2>1. db'.views = Append(db.views, k)
    BY <1>7
  <2>2. \E x : db' = [rowids |-> db.rowids, lastRowid |-> db.lastRowid, chunks |-> db.chunks,
             vectors |-> db.vectors, views |-> x, texts |-> db.texts, aux |-> db.aux]
    BY <1>7
  <2> QED
    BY <1>2, <1>6, <2>1, <2>2, ViewsTyped
<1>9. /\ Len(db'.views) = Len(db.views) + 1
      /\ \A c \in 1 .. Len(db.views) : db'.views[c] = db.views[c]
  BY <1>4, <1>6, <1>8
<1>10. Len(db.views) + 1 = Len(db.chunks) /\ Len(before.chunks) < Len(db.chunks)
  <2>1. /\ place.chunk \notin DOMAIN before.chunks /\ place.chunk = Len(db.chunks)
        /\ place.chunk \in DOMAIN db.chunks
    BY <1>1, <1>5 DEF NewPositionOK
  <2> QED
    BY <1>1, <1>2, <1>4, <2>1 DEF LengthsOK
<1>11. ElsewhereKept(before, db, place)'
  <2>1. \A c \in DOMAIN before.chunks : c \in 1 .. Len(db.views)
    BY <1>4, <1>10
  <2>2. \A c \in DOMAIN before.chunks : db'.views[c] = db.views[c]
    BY <1>9, <2>1
  <2>3. \A r \in Rowids \ {place.rowid} : KeptRow(before, db, r)'
    BY <1>2, <1>3, <1>8 DEF ElsewhereKept, KeptRow
  <2>4. ASSUME NEW c \in DOMAIN before.chunks, NEW o \in Offset, c # place.chunk \/ o # place.offset
        PROVE  KeptPosition(before, db, c, o)'
    <3>1. KeptPosition(before, db, c, o)
      BY <1>2, <2>4 DEF ElsewhereKept
    <3> QED
      BY <1>3, <1>8, <2>2, <3>1 DEF KeptPosition
  <2> QED
    BY <1>2, <1>3, <1>8, <2>3, <2>4 DEF ElsewhereKept
<1>12. LengthsOK'
  BY <1>1, <1>2, <1>8, <1>9, <1>10 DEF LengthsOK
<1>13. NewRowOK' /\ NewPositionOK'
  BY <1>1, <1>3, <1>5, <1>8 DEF NewRowOK, NewPositionOK
<1>14. Running'
  BY <1>1, <1>2, <1>3, <1>8, <1>11, <1>12, <1>13 DEF Running, InsertOK
<1> QED
  BY <1>1, <1>2, <1>3, <1>8, <1>14, MiddleStep

\* A byte written back from the buffer has one bit more and the others as they were.
LEMMA OneBitMore ==
  ASSUME NEW o \in Offset, NEW v \in SUBSET Offset
  PROVE  ByteWritten(v, o, (v \cap ByteOf(o)) \cup {o}) = v \cup {o}
BY DEF ByteWritten, ByteOf

\* The validity bit.
LEMMA ValidityKeeps ==
  ASSUME VecConstants, StorageInv, InsertValidity
  PROVE  StorageInv' /\ Promised
<1> USE DEF InsertStep, Unset, Unplaced, Clearing, Updating, TextStep
<1> DEFINE c == place.chunk  o == place.offset
           bits == ByteWritten(db.chunks[c].validity, o, (buffer \cap ByteOf(o)) \cup {o})
<1>1. /\ step = "validity" /\ step' = "vector" /\ db' = [db EXCEPT !.chunks[c].validity = bits]
      /\ UNCHANGED <<Rest, Kept, place, buffer, told, faults>>
  BY DEF InsertValidity, Write
<1>2. /\ IsInsertion(stmt) /\ stmt.op = "insert" /\ place \in PlaceType
      /\ TablesType(db) /\ TablesType(before)
      /\ ElsewhereKept(before, db, place) /\ LengthsOK /\ db.texts = before.texts /\ InsertOK
  BY <1>1, InsertKnows
<1>3. UNCHANGED <<saved, open, textKey, stmt, before, place>>
  BY <1>1 DEF Rest, Kept
<1>4. /\ db.chunks \in Seq(ChunkType) /\ db.vectors \in Seq(VectorChunk)
      /\ db.views \in Seq(ViewChunk)
      /\ before.chunks \in Seq(ChunkType)
  BY <1>2 DEF TablesType
<1>5. NewRowOK /\ NewPositionOK
  BY <1>1, <1>2 DEF InsertOK
<1>6. /\ c \in DOMAIN db.chunks /\ db.chunks[c].part = stmt.part /\ o \in Offset
      /\ buffer = db.chunks[c].validity
      /\ c \in DOMAIN before.chunks => o \notin before.chunks[c].validity
  BY <1>1, <1>2, <1>5 DEF NewPositionOK, PlaceType
<1>7. db.chunks[c] \in ChunkType
  BY <1>4, <1>6
<1>8. bits = db.chunks[c].validity \cup {o}
  BY <1>6, <1>7, OneBitMore DEF ChunkType
<1> HIDE DEF bits
<1> DEFINE k == [db.chunks[c] EXCEPT !.validity = bits]
<1>9. /\ k \in ChunkType /\ k.part = stmt.part /\ k.rowids = db.chunks[c].rowids
      /\ k.validity = db.chunks[c].validity \cup {o}
  BY <1>6, <1>7, <1>8 DEF ChunkType
<1>10. db' = [rowids |-> db.rowids, lastRowid |-> db.lastRowid,
              chunks |-> [db.chunks EXCEPT ![c] = k],
             vectors |-> db.vectors, views |-> db.views, texts |-> db.texts, aux |-> db.aux]
  BY <1>1, <1>2 DEF TablesType
<1> HIDE DEF k
<1>11. /\ TablesType(db') /\ db'.rowids = db.rowids /\ db'.lastRowid = db.lastRowid
       /\ db'.vectors = db.vectors /\ db'.views = db.views /\ db'.texts = db.texts
       /\ db'.aux = db.aux
       /\ db'.chunks = [db.chunks EXCEPT ![c] = k]
  <2>1. db'.chunks = [db.chunks EXCEPT ![c] = k]
    BY <1>10
  <2>2. \E x : db' = [rowids |-> db.rowids, lastRowid |-> db.lastRowid, chunks |-> x,
             vectors |-> db.vectors, views |-> db.views, texts |-> db.texts, aux |-> db.aux]
    BY <1>10
  <2> QED
    BY <1>2, <1>6, <1>9, <2>1, <2>2, ChunksTyped
<1>12. /\ Len(db'.chunks) = Len(db.chunks) /\ DOMAIN db'.chunks = DOMAIN db.chunks
       /\ db'.chunks[c] = k /\ \A x \in DOMAIN db.chunks \ {c} : db'.chunks[x] = db.chunks[x]
  BY <1>4, <1>6, <1>9, <1>11
<1>13. ElsewhereKept(before, db, place)'
  <2>1. \A x \in DOMAIN before.chunks : x \in DOMAIN db.chunks
    BY <1>2, <1>4 DEF ElsewhereKept
  <2>2. \A x \in DOMAIN before.chunks :
          /\ db'.chunks[x].part = db.chunks[x].part /\ db'.chunks[x].rowids = db.chunks[x].rowids
          /\ \A y \in Offset : x # c \/ y # o =>
               (y \in db'.chunks[x].validity <=> y \in db.chunks[x].validity)
    BY <1>6, <1>9, <1>12, <2>1
  <2>3. \A x \in DOMAIN db'.chunks \ DOMAIN before.chunks :
          x = c /\ db'.chunks[x].validity \subseteq {o}
    BY <1>2, <1>9, <1>12 DEF ElsewhereKept
  <2> QED
    BY <1>2, <1>3, <1>11, <1>12, <2>2, <2>3 DEF ElsewhereKept, KeptRow, KeptPosition
<1>14. LengthsOK'
  BY <1>1, <1>2, <1>11, <1>12 DEF LengthsOK
<1>15. NewRowOK' /\ NewPositionOK'
  BY <1>1, <1>3, <1>5, <1>6, <1>9, <1>11, <1>12 DEF NewRowOK, NewPositionOK
<1>16. Running'
  BY <1>1, <1>2, <1>3, <1>11, <1>13, <1>14, <1>15 DEF Running, InsertOK
<1> QED
  BY <1>1, <1>2, <1>3, <1>11, <1>16, MiddleStep

\* The vector.
LEMMA VectorKeeps ==
  ASSUME VecConstants, StorageInv, InsertVector
  PROVE  StorageInv' /\ Promised
<1> USE DEF InsertStep, Unset, Unplaced, Clearing, Updating, TextStep
<1> DEFINE c == place.chunk  o == place.offset
<1>1. step = "vector"
  BY DEF InsertVector
<1>2. /\ IsInsertion(stmt) /\ stmt.op = "insert" /\ place \in PlaceType
      /\ TablesType(db) /\ TablesType(before)
      /\ ElsewhereKept(before, db, place) /\ LengthsOK /\ db.texts = before.texts /\ InsertOK
  BY <1>1, InsertKnows
<1>3. NewRowOK /\ NewPositionOK
  BY <1>1, <1>2 DEF InsertOK
<1>4. /\ db.chunks \in Seq(ChunkType) /\ db.vectors \in Seq(VectorChunk)
      /\ db.views \in Seq(ViewChunk)
      /\ before.chunks \in Seq(ChunkType)
  BY <1>2 DEF TablesType
<1>5. /\ c \in DOMAIN db.vectors /\ o \in Offset /\ c \in DOMAIN db.chunks
      /\ Len(db.vectors) = Len(db.chunks)
  BY <1>1, <1>2, <1>4, <1>3 DEF NewPositionOK, PlaceType, LengthsOK
<1>6. /\ step' = "chunkRowids" /\ db' = [db EXCEPT !.vectors[c][o] = stmt.vector]
      /\ UNCHANGED <<Rest, Kept, place, buffer, told, faults>>
  BY <1>5 DEF InsertVector, Write
<1>7. UNCHANGED <<saved, open, textKey, stmt, before, place>>
  BY <1>6 DEF Rest, Kept
<1> DEFINE k == [db.vectors[c] EXCEPT ![o] = stmt.vector]
<1>8. db.vectors[c] \in VectorChunk
  BY <1>4, <1>5
<1>9. k \in VectorChunk /\ k[o] = stmt.vector /\ \A y \in Offset \ {o} : k[y] = db.vectors[c][y]
  BY <1>2, <1>5, <1>8 DEF VectorChunk, IsInsertion
<1>10. db' = [rowids |-> db.rowids, lastRowid |-> db.lastRowid, chunks |-> db.chunks,
             vectors |-> [db.vectors EXCEPT ![c] = k], views |-> db.views, texts |-> db.texts,
             aux |-> db.aux]
  BY <1>6, <1>2 DEF TablesType
<1> HIDE DEF k
<1>11. /\ TablesType(db') /\ db'.rowids = db.rowids /\ db'.lastRowid = db.lastRowid
       /\ db'.chunks = db.chunks /\ db'.views = db.views /\ db'.texts = db.texts
       /\ db'.aux = db.aux
       /\ db'.vectors = [db.vectors EXCEPT ![c] = k]
  <2>1. db'.vectors = [db.vectors EXCEPT ![c] = k]
    BY <1>10
  <2>2. \E x : db' = [rowids |-> db.rowids, lastRowid |-> db.lastRowid, chunks |-> db.chunks,
             vectors |-> x, views |-> db.views, texts |-> db.texts, aux |-> db.aux]
    BY <1>10
  <2> QED
    BY <1>2, <1>5, <1>9, <2>1, <2>2, VectorsTyped
<1>12. /\ Len(db'.vectors) = Len(db.vectors)
       /\ db'.vectors[c] = k /\ \A x \in DOMAIN db.vectors \ {c} : db'.vectors[x] = db.vectors[x]
  BY <1>4, <1>5, <1>9, <1>11
<1>13. ElsewhereKept(before, db, place)'
  <2>1. \A x \in DOMAIN before.chunks : x \in DOMAIN db.vectors
    BY <1>2, <1>4, <1>5 DEF ElsewhereKept
  <2>2. \A x \in DOMAIN before.chunks, y \in Offset :
          x # c \/ y # o => db'.vectors[x][y] = db.vectors[x][y]
    BY <1>5, <1>9, <1>12, <2>1
  <2> QED
    BY <1>2, <1>7, <1>11, <2>2 DEF ElsewhereKept, KeptRow, KeptPosition
<1>14. LengthsOK'
  BY <1>1, <1>2, <1>6, <1>11, <1>12 DEF LengthsOK
<1>15. NewRowOK' /\ NewPositionOK'
  BY <1>1, <1>7, <1>3, <1>5, <1>6, <1>9, <1>11, <1>12 DEF NewRowOK, NewPositionOK
<1>16. Running'
  BY <1>1, <1>2, <1>7, <1>6, <1>11, <1>13, <1>14, <1>15 DEF Running, InsertOK
<1> QED
  BY <1>1, <1>2, <1>7, <1>6, <1>11, <1>16, MiddleStep

\* The rowid in the chunk.
LEMMA ChunkRowidsKeeps ==
  ASSUME VecConstants, StorageInv, InsertChunkRowids
  PROVE  StorageInv' /\ Promised
<1> USE DEF InsertStep, Unset, Unplaced, Clearing, Updating, TextStep
<1> DEFINE c == place.chunk  o == place.offset
<1>1. /\ step = "chunkRowids" /\ step' = "position"
      /\ db' = [db EXCEPT !.chunks[c].rowids[o] = place.rowid]
      /\ UNCHANGED <<Rest, Kept, place, buffer, told, faults>>
  BY DEF InsertChunkRowids, Write
<1>2. /\ IsInsertion(stmt) /\ stmt.op = "insert" /\ place \in PlaceType
      /\ TablesType(db) /\ TablesType(before)
      /\ ElsewhereKept(before, db, place) /\ LengthsOK /\ db.texts = before.texts /\ InsertOK
  BY <1>1, InsertKnows
<1>3. UNCHANGED <<saved, open, textKey, stmt, before, place>>
  BY <1>1 DEF Rest, Kept
<1>4. /\ db.chunks \in Seq(ChunkType) /\ db.vectors \in Seq(VectorChunk)
      /\ db.views \in Seq(ViewChunk)
      /\ before.chunks \in Seq(ChunkType)
  BY <1>2 DEF TablesType
<1>5. NewRowOK /\ NewPositionOK
  BY <1>1, <1>2 DEF InsertOK
<1>6. c \in DOMAIN db.chunks /\ o \in Offset
  BY <1>1, <1>2, <1>5 DEF NewPositionOK, PlaceType
<1>7. db.chunks[c] \in ChunkType
  BY <1>4, <1>6
<1> DEFINE ids == [db.chunks[c].rowids EXCEPT ![o] = place.rowid]
<1>8. /\ ids \in [Offset -> 0 .. MaxRowid] /\ ids[o] = place.rowid
      /\ \A y \in Offset \ {o} : ids[y] = db.chunks[c].rowids[y]
  BY <1>2, <1>6, <1>7 DEF ChunkType, PlaceType
<1> DEFINE k == [db.chunks[c] EXCEPT !.rowids = ids]
<1>9. db' = [rowids |-> db.rowids, lastRowid |-> db.lastRowid,
             chunks |-> [db.chunks EXCEPT ![c] = k],
             vectors |-> db.vectors, views |-> db.views, texts |-> db.texts, aux |-> db.aux]
  BY <1>1, <1>2 DEF TablesType
<1> HIDE DEF ids
<1>10. /\ k \in ChunkType /\ k.part = db.chunks[c].part /\ k.rowids = ids
      /\ k.validity = db.chunks[c].validity
  BY <1>7, <1>8 DEF ChunkType
<1> HIDE DEF k
<1>11. /\ TablesType(db') /\ db'.rowids = db.rowids /\ db'.lastRowid = db.lastRowid
       /\ db'.vectors = db.vectors /\ db'.views = db.views /\ db'.texts = db.texts
       /\ db'.aux = db.aux
       /\ db'.chunks = [db.chunks EXCEPT ![c] = k]
  <2>1. db'.chunks = [db.chunks EXCEPT ![c] = k]
    BY <1>9
  <2>2. \E x : db' = [rowids |-> db.rowids, lastRowid |-> db.lastRowid, chunks |-> x,
             vectors |-> db.vectors, views |-> db.views, texts |-> db.texts, aux |-> db.aux]
    BY <1>9
  <2> QED
    BY <1>2, <1>6, <1>10, <2>1, <2>2, ChunksTyped
<1>12. /\ Len(db'.chunks) = Len(db.chunks) /\ DOMAIN db'.chunks = DOMAIN db.chunks
       /\ db'.chunks[c] = k /\ \A x \in DOMAIN db.chunks \ {c} : db'.chunks[x] = db.chunks[x]
  BY <1>4, <1>6, <1>10, <1>11
<1>13. ElsewhereKept(before, db, place)'
  <2>1. \A x \in DOMAIN before.chunks : x \in DOMAIN db.chunks
    BY <1>2, <1>4 DEF ElsewhereKept
  <2>2. \A x \in DOMAIN db.chunks :
          /\ db'.chunks[x].part = db.chunks[x].part
          /\ db'.chunks[x].validity = db.chunks[x].validity
          /\ \A y \in Offset : x # c \/ y # o => db'.chunks[x].rowids[y] = db.chunks[x].rowids[y]
    BY <1>6, <1>8, <1>10, <1>12
  <2> QED
    BY <1>2, <1>3, <1>11, <1>12, <2>1, <2>2 DEF ElsewhereKept, KeptRow, KeptPosition
<1>14. LengthsOK'
  BY <1>1, <1>2, <1>11, <1>12 DEF LengthsOK
<1>15. NewRowOK' /\ NewPositionOK'
  BY <1>1, <1>3, <1>5, <1>6, <1>8, <1>10, <1>11, <1>12 DEF NewRowOK, NewPositionOK
<1>16. Running'
  BY <1>1, <1>2, <1>3, <1>11, <1>13, <1>14, <1>15 DEF Running, InsertOK
<1> QED
  BY <1>1, <1>2, <1>3, <1>11, <1>16, MiddleStep

\* Rows, auxiliary values and long texts that are changed, added or removed.
LEMMA RowidsTyped ==
  ASSUME VecConstants, NEW d, TablesType(d), NEW e,
         \E x : e = [rowids |-> x, lastRowid |-> d.lastRowid, chunks |-> d.chunks,
                     vectors |-> d.vectors, views |-> d.views, texts |-> d.texts, aux |-> d.aux],
         \A r \in DOMAIN e.rowids : r \in DOMAIN d.rowids /\ e.rowids[r] \in Position
  PROVE  /\ TablesType(e) /\ e.lastRowid = d.lastRowid /\ e.chunks = d.chunks
         /\ e.vectors = d.vectors /\ e.views = d.views /\ e.texts = d.texts /\ e.aux = d.aux
<1>1. /\ e.lastRowid = d.lastRowid /\ e.chunks = d.chunks
      /\ e.vectors = d.vectors /\ e.views = d.views /\ e.texts = d.texts /\ e.aux = d.aux
      /\ e = [rowids |-> e.rowids, lastRowid |-> e.lastRowid, chunks |-> e.chunks,
              vectors |-> e.vectors, views |-> e.views, texts |-> e.texts, aux |-> e.aux]
  OBVIOUS
<1> QED
  BY <1>1 DEF TablesType

\* The same of the auxiliary values, by rowid.
LEMMA AuxTyped ==
  ASSUME VecConstants, NEW d, TablesType(d), NEW e,
         \E x : e = [rowids |-> d.rowids, lastRowid |-> d.lastRowid, chunks |-> d.chunks,
                     vectors |-> d.vectors, views |-> d.views, texts |-> d.texts, aux |-> x],
         DOMAIN e.aux \subseteq Rowids
  PROVE  /\ TablesType(e) /\ e.rowids = d.rowids /\ e.lastRowid = d.lastRowid
         /\ e.chunks = d.chunks /\ e.vectors = d.vectors /\ e.views = d.views /\ e.texts = d.texts
<1>1. /\ e.rowids = d.rowids /\ e.lastRowid = d.lastRowid /\ e.chunks = d.chunks
      /\ e.vectors = d.vectors /\ e.views = d.views /\ e.texts = d.texts
      /\ e = [rowids |-> e.rowids, lastRowid |-> e.lastRowid, chunks |-> e.chunks,
              vectors |-> e.vectors, views |-> e.views, texts |-> e.texts, aux |-> e.aux]
  OBVIOUS
<1> QED
  BY <1>1 DEF TablesType

\* The same of the long texts, by rowid.
LEMMA TextsTyped ==
  ASSUME VecConstants, NEW d, TablesType(d), NEW e,
         \E x : e = [rowids |-> d.rowids, lastRowid |-> d.lastRowid, chunks |-> d.chunks,
                     vectors |-> d.vectors, views |-> d.views, texts |-> x, aux |-> d.aux],
         DOMAIN e.texts \subseteq Rowids
  PROVE  /\ TablesType(e) /\ e.rowids = d.rowids /\ e.lastRowid = d.lastRowid
         /\ e.chunks = d.chunks /\ e.vectors = d.vectors /\ e.views = d.views /\ e.aux = d.aux
<1>1. /\ e.rowids = d.rowids /\ e.lastRowid = d.lastRowid /\ e.chunks = d.chunks
      /\ e.vectors = d.vectors /\ e.views = d.views /\ e.aux = d.aux
      /\ e = [rowids |-> e.rowids, lastRowid |-> e.lastRowid, chunks |-> e.chunks,
              vectors |-> e.vectors, views |-> e.views, texts |-> e.texts, aux |-> e.aux]
  OBVIOUS
<1> QED
  BY <1>1 DEF TablesType

\* The position of the row.
LEMMA PositionKeeps ==
  ASSUME VecConstants, StorageInv, InsertPosition
  PROVE  StorageInv' /\ Promised
<1> USE DEF InsertStep, Unset, Unplaced, Clearing, Updating, TextStep
<1> DEFINE r == place.rowid
<1>1. /\ step = "position" /\ step' = "aux"
      /\ db' = RowidsUpdatePosition(db, r, place.chunk, place.offset)
      /\ UNCHANGED <<Rest, Kept, place, buffer, told, faults>>
  BY DEF InsertPosition, Write
<1>2. /\ IsInsertion(stmt) /\ stmt.op = "insert" /\ place \in PlaceType
      /\ TablesType(db) /\ TablesType(before)
      /\ ElsewhereKept(before, db, place) /\ LengthsOK /\ db.texts = before.texts /\ InsertOK
  BY <1>1, InsertKnows
<1>3. UNCHANGED <<saved, open, textKey, stmt, before, place>>
  BY <1>1 DEF Rest, Kept
<1>4. NewRowOK /\ NewPositionOK
  BY <1>1, <1>2 DEF InsertOK
<1>5. r \in DOMAIN db.rowids /\ db.rowids[r] \in Position
  BY <1>2, <1>4 DEF NewRowOK, TablesType
<1> DEFINE k == [id |-> db.rowids[r].id, chunk |-> place.chunk, offset |-> place.offset]
           rows == [db.rowids EXCEPT ![r] = k]
<1>6. k \in Position
  BY <1>2, <1>5 DEF Position, PlaceType
<1>7. db' = [rowids |-> rows, lastRowid |-> db.lastRowid, chunks |-> db.chunks,
             vectors |-> db.vectors, views |-> db.views, texts |-> db.texts, aux |-> db.aux]
  <2>1. db = [rowids |-> db.rowids, lastRowid |-> db.lastRowid, chunks |-> db.chunks,
              vectors |-> db.vectors, views |-> db.views, texts |-> db.texts, aux |-> db.aux]
    BY <1>2 DEF TablesType
  <2>2. db.rowids[r] =
          [id |-> db.rowids[r].id, chunk |-> db.rowids[r].chunk, offset |-> db.rowids[r].offset]
    BY <1>5 DEF Position
  <2> DEFINE k0 == [id |-> db.rowids[r].id, chunk |-> place.chunk, offset |-> db.rowids[r].offset]
             rows0 == [db.rowids EXCEPT ![r] = k0]
             d0 == [db EXCEPT !.rowids[r].chunk = place.chunk]
  <2>3. [db.rowids[r] EXCEPT !.chunk = place.chunk] = k0
    BY <2>2
  <2>4. d0 = [rowids |-> rows0, lastRowid |-> db.lastRowid, chunks |-> db.chunks,
              vectors |-> db.vectors, views |-> db.views, texts |-> db.texts, aux |-> db.aux]
    BY <2>1, <2>3
  <2>5. db' = [d0 EXCEPT !.rowids[r].offset = place.offset]
    BY <1>1 DEF RowidsUpdatePosition
  <2>6. [k0 EXCEPT !.offset = place.offset] = k
    OBVIOUS
  <2> HIDE DEF k, k0, d0
  <2>7. d0.rowids = rows0 /\ rows0[r] = k0 /\ [rows0 EXCEPT ![r] = k] = rows
    BY <1>5, <2>4
  <2>8. [d0.rowids EXCEPT ![r].offset = place.offset] = rows
    BY <2>6, <2>7
  <2> QED
    BY <2>4, <2>5, <2>8
<1>8. k.id = db.rowids[r].id /\ k.chunk = place.chunk /\ k.offset = place.offset
  OBVIOUS
<1> HIDE DEF k
<1>9. /\ DOMAIN rows = DOMAIN db.rowids /\ rows[r] = k
      /\ \A x \in DOMAIN db.rowids \ {r} : rows[x] = db.rowids[x]
  BY <1>5
<1> HIDE DEF rows
<1>10. \A x \in DOMAIN rows : x \in DOMAIN db.rowids /\ rows[x] \in Position
  BY <1>2, <1>6, <1>9 DEF TablesType
<1>11. /\ TablesType(db') /\ db'.lastRowid = db.lastRowid /\ db'.chunks = db.chunks
       /\ db'.vectors = db.vectors /\ db'.views = db.views /\ db'.texts = db.texts
       /\ db'.aux = db.aux /\ db'.rowids = rows
  <2>1. db'.rowids = rows
    BY <1>7
  <2>2. \E x : db' = [rowids |-> x, lastRowid |-> db.lastRowid, chunks |-> db.chunks,
             vectors |-> db.vectors, views |-> db.views, texts |-> db.texts, aux |-> db.aux]
    BY <1>7
  <2> QED
    BY <1>2, <1>10, <2>1, <2>2, RowidsTyped
<1>12. ElsewhereKept(before, db, place)'
  BY <1>2, <1>3, <1>9, <1>11 DEF ElsewhereKept, KeptRow, KeptPosition
<1>13. LengthsOK'
  BY <1>1, <1>2, <1>11 DEF LengthsOK
<1>14. NewRowOK' /\ NewPositionOK'
  BY <1>1, <1>3, <1>4, <1>8, <1>9, <1>11 DEF NewRowOK, NewPositionOK, Placed
<1>15. Running'
  BY <1>1, <1>2, <1>3, <1>11, <1>12, <1>13, <1>14 DEF Running, InsertOK
<1> QED
  BY <1>1, <1>2, <1>3, <1>11, <1>15, MiddleStep

\* The auxiliary value.
LEMMA InsertAuxKeeps ==
  ASSUME VecConstants, StorageInv, InsertAux
  PROVE  StorageInv' /\ Promised
<1> USE DEF InsertStep, Unset, Unplaced, Clearing, Updating, TextStep
<1>1. step = "aux" /\ faults' = faults
  BY DEF InsertAux
<1>2. CASE stmt.aux = BadType
  BY <1>1, <1>2, FailStep DEF InsertAux
<1>3. CASE stmt.aux # BadType
  <2> DEFINE r == place.rowid
             values == With(db.aux, r, stmt.aux)
  <2>1. /\ step' = "metadata" /\ db' = [db EXCEPT !.aux = values]
        /\ UNCHANGED <<Rest, Kept, place, buffer, told, faults>>
    BY <1>1, <1>3 DEF InsertAux, Write
  <2>2. /\ IsInsertion(stmt) /\ stmt.op = "insert" /\ place \in PlaceType
        /\ TablesType(db) /\ TablesType(before) /\ BadType \notin {stmt.part, stmt.vector}
        /\ ElsewhereKept(before, db, place) /\ LengthsOK /\ db.texts = before.texts /\ InsertOK
    BY <1>1, InsertKnows
  <2>3. UNCHANGED <<saved, open, textKey, stmt, before, place>>
    BY <2>1 DEF Rest, Kept
  <2>4. NewRowOK /\ NewPositionOK
    BY <1>1, <2>2 DEF InsertOK
  <2>5. r \in Rowids
    BY <2>2, <2>4 DEF NewRowOK, TablesType
  <2>6. /\ DOMAIN values = DOMAIN db.aux \cup {r} /\ values[r] = stmt.aux
        /\ \A x \in DOMAIN db.aux \ {r} : values[x] = db.aux[x]
    BY DEF With
  <2> HIDE DEF values
  <2>7. db' = [rowids |-> db.rowids, lastRowid |-> db.lastRowid, chunks |-> db.chunks,
               vectors |-> db.vectors, views |-> db.views, texts |-> db.texts, aux |-> values]
    BY <2>1, <2>2 DEF TablesType
  <2>8. /\ TablesType(db') /\ db'.rowids = db.rowids /\ db'.lastRowid = db.lastRowid
        /\ db'.chunks = db.chunks /\ db'.vectors = db.vectors /\ db'.views = db.views
        /\ db'.texts = db.texts /\ db'.aux = values
    <3>1. db'.aux = values
      BY <2>7
    <3>2. \E x : db' = [rowids |-> db.rowids, lastRowid |-> db.lastRowid, chunks |-> db.chunks,
               vectors |-> db.vectors, views |-> db.views, texts |-> db.texts, aux |-> x]
      BY <2>7
    <3>3. DOMAIN values \subseteq Rowids
      BY <2>2, <2>5, <2>6 DEF TablesType
    <3> QED
      BY <2>2, <3>1, <3>2, <3>3, AuxTyped
  <2>9. ElsewhereKept(before, db, place)'
    BY <2>2, <2>3, <2>6, <2>8 DEF ElsewhereKept, KeptRow, KeptPosition
  <2>10. LengthsOK'
    BY <1>1, <2>1, <2>2, <2>8 DEF LengthsOK
  <2>11. NewRowOK' /\ NewPositionOK'
    BY <1>1, <2>1, <2>3, <2>4, <2>8 DEF NewRowOK, NewPositionOK, Placed
  <2>12. Running'
    BY <1>3, <2>1, <2>2, <2>3, <2>6, <2>8, <2>9, <2>10, <2>11 DEF Running, InsertOK
  <2> QED
    BY <1>1, <2>1, <2>2, <2>8, <2>12, MiddleStep
<1> QED
  BY <1>2, <1>3

\* What is known of an UPDATE at work, and of a DELETE.
LEMMA UpdateKnows ==
  ASSUME VecConstants, StorageInv, step \in Updating \cup TextStep,
         stmt.op = "update" \/ step \in Updating
  PROVE  /\ IsRevision(stmt) /\ stmt.op = "update" /\ place \in PlaceType
         /\ TablesType(db) /\ TablesType(before) /\ Agree(before)
         /\ ElsewhereKept(before, db, place) /\ LengthsOK
         /\ step # "updateVector" => db.texts = before.texts
         /\ UpdateOK /\ textKey \in BOOLEAN /\ faults \in Nat
<1>1. IsRevision(stmt) /\ stmt.op = "update"
  BY DEF StorageInv, StatementOK, IsInsertion, IsRevision
<1>2. Running
  BY DEF StorageInv, Updating, TextStep
<1> QED
  BY <1>1, <1>2 DEF StorageInv, StatementOK, StorageTyped, Running, Updating, TextStep

\* What is known at a step of a delete that has found its row.
LEMMA DeleteKnows ==
  ASSUME VecConstants, StorageInv, step \in Clearing
  PROVE  /\ IsDeletion(stmt) /\ stmt.op = "delete" /\ place \in PlaceType
         /\ TablesType(db) /\ TablesType(before) /\ Agree(before)
         /\ ElsewhereKept(before, db, place) /\ LengthsOK
         /\ db.texts = before.texts
         /\ DeleteOK /\ textKey \in BOOLEAN /\ faults \in Nat
<1>1. IsDeletion(stmt) /\ stmt.op = "delete"
  BY DEF StorageInv, StatementOK, IsDeletion
<1>2. Running
  BY DEF StorageInv, Clearing
<1> QED
  BY <1>1, <1>2 DEF StorageInv, StatementOK, StorageTyped, Running, Clearing

\* The row of an UPDATE or a DELETE is the one it names, where it was.
LEMMA TargetIsRow ==
  ASSUME Agree(before), db = before, stmt.row \in DOMAIN before.rowids, textKey \in BOOLEAN
  PROVE  Target = stmt.row
<1>1. CASE textKey
  <2>1. RowidsOf(db, db.rowids[stmt.row].id) = {stmt.row}
    BY <1>1 DEF Agree, KeysOK
  <2> QED
    BY <1>1, <2>1 DEF Target
<1>2. CASE ~textKey
  BY <1>2 DEF Target
<1> QED
  BY <1>1, <1>2

\* vec0_get_chunk_position finds the chunk and offset _rowids names.
LEMMA RowIsPlaced ==
  ASSUME VecConstants, TablesType(before), NEW r \in DOMAIN before.rowids, db = before,
         place' = Located(r)
  PROVE  /\ place' \in PlaceType /\ place'.rowid = r
         /\ place'.chunk = before.rowids[r].chunk /\ place'.offset = before.rowids[r].offset
<1>1. before.rowids[r] \in Position /\ r \in Rowids
  BY DEF TablesType
<1>2. place' = [rowid |-> r, chunk |-> before.rowids[r].chunk,
                offset |-> before.rowids[r].offset, long |-> FALSE]
  BY DEF Located, ChunkPosition
<1> QED
  BY <1>1, <1>2 DEF PlaceType, Position, Rowids

\* A write to the metadata, where the statement is: the view.
LEMMA ViewKeeps ==
  ASSUME VecConstants, StorageInv, WriteView
  PROVE  StorageInv' /\ Promised
<1> USE DEF InsertStep, Unset, Unplaced, Clearing, Updating, TextStep
<1> DEFINE c == place.chunk  o == place.offset
<1>1. step = "metadata" /\ faults' = faults
  BY DEF WriteView
<1>2. CASE stmt.text \in {BadType, Null} \/ c \notin DOMAIN db.views
  BY <1>1, <1>2, FailStep DEF WriteView
<1>3. CASE ~(stmt.text \in {BadType, Null} \/ c \notin DOMAIN db.views)
  <2>1. /\ step' = "text" /\ db' = [db EXCEPT !.views[c][o] = ViewOf(stmt.text)]
        /\ place' = [place EXCEPT !.long = db.views[c][o] = Cut]
        /\ UNCHANGED <<Rest, Kept, buffer, told, faults>>
    BY <1>1, <1>3 DEF WriteView, Write
  <2>2. UNCHANGED <<saved, open, textKey, stmt, before>>
    BY <2>1 DEF Rest, Kept
  <2>3. /\ place \in PlaceType /\ TablesType(db) /\ TablesType(before)
        /\ ElsewhereKept(before, db, place) /\ LengthsOK /\ db.texts = before.texts
        /\ stmt.op = "insert" \/ stmt.op = "update"
        /\ stmt.text \in Views \ {Cut}
    <3>1. (IsRevision(stmt) \/ IsInsertion(stmt)) /\ Running
      BY <1>1 DEF StorageInv, StatementOK
    <3> QED
      BY <1>1, <3>1 DEF StorageInv, StatementOK, StorageTyped, Running, IsInsertion, IsRevision
  <2>4. /\ place' \in PlaceType /\ place'.rowid = place.rowid
        /\ place'.chunk = c /\ place'.offset = o /\ (place'.long <=> db.views[c][o] = Cut)
    BY <2>1, <2>3 DEF PlaceType
  <2>5. /\ db.views \in Seq(ViewChunk) /\ db.chunks \in Seq(ChunkType)
        /\ Len(db.views) = Len(db.chunks) /\ o \in Offset
    BY <1>1, <2>3 DEF TablesType, LengthsOK, PlaceType
  <2>6. db.views[c] \in ViewChunk
    BY <1>3, <2>5
  <2> DEFINE k == [db.views[c] EXCEPT ![o] = ViewOf(stmt.text)]
  <2>7. /\ k \in ViewChunk /\ k[o] = ViewOf(stmt.text)
        /\ \A y \in Offset \ {o} : k[y] = db.views[c][y]
    BY <2>3, <2>5, <2>6 DEF ViewChunk, ViewOf, Views
  <2>8. db' = [rowids |-> db.rowids, lastRowid |-> db.lastRowid, chunks |-> db.chunks,
               vectors |-> db.vectors, views |-> [db.views EXCEPT ![c] = k],
               texts |-> db.texts, aux |-> db.aux]
    BY <2>1, <2>3 DEF TablesType
  <2> HIDE DEF k
  <2>9. /\ TablesType(db') /\ db'.rowids = db.rowids /\ db'.lastRowid = db.lastRowid
        /\ db'.chunks = db.chunks /\ db'.vectors = db.vectors /\ db'.texts = db.texts
        /\ db'.aux = db.aux /\ db'.views = [db.views EXCEPT ![c] = k]
    <3>1. db'.views = [db.views EXCEPT ![c] = k]
      BY <2>8
    <3>2. \E x : db' = [rowids |-> db.rowids, lastRowid |-> db.lastRowid, chunks |-> db.chunks,
               vectors |-> db.vectors, views |-> x, texts |-> db.texts, aux |-> db.aux]
      BY <2>8
    <3> QED
      BY <1>3, <2>3, <2>7, <3>1, <3>2, ViewsTyped
  <2>10. /\ Len(db'.views) = Len(db.views) /\ DOMAIN db'.views = DOMAIN db.views
         /\ db'.views[c] = k /\ \A x \in DOMAIN db.views \ {c} : db'.views[x] = db.views[x]
    BY <1>3, <2>5, <2>7, <2>9
  <2>11. ElsewhereKept(before, db, place)'
    <3>1. \A x \in DOMAIN before.chunks : x \in DOMAIN db.views
      BY <2>3, <2>5 DEF ElsewhereKept, TablesType
    <3>2. \A x \in DOMAIN before.chunks, y \in Offset :
            x # c \/ y # o => db'.views[x][y] = db.views[x][y]
      BY <2>5, <2>7, <2>10, <3>1
    <3> QED
      BY <2>2, <2>3, <2>4, <2>9, <3>2 DEF ElsewhereKept, KeptRow, KeptPosition
  <2>12. LengthsOK'
    BY <1>1, <2>1, <2>3, <2>9, <2>10 DEF LengthsOK
  <2>13. View' = ViewOf(stmt.text)
    BY <2>4, <2>7, <2>10 DEF View
  <2>14. CASE stmt.op = "insert"
    <3>1. InsertOK /\ IsInsertion(stmt)
      BY <1>1, <2>14, InsertKnows
    <3>2. NewRowOK /\ NewPositionOK
      BY <1>1, <3>1 DEF InsertOK
    <3>3. NewRowOK' /\ NewPositionOK'
      BY <1>1, <2>1, <2>2, <2>4, <2>9, <3>2 DEF NewRowOK, NewPositionOK, Placed
    <3>4. InsertOK'
      BY <1>1, <1>3, <2>1, <2>2, <2>4, <2>9, <2>13, <3>1, <3>3 DEF InsertOK
    <3>5. Running'
      BY <2>1, <2>2, <2>3, <2>9, <2>11, <2>12, <2>14, <3>4 DEF Running
    <3> QED
      BY <1>1, <2>1, <2>4, <2>9, <2>14, <3>5, MiddleStep
  <2>15. CASE stmt.op = "update"
    <3>1. UpdateOK
      BY <1>1, <2>15, UpdateKnows
    <3>2. stmt.text # NoValue /\ db.views = before.views /\ Placed(before)
      BY <1>1, <3>1 DEF UpdateOK
    <3>3. NewText'
      BY <1>3, <2>2, <2>13, <3>2 DEF NewText
    <3>4. Placed(before)'
      BY <2>2, <2>4, <3>2 DEF Placed
    <3>5. UpdateOK'
      BY <1>1, <2>1, <2>2, <2>4, <2>9, <3>1, <3>2, <3>3, <3>4 DEF UpdateOK
    <3>6. Running'
      BY <2>1, <2>2, <2>3, <2>9, <2>11, <2>12, <2>15, <3>5 DEF Running
    <3> QED
      BY <1>1, <2>1, <2>4, <2>9, <2>15, <3>6, MiddleStep
  <2> QED
    BY <2>3, <2>14, <2>15
<1> QED
  BY <1>2, <1>3

-----------------------------------------------------------------------------
(***************************************************************************)
(* DELETE and UPDATE.                                                      *)
(***************************************************************************)
\* A byte written back has one bit less and the others as they were.
LEMMA OneBitLess ==
  ASSUME NEW o \in Offset, NEW v \in SUBSET Offset
  PROVE  ByteWritten(v, o, (v \cap ByteOf(o)) \ {o}) = v \ {o}
BY DEF ByteWritten, ByteOf

\* The validity bit is cleared.
LEMMA ClearValidityKeeps ==
  ASSUME VecConstants, StorageInv, DeleteClearValidity
  PROVE  StorageInv' /\ Promised
<1> USE DEF InsertStep, Unset, Unplaced, Clearing, Updating, TextStep
<1>1. step = "clearValidity" /\ faults' = faults /\ Running
  BY DEF DeleteClearValidity, StorageInv
<1>2. /\ IsDeletion(stmt) /\ stmt.op = "delete" /\ TablesType(before) /\ Agree(before)
      /\ textKey \in BOOLEAN /\ LengthsOK /\ DeleteOK
  BY <1>1 DEF StorageInv, StatementOK, StorageTyped, Running, IsDeletion
<1>3. db = before /\ stmt.row \in DOMAIN before.rowids
  BY <1>1, <1>2 DEF DeleteOK
<1>4. Target = stmt.row
  BY <1>2, <1>3, TargetIsRow
<1> DEFINE c == Located(stmt.row).chunk  o == Located(stmt.row).offset
<1>5. CASE Fail
  BY <1>1, <1>5, FailStep
<1>6. CASE ~Fail
  <2> DEFINE bits == ByteWritten(db.chunks[c].validity, o,
                                 (db.chunks[c].validity \cap ByteOf(o)) \ {o})
  <2>1. /\ place' = Located(stmt.row) /\ step' = "deleteRowids"
        /\ db' = [db EXCEPT !.chunks[c].validity = bits]
        /\ UNCHANGED <<Rest, Kept, buffer, told, faults>>
    BY <1>4, <1>6 DEF DeleteClearValidity, Write
  <2>2. UNCHANGED <<saved, open, textKey, stmt, before>>
    BY <2>1 DEF Rest, Kept
  <2>3. /\ place' \in PlaceType /\ place'.rowid = stmt.row /\ place'.chunk = c
        /\ place'.offset = o
        /\ c = before.rowids[stmt.row].chunk /\ o = before.rowids[stmt.row].offset
    BY <1>2, <1>3, <2>1, RowIsPlaced
  <2>4. c \in DOMAIN db.chunks /\ o \in Offset /\ db.chunks \in Seq(ChunkType)
    BY <1>2, <1>3, <2>3 DEF Agree, RowsAgree, ChunkPosition, TablesType, Position
  <2> HIDE DEF c, o
  <2>5. db.chunks[c] \in ChunkType
    BY <2>4
  <2>6. bits = db.chunks[c].validity \ {o}
    BY <2>4, <2>5, OneBitLess DEF ChunkType
  <2> HIDE DEF bits
  <2> DEFINE k == [db.chunks[c] EXCEPT !.validity = bits]
  <2>7. /\ k \in ChunkType /\ k.part = db.chunks[c].part /\ k.rowids = db.chunks[c].rowids
        /\ k.validity = db.chunks[c].validity \ {o}
    BY <2>5, <2>6 DEF ChunkType
  <2>8. db' = [rowids |-> db.rowids, lastRowid |-> db.lastRowid,
               chunks |-> [db.chunks EXCEPT ![c] = k],
               vectors |-> db.vectors, views |-> db.views, texts |-> db.texts, aux |-> db.aux]
    BY <1>2, <1>3, <2>1 DEF TablesType
  <2> HIDE DEF k
  <2>9. /\ TablesType(db') /\ db'.rowids = db.rowids /\ db'.lastRowid = db.lastRowid
        /\ db'.vectors = db.vectors /\ db'.views = db.views /\ db'.texts = db.texts
        /\ db'.aux = db.aux /\ db'.chunks = [db.chunks EXCEPT ![c] = k]
    <3>1. db'.chunks = [db.chunks EXCEPT ![c] = k]
      BY <2>8
    <3>2. \E x : db' = [rowids |-> db.rowids, lastRowid |-> db.lastRowid, chunks |-> x,
               vectors |-> db.vectors, views |-> db.views, texts |-> db.texts, aux |-> db.aux]
      BY <2>8
    <3>3. TablesType(db)
      BY <1>2, <1>3
    <3>4. \E x \in DOMAIN db.chunks, y \in ChunkType : db'.chunks = [db.chunks EXCEPT ![x] = y]
      BY <2>4, <2>7, <3>1
    <3> QED
      BY <3>1, <3>2, <3>3, <3>4, ChunksTyped
  <2>10. /\ Len(db'.chunks) = Len(db.chunks) /\ DOMAIN db'.chunks = DOMAIN db.chunks
         /\ db'.chunks[c] = k /\ \A x \in DOMAIN db.chunks \ {c} : db'.chunks[x] = db.chunks[x]
    BY <2>4, <2>7, <2>9
  <2>11. ElsewhereKept(before, db, place)'
    <3>1. \A x \in DOMAIN db.chunks :
            /\ db'.chunks[x].part = db.chunks[x].part
            /\ db'.chunks[x].rowids = db.chunks[x].rowids
            /\ \A y \in Offset : x # c \/ y # o =>
                 (y \in db'.chunks[x].validity <=> y \in db.chunks[x].validity)
      BY <2>4, <2>7, <2>10
    <3>2. Len(db.chunks) \in Nat
      BY <2>4
    <3>3. \A x : KeptRow(before, db, x)'
      BY <1>3, <2>2, <2>9 DEF KeptRow
    <3>4. \A x \in DOMAIN before.chunks, y \in Offset :
            x # c \/ y # o => KeptPosition(before, db, x, y)'
      BY <1>3, <2>2, <2>9, <3>1 DEF KeptPosition
    <3>5. \A x \in DOMAIN before.chunks : db'.chunks[x].part = before.chunks[x].part
      BY <1>3, <3>1
    <3>6. Len(before.chunks) <= Len(db'.chunks) /\ DOMAIN db'.chunks = DOMAIN before.chunks
      BY <1>3, <2>10, <3>2
    <3> QED
      BY <2>2, <2>3, <3>3, <3>4, <3>5, <3>6 DEF ElsewhereKept
  <2>12. LengthsOK'
    BY <1>1, <1>2, <2>1, <2>9, <2>10 DEF LengthsOK
  <2>13. DeleteOK'
    BY <1>3, <2>1, <2>2, <2>3, <2>7, <2>9, <2>10 DEF DeleteOK, Placed
  <2>14. Running'
    BY <1>2, <1>3, <2>1, <2>2, <2>9, <2>11, <2>12, <2>13 DEF Running
  <2> QED
    BY <1>1, <1>2, <2>1, <2>3, <2>9, <2>14, MiddleStep
<1> QED
  BY <1>5, <1>6

\* The row of _rowids is deleted, and its auxiliary value.
LEMMA DeleteRowidsKeeps ==
  ASSUME VecConstants, StorageInv, DeleteRowids
  PROVE  StorageInv' /\ Promised
<1> USE DEF InsertStep, Unset, Unplaced, Clearing, Updating, TextStep
<1> DEFINE r == place.rowid
           rows == Restrict(db.rowids, DOMAIN db.rowids \ {r})
<1>1. /\ step = "deleteRowids" /\ step' = "deleteAux" /\ db' = [db EXCEPT !.rowids = rows]
      /\ UNCHANGED <<Rest, Kept, place, buffer, told, faults>>
  BY DEF DeleteRowids, Write
<1>2. /\ IsDeletion(stmt) /\ stmt.op = "delete" /\ place \in PlaceType
      /\ TablesType(db) /\ TablesType(before)
      /\ ElsewhereKept(before, db, place) /\ LengthsOK /\ db.texts = before.texts /\ DeleteOK
  BY <1>1, DeleteKnows
<1>3. UNCHANGED <<saved, open, textKey, stmt, before, place>>
  BY <1>1 DEF Rest, Kept
<1>4. /\ DOMAIN rows = DOMAIN db.rowids \ {r}
      /\ \A x \in DOMAIN db.rowids \ {r} : rows[x] = db.rowids[x]
  BY DEF Restrict
<1> HIDE DEF rows
<1>5. db' = [rowids |-> rows, lastRowid |-> db.lastRowid, chunks |-> db.chunks,
             vectors |-> db.vectors, views |-> db.views, texts |-> db.texts, aux |-> db.aux]
  BY <1>1, <1>2 DEF TablesType
<1>6. /\ TablesType(db') /\ db'.lastRowid = db.lastRowid /\ db'.chunks = db.chunks
      /\ db'.vectors = db.vectors /\ db'.views = db.views /\ db'.texts = db.texts
      /\ db'.aux = db.aux /\ db'.rowids = rows
  <2>1. db'.rowids = rows
    BY <1>5
  <2>2. \E x : db' = [rowids |-> x, lastRowid |-> db.lastRowid, chunks |-> db.chunks,
             vectors |-> db.vectors, views |-> db.views, texts |-> db.texts, aux |-> db.aux]
    BY <1>5
  <2>3. \A x \in DOMAIN rows : x \in DOMAIN db.rowids /\ rows[x] \in Position
    BY <1>2, <1>4 DEF TablesType
  <2> QED
    BY <1>2, <2>1, <2>2, <2>3, RowidsTyped
<1>7. ElsewhereKept(before, db, place)'
  BY <1>2, <1>3, <1>4, <1>6 DEF ElsewhereKept, KeptRow, KeptPosition
<1>8. LengthsOK'
  BY <1>1, <1>2, <1>6 DEF LengthsOK
<1>9. DeleteOK'
  BY <1>1, <1>2, <1>3, <1>4, <1>6 DEF DeleteOK, Placed
<1>10. Running'
  BY <1>1, <1>2, <1>3, <1>6, <1>7, <1>8, <1>9 DEF Running
<1> QED
  BY <1>1, <1>2, <1>3, <1>6, <1>10, MiddleStep

\* A delete drops the row's auxiliary values.
LEMMA DeleteAuxKeeps ==
  ASSUME VecConstants, StorageInv, DeleteAux
  PROVE  StorageInv' /\ Promised
<1> USE DEF InsertStep, Unset, Unplaced, Clearing, Updating, TextStep
<1> DEFINE r == place.rowid
           values == Restrict(db.aux, DOMAIN db.aux \ {r})
<1>1. /\ step = "deleteAux" /\ step' = "clearView" /\ db' = [db EXCEPT !.aux = values]
      /\ UNCHANGED <<Rest, Kept, place, buffer, told, faults>>
  BY DEF DeleteAux, Write
<1>2. /\ IsDeletion(stmt) /\ stmt.op = "delete" /\ place \in PlaceType
      /\ TablesType(db) /\ TablesType(before)
      /\ ElsewhereKept(before, db, place) /\ LengthsOK /\ db.texts = before.texts /\ DeleteOK
  BY <1>1, DeleteKnows
<1>3. UNCHANGED <<saved, open, textKey, stmt, before, place>>
  BY <1>1 DEF Rest, Kept
<1>4. /\ DOMAIN values = DOMAIN db.aux \ {r}
      /\ \A x \in DOMAIN db.aux \ {r} : values[x] = db.aux[x]
  BY DEF Restrict
<1> HIDE DEF values
<1>5. db' = [rowids |-> db.rowids, lastRowid |-> db.lastRowid, chunks |-> db.chunks,
             vectors |-> db.vectors, views |-> db.views, texts |-> db.texts, aux |-> values]
  BY <1>1, <1>2 DEF TablesType
<1>6. /\ TablesType(db') /\ db'.rowids = db.rowids /\ db'.lastRowid = db.lastRowid
      /\ db'.chunks = db.chunks /\ db'.vectors = db.vectors /\ db'.views = db.views
      /\ db'.texts = db.texts /\ db'.aux = values
  <2>1. db'.aux = values
    BY <1>5
  <2>2. \E x : db' = [rowids |-> db.rowids, lastRowid |-> db.lastRowid, chunks |-> db.chunks,
             vectors |-> db.vectors, views |-> db.views, texts |-> db.texts, aux |-> x]
    BY <1>5
  <2>3. DOMAIN values \subseteq Rowids
    BY <1>2, <1>4 DEF TablesType
  <2> QED
    BY <1>2, <2>1, <2>2, <2>3, AuxTyped
<1>7. ElsewhereKept(before, db, place)'
  BY <1>2, <1>3, <1>4, <1>6 DEF ElsewhereKept, KeptRow, KeptPosition
<1>8. LengthsOK'
  BY <1>1, <1>2, <1>6 DEF LengthsOK
<1>9. DeleteOK'
  BY <1>1, <1>2, <1>3, <1>4, <1>6 DEF DeleteOK, Placed
<1>10. Running'
  BY <1>1, <1>2, <1>3, <1>6, <1>7, <1>8, <1>9 DEF Running
<1> QED
  BY <1>1, <1>2, <1>3, <1>6, <1>10, MiddleStep

\* The view of a deleted row.
LEMMA ClearViewKeeps ==
  ASSUME VecConstants, StorageInv, ClearView
  PROVE  StorageInv' /\ Promised
<1> USE DEF InsertStep, Unset, Unplaced, Clearing, Updating, TextStep
<1> DEFINE c == place.chunk  o == place.offset
<1>1. step = "clearView"
  BY DEF ClearView
<1>2. /\ IsDeletion(stmt) /\ stmt.op = "delete" /\ place \in PlaceType
      /\ TablesType(db) /\ TablesType(before) /\ Agree(before)
      /\ ElsewhereKept(before, db, place) /\ LengthsOK /\ db.texts = before.texts /\ DeleteOK
  BY <1>1, DeleteKnows
<1>3. /\ Placed(before) /\ place.rowid = stmt.row /\ db.views = before.views
      /\ stmt.row \in DOMAIN before.rowids
  BY <1>1, <1>2 DEF DeleteOK
<1>4. /\ db.views \in Seq(ViewChunk) /\ Len(db.views) = Len(db.chunks) /\ o \in Offset
      /\ db.chunks \in Seq(ChunkType) /\ before.chunks \in Seq(ChunkType)
  BY <1>1, <1>2 DEF TablesType, LengthsOK, PlaceType
<1>5. c \in DOMAIN db.views
  <2>1. c \in DOMAIN before.chunks
    BY <1>2, <1>3 DEF Agree, RowsAgree, ChunkPosition, Placed
  <2> QED
    BY <1>2, <1>4, <2>1 DEF ElsewhereKept
<1>6. /\ step' = "clearText" /\ db' = [db EXCEPT !.views[c][o] = Blank]
      /\ place' = [place EXCEPT !.long = db.views[c][o] = Cut]
      /\ UNCHANGED <<Rest, Kept, buffer, told, faults>>
  BY <1>5 DEF ClearView, Write
<1>7. UNCHANGED <<saved, open, textKey, stmt, before>>
  BY <1>6 DEF Rest, Kept
<1>8. /\ place' \in PlaceType /\ place'.rowid = place.rowid
      /\ place'.chunk = c /\ place'.offset = o /\ (place'.long <=> db.views[c][o] = Cut)
  BY <1>2, <1>6 DEF PlaceType
<1> DEFINE k == [db.views[c] EXCEPT ![o] = Blank]
<1>9. db.views[c] \in ViewChunk
  BY <1>4, <1>5
<1>10. k \in ViewChunk /\ \A y \in Offset \ {o} : k[y] = db.views[c][y]
  BY <1>4, <1>9 DEF ViewChunk, Views
<1>11. db' = [rowids |-> db.rowids, lastRowid |-> db.lastRowid, chunks |-> db.chunks,
              vectors |-> db.vectors, views |-> [db.views EXCEPT ![c] = k],
              texts |-> db.texts, aux |-> db.aux]
  BY <1>2, <1>6 DEF TablesType
<1> HIDE DEF k
<1>12. /\ TablesType(db') /\ db'.rowids = db.rowids /\ db'.lastRowid = db.lastRowid
       /\ db'.chunks = db.chunks /\ db'.vectors = db.vectors /\ db'.texts = db.texts
       /\ db'.aux = db.aux /\ db'.views = [db.views EXCEPT ![c] = k]
  <2>1. db'.views = [db.views EXCEPT ![c] = k]
    BY <1>11
  <2>2. \E x : db' = [rowids |-> db.rowids, lastRowid |-> db.lastRowid, chunks |-> db.chunks,
             vectors |-> db.vectors, views |-> x, texts |-> db.texts, aux |-> db.aux]
    BY <1>11
  <2> QED
    BY <1>2, <1>5, <1>10, <2>1, <2>2, ViewsTyped
<1>13. /\ Len(db'.views) = Len(db.views)
       /\ db'.views[c] = k /\ \A x \in DOMAIN db.views \ {c} : db'.views[x] = db.views[x]
  BY <1>4, <1>5, <1>10, <1>12
<1>14. ElsewhereKept(before, db, place)'
  <2>1. \A x \in DOMAIN before.chunks : x \in DOMAIN db.views
    BY <1>2, <1>4 DEF ElsewhereKept
  <2>2. \A x \in DOMAIN before.chunks, y \in Offset :
          x # c \/ y # o => db'.views[x][y] = db.views[x][y]
    BY <1>4, <1>10, <1>13, <2>1
  <2> QED
    BY <1>2, <1>7, <1>8, <1>12, <2>2 DEF ElsewhereKept, KeptRow, KeptPosition
<1>15. LengthsOK'
  BY <1>1, <1>2, <1>6, <1>12, <1>13 DEF LengthsOK
<1>16. DeleteOK'
  BY <1>1, <1>2, <1>3, <1>6, <1>7, <1>8, <1>12 DEF DeleteOK, Placed
<1>17. Running'
  BY <1>2, <1>6, <1>7, <1>12, <1>14, <1>15, <1>16 DEF Running
<1> QED
  BY <1>1, <1>2, <1>6, <1>8, <1>12, <1>17, MiddleStep

\* An UPDATE finds its row.
LEMMA UpdateChecksKeep ==
  ASSUME VecConstants, StorageInv, UpdateChecks
  PROVE  StorageInv' /\ Promised
<1> USE DEF InsertStep, Unset, Unplaced, Clearing, Updating, TextStep
<1>1. step = "update" /\ faults' = faults /\ Running
  BY DEF UpdateChecks, StorageInv
<1>2. /\ IsRevision(stmt) /\ stmt.op = "update" /\ TablesType(before) /\ Agree(before)
      /\ textKey \in BOOLEAN /\ LengthsOK /\ UpdateOK
  BY <1>1 DEF StorageInv, StatementOK, StorageTyped, Running, IsRevision
<1>3. db = before /\ stmt.row \in DOMAIN before.rowids
  BY <1>1, <1>2 DEF UpdateOK
<1>4. Target = stmt.row
  BY <1>2, <1>3, TargetIsRow
<1>5. CASE Fail
  BY <1>1, <1>5, FailStep
<1>6. CASE ~Fail
  <2>1. /\ place' = Located(stmt.row) /\ step' = "updateAux"
        /\ UNCHANGED <<Rest, Kept, buffer, told, faults, db>>
        /\ stmt.part = NoValue
        /\ textKey => stmt.key \in {NoValue, db.rowids[stmt.row].id}
    BY <1>4, <1>6 DEF UpdateChecks
  <2>2. UNCHANGED <<saved, open, textKey, stmt, before>>
    BY <2>1 DEF Rest, Kept
  <2>3. /\ place' \in PlaceType /\ place'.rowid = stmt.row
        /\ place'.chunk = before.rowids[stmt.row].chunk
        /\ place'.offset = before.rowids[stmt.row].offset
    BY <1>2, <1>3, <2>1, RowIsPlaced
  <2>4. ElsewhereKept(before, db, place)'
    <3>1. (\A x : KeptRow(before, db, x)') /\ (\A x, y : KeptPosition(before, db, x, y)')
      BY <1>3, <2>1, <2>2 DEF KeptRow, KeptPosition
    <3>2. Len(db.chunks) \in Nat
      BY <1>2, <1>3 DEF TablesType
    <3> QED
      BY <1>3, <2>1, <2>2, <3>1, <3>2 DEF ElsewhereKept
  <2>5. LengthsOK'
    BY <1>1, <1>2, <2>1 DEF LengthsOK
  <2>6. UpdateOK'
    BY <1>3, <2>1, <2>2, <2>3 DEF UpdateOK, Placed
  <2>7. Running' /\ TablesType(db')
    BY <1>2, <1>3, <2>1, <2>2, <2>4, <2>5, <2>6 DEF Running
  <2> QED
    BY <1>1, <1>2, <2>1, <2>3, <2>7, MiddleStep
<1> QED
  BY <1>5, <1>6

\* The auxiliary value of the row.
LEMMA UpdateAuxKeeps ==
  ASSUME VecConstants, StorageInv, UpdateAux
  PROVE  StorageInv' /\ Promised
<1> USE DEF InsertStep, Unset, Unplaced, Clearing, Updating, TextStep
<1> DEFINE r == place.rowid
           value == IF stmt.aux = NoValue THEN before.aux[r] ELSE stmt.aux
<1>1. /\ step = "updateAux"
      /\ step' = IF stmt.text = NoValue THEN "updateVector" ELSE "metadata"
      /\ db' = IF stmt.aux = NoValue \/ r \notin DOMAIN db.aux THEN db
               ELSE [db EXCEPT !.aux[r] = stmt.aux]
      /\ UNCHANGED <<Rest, Kept, place, buffer, told, faults>>
  BY DEF UpdateAux, Write
<1>2. /\ IsRevision(stmt) /\ stmt.op = "update" /\ place \in PlaceType
      /\ TablesType(db) /\ TablesType(before) /\ Agree(before)
      /\ ElsewhereKept(before, db, place) /\ LengthsOK /\ db.texts = before.texts /\ UpdateOK
  BY <1>1, UpdateKnows
<1>3. UNCHANGED <<saved, open, textKey, stmt, before, place>>
  BY <1>1 DEF Rest, Kept
<1>4. db.aux = before.aux /\ r \in DOMAIN before.aux /\ db.views = before.views
  BY <1>1, <1>2 DEF UpdateOK, Placed, Agree, RowsAgree
<1> DEFINE values == [db.aux EXCEPT ![r] = value]
<1>5. /\ DOMAIN values = DOMAIN db.aux /\ values[r] = value
      /\ \A x \in DOMAIN db.aux \ {r} : values[x] = db.aux[x]
  BY <1>4
<1>6. /\ TablesType(db') /\ db'.rowids = db.rowids /\ db'.lastRowid = db.lastRowid
      /\ db'.chunks = db.chunks /\ db'.vectors = db.vectors /\ db'.views = db.views
      /\ db'.texts = db.texts /\ DOMAIN db'.aux = DOMAIN db.aux /\ db'.aux[r] = value
      /\ \A x \in DOMAIN db.aux \ {r} : db'.aux[x] = db.aux[x]
  <2>1. CASE stmt.aux = NoValue
    BY <1>1, <1>2, <1>4, <2>1
  <2>2. CASE stmt.aux # NoValue
    <3>1. db' = [rowids |-> db.rowids, lastRowid |-> db.lastRowid, chunks |-> db.chunks,
                 vectors |-> db.vectors, views |-> db.views, texts |-> db.texts, aux |-> values]
      BY <1>1, <1>2, <1>4, <2>2 DEF TablesType
    <3> HIDE DEF values, value
    <3>2. db'.aux = values
      BY <3>1
    <3>3. \E x : db' = [rowids |-> db.rowids, lastRowid |-> db.lastRowid, chunks |-> db.chunks,
                 vectors |-> db.vectors, views |-> db.views, texts |-> db.texts, aux |-> x]
      BY <3>1
    <3>4. DOMAIN values \subseteq Rowids
      BY <1>2, <1>5 DEF TablesType
    <3>5. /\ TablesType(db') /\ db'.rowids = db.rowids /\ db'.lastRowid = db.lastRowid
          /\ db'.chunks = db.chunks /\ db'.vectors = db.vectors /\ db'.views = db.views
          /\ db'.texts = db.texts
      BY <1>2, <3>2, <3>3, <3>4, AuxTyped
    <3> QED
      BY <1>5, <3>2, <3>5
  <2> QED
    BY <2>1, <2>2
<1> HIDE DEF values
<1>7. ElsewhereKept(before, db, place)'
  BY <1>2, <1>3, <1>6 DEF ElsewhereKept, KeptRow, KeptPosition
<1>8. LengthsOK'
  BY <1>1, <1>2, <1>6 DEF LengthsOK
<1>9. UpdateOK'
  BY <1>1, <1>2, <1>3, <1>4, <1>6 DEF UpdateOK, Placed
<1>10. Running'
  BY <1>1, <1>2, <1>3, <1>6, <1>7, <1>8, <1>9 DEF Running
<1> QED
  BY <1>1, <1>2, <1>3, <1>6, <1>10, MiddleStep

-----------------------------------------------------------------------------
(***************************************************************************)
(* The end of a statement that is carried out.                             *)
(***************************************************************************)
\* The place is that of its row and of no other.
OwnPlace(b, p) ==
  \A r \in DOMAIN b.rowids :
    r = p.rowid <=> b.rowids[r].chunk = p.chunk /\ b.rowids[r].offset = p.offset

\* The tables with the vector chunk and the metadata chunk of every chunk.
Complete(d) == TablesType(d) /\ Len(d.vectors) = Len(d.chunks) /\ Len(d.views) = Len(d.chunks)

\* What a statement leaves at its place: a row, or none.
RowThere(d, p) ==
  /\ p.rowid \in DOMAIN d.rowids /\ p.rowid \in DOMAIN d.aux
  /\ d.rowids[p.rowid].chunk = p.chunk /\ d.rowids[p.rowid].offset = p.offset
  /\ p.chunk \in DOMAIN d.chunks /\ p.offset \in d.chunks[p.chunk].validity
  /\ d.chunks[p.chunk].rowids[p.offset] = p.rowid
  /\ d.views[p.chunk][p.offset] = Cut => p.rowid \in DOMAIN d.texts
NoRowThere(d, p) ==
  /\ p.rowid \notin DOMAIN d.rowids /\ p.rowid \notin DOMAIN d.aux
  /\ p.offset \notin d.chunks[p.chunk].validity

\* A new row's place is its own, and so is the place of a row there is.
LEMMA NewPlaceIsOwn ==
  ASSUME NEW b, NEW p, RowsAgree(b), p.rowid \notin DOMAIN b.rowids,
         p.chunk \in DOMAIN b.chunks => p.offset \notin b.chunks[p.chunk].validity
  PROVE  OwnPlace(b, p)
BY DEF OwnPlace, RowsAgree, ChunkPosition

\* The position _rowids names for a row is that row's own.
LEMMA RowsPlaceIsOwn ==
  ASSUME NEW b, NEW p, RowsAgree(b), p.rowid \in DOMAIN b.rowids,
         b.rowids[p.rowid].chunk = p.chunk, b.rowids[p.rowid].offset = p.offset
  PROVE  OwnPlace(b, p)
BY DEF OwnPlace, RowsAgree, ChunkPosition

\* The other rows stay what they were, where they were.
LEMMA OtherRowStays ==
  ASSUME NEW b, NEW d, NEW p, TablesType(b), Complete(d), RowsAgree(b),
         ElsewhereKept(b, d, p), OwnPlace(b, p), NEW r \in DOMAIN b.rowids, r # p.rowid
  PROVE  /\ r \in DOMAIN d.rowids /\ d.rowids[r] = b.rowids[r] /\ r \in DOMAIN d.aux
         /\ b.rowids[r].chunk \in DOMAIN b.chunks /\ b.rowids[r].chunk \in DOMAIN d.chunks
         /\ b.rowids[r].offset \in Offset
         /\ b.rowids[r].chunk # p.chunk \/ b.rowids[r].offset # p.offset
         /\ KeptRow(b, d, r) /\ KeptPosition(b, d, b.rowids[r].chunk, b.rowids[r].offset)
         /\ RowOf(d, r) = RowOf(b, r)
<1> DEFINE c == b.rowids[r].chunk  o == b.rowids[r].offset
<1>1. r \in Rowids /\ o \in Offset /\ c \in DOMAIN b.chunks /\ r \in DOMAIN b.aux
  BY DEF TablesType, Position, RowsAgree, ChunkPosition
<1>2. c # p.chunk \/ o # p.offset
  BY DEF OwnPlace
<1>3. KeptRow(b, d, r) /\ KeptPosition(b, d, c, o) /\ d.chunks[c].part = b.chunks[c].part
  BY <1>1, <1>2 DEF ElsewhereKept
<1>4. c \in DOMAIN d.chunks
  <2>1. /\ b.chunks \in Seq(ChunkType) /\ d.chunks \in Seq(ChunkType)
        /\ Len(b.chunks) <= Len(d.chunks)
    BY DEF TablesType, Complete, ElsewhereKept
  <2> QED
    BY <1>1, <2>1
<1>5. /\ r \in DOMAIN d.rowids /\ d.rowids[r] = b.rowids[r] /\ r \in DOMAIN d.aux
      /\ d.aux[r] = b.aux[r]
  BY <1>1, <1>3 DEF KeptRow
<1>6. /\ PartitionValue(d, r) = PartitionValue(b, r) /\ VectorData(d, r) = VectorData(b, r)
      /\ AuxiliaryValue(d, r) = AuxiliaryValue(b, r)
  BY <1>3, <1>5 DEF KeptPosition, PartitionValue, VectorData, AuxiliaryValue, ChunkPosition
<1>7. MetadataValue(d, r) = MetadataValue(b, r)
  BY <1>3, <1>5 DEF KeptPosition, KeptRow, MetadataValue, ChunkPosition
<1>8. RowOf(d, r) = RowOf(b, r)
  BY <1>5, <1>6, <1>7 DEF RowOf
<1> QED
  BY <1>1, <1>2, <1>3, <1>4, <1>5, <1>8

\* The tables agree when a statement ends, its place apart.
LEMMA TablesAgree ==
  ASSUME NEW b, NEW d, NEW p, TablesType(b), Complete(d), RowsAgree(b),
         ElsewhereKept(b, d, p), OwnPlace(b, p), RowThere(d, p) \/ NoRowThere(d, p)
  PROVE  RowsAgree(d)
<1>1. ASSUME NEW r \in DOMAIN d.rowids, r # p.rowid  PROVE r \in DOMAIN b.rowids
  <2>1. r \in Rowids
    BY DEF Complete, TablesType
  <2> QED
    BY <1>1, <2>1 DEF ElsewhereKept, KeptRow
<1>2. ASSUME NEW r \in DOMAIN d.rowids
      PROVE  /\ d.rowids[r].chunk \in DOMAIN d.chunks
             /\ d.rowids[r].offset \in d.chunks[d.rowids[r].chunk].validity
             /\ d.chunks[d.rowids[r].chunk].rowids[d.rowids[r].offset] = r
             /\ d.views[d.rowids[r].chunk][d.rowids[r].offset] = Cut => r \in DOMAIN d.texts
  <2>1. CASE r = p.rowid
    BY <2>1 DEF RowThere, NoRowThere
  <2>2. CASE r # p.rowid
    <3>1. r \in DOMAIN b.rowids
      BY <1>1, <2>2
    <3>2. /\ d.rowids[r] = b.rowids[r] /\ b.rowids[r].chunk \in DOMAIN d.chunks
          /\ KeptRow(b, d, r) /\ KeptPosition(b, d, b.rowids[r].chunk, b.rowids[r].offset)
      BY <2>2, <3>1, OtherRowStays
    <3>3. /\ b.rowids[r].offset \in b.chunks[b.rowids[r].chunk].validity
          /\ b.chunks[b.rowids[r].chunk].rowids[b.rowids[r].offset] = r
          /\ b.views[b.rowids[r].chunk][b.rowids[r].offset] = Cut => r \in DOMAIN b.texts
      BY <3>1 DEF RowsAgree, ChunkPosition
    <3> QED
      BY <3>2, <3>3 DEF KeptRow, KeptPosition
  <2> QED
    BY <2>1, <2>2
<1>3. ASSUME NEW c \in DOMAIN d.chunks, NEW o \in d.chunks[c].validity
      PROVE  /\ d.chunks[c].rowids[o] \in DOMAIN d.rowids
             /\ d.rowids[d.chunks[c].rowids[o]].chunk = c
             /\ d.rowids[d.chunks[c].rowids[o]].offset = o
  <2>1. CASE c = p.chunk /\ o = p.offset
    BY <2>1 DEF RowThere, NoRowThere
  <2>2. CASE ~(c = p.chunk /\ o = p.offset)
    <3>1. c \in DOMAIN b.chunks
      BY <2>2 DEF ElsewhereKept
    <3>2. o \in Offset
      <4>1. d.chunks[c] \in ChunkType
        BY DEF Complete, TablesType
      <4> QED
        BY <4>1 DEF ChunkType
    <3>3. KeptPosition(b, d, c, o)
      BY <2>2, <3>1, <3>2 DEF ElsewhereKept
    <3> DEFINE r == b.chunks[c].rowids[o]
    <3>4. /\ d.chunks[c].rowids[o] = r /\ r \in DOMAIN b.rowids
          /\ b.rowids[r].chunk = c /\ b.rowids[r].offset = o
      BY <3>1, <3>3 DEF KeptPosition, RowsAgree
    <3>5. r # p.rowid
      BY <2>2, <3>4 DEF OwnPlace
    <3>6. r \in DOMAIN d.rowids /\ d.rowids[r] = b.rowids[r]
      BY <3>4, <3>5, OtherRowStays
    <3> QED
      BY <3>4, <3>6
  <2> QED
    BY <2>1, <2>2
<1>4. DOMAIN d.aux = DOMAIN d.rowids
  <2>1. ASSUME NEW r  PROVE r \in DOMAIN d.aux <=> r \in DOMAIN d.rowids
    <3>1. CASE r = p.rowid
      BY <3>1 DEF RowThere, NoRowThere
    <3>2. CASE r \in Rowids \ {p.rowid}
      BY <3>2 DEF ElsewhereKept, KeptRow, RowsAgree
    <3>3. CASE r \notin Rowids
      BY <3>3 DEF Complete, TablesType
    <3> QED
      BY <3>1, <3>2, <3>3
  <2> QED
    BY <2>1
<1> QED
  BY <1>2, <1>3, <1>4 DEF RowsAgree, ChunkPosition, Complete

\* No text is left if none was, its own apart.
LEMMA NoTextStays ==
  ASSUME NEW b, NEW d, NEW p, TablesType(b), Complete(d), RowsAgree(b),
         ElsewhereKept(b, d, p), OwnPlace(b, p), NoTextIsLeft(b),
         p.rowid \in DOMAIN d.texts =>
           p.rowid \in DOMAIN d.rowids
           /\ d.views[d.rowids[p.rowid].chunk][d.rowids[p.rowid].offset] = Cut
  PROVE  NoTextIsLeft(d)
<1> SUFFICES ASSUME NEW r \in DOMAIN d.texts
             PROVE  r \in DOMAIN d.rowids /\ d.views[d.rowids[r].chunk][d.rowids[r].offset] = Cut
  BY DEF NoTextIsLeft
<1>1. CASE r = p.rowid
  BY <1>1
<1>2. CASE r # p.rowid
  <2>1. r \in Rowids
    BY DEF Complete, TablesType
  <2>2. r \in DOMAIN b.texts
    BY <1>2, <2>1 DEF ElsewhereKept, KeptRow
  <2>3. r \in DOMAIN b.rowids /\ b.views[b.rowids[r].chunk][b.rowids[r].offset] = Cut
    BY <2>2 DEF NoTextIsLeft
  <2>4. /\ r \in DOMAIN d.rowids /\ d.rowids[r] = b.rowids[r]
        /\ KeptPosition(b, d, b.rowids[r].chunk, b.rowids[r].offset)
    BY <1>2, <2>3, OtherRowStays
  <2> QED
    BY <2>3, <2>4 DEF KeptPosition
<1> QED
  BY <1>1, <1>2

\* The keys are told apart if they were, its own apart.
LEMMA KeysStay ==
  ASSUME NEW b, NEW d, NEW p, NEW isText \in BOOLEAN, TablesType(b), Complete(d), RowsAgree(b),
         ElsewhereKept(b, d, p), OwnPlace(b, p), KeysOK(b, isText),
         p.rowid \in DOMAIN d.rowids =>
           /\ isText => /\ d.rowids[p.rowid].id \in Id
                        /\ RowidsOf(b, d.rowids[p.rowid].id) \subseteq {p.rowid}
           /\ ~isText => d.rowids[p.rowid].id = NoValue
  PROVE  KeysOK(d, isText)
<1>1. ASSUME NEW r \in DOMAIN d.rowids, r # p.rowid
      PROVE  r \in DOMAIN b.rowids /\ d.rowids[r] = b.rowids[r]
  <2>1. r \in Rowids
    BY DEF Complete, TablesType
  <2> QED
    BY <1>1, <2>1 DEF ElsewhereKept, KeptRow
<1>2. CASE ~isText
  BY <1>1, <1>2 DEF KeysOK
<1>3. CASE isText
  <2>1. ASSUME NEW r \in DOMAIN d.rowids, NEW s \in DOMAIN d.rowids, d.rowids[r].id = d.rowids[s].id
        PROVE  r = s
    <3>1. CASE r # p.rowid /\ s # p.rowid
      BY <1>1, <1>3, <2>1, <3>1 DEF KeysOK, RowidsOf
    <3>2. CASE r = p.rowid /\ s # p.rowid
      BY <1>1, <1>3, <2>1, <3>2 DEF RowidsOf
    <3>3. CASE r # p.rowid /\ s = p.rowid
      BY <1>1, <1>3, <2>1, <3>3 DEF RowidsOf
    <3> QED
      BY <3>1, <3>2, <3>3
  <2>2. ASSUME NEW r \in DOMAIN d.rowids
        PROVE  d.rowids[r].id \in Id /\ RowidsOf(d, d.rowids[r].id) = {r}
    <3>1. d.rowids[r].id \in Id
      BY <1>1, <1>3 DEF KeysOK
    <3> QED
      BY <2>1, <3>1 DEF RowidsOf
  <2> QED
    BY <1>3, <2>2 DEF KeysOK
<1> QED
  BY <1>2, <1>3

\* A statement that is carried out as a whole.
LEMMA CarriedOut ==
  ASSUME step \notin {"idle", "failed"}, step' = "idle", Forget, UNCHANGED Rest, told' = "ok",
         stmt # Nothing, WellTyped(stmt, textKey),
         Promise!Inserted(stmt) \/ Promise!Updated(stmt) \/ Promise!Deleted(stmt)
  PROVE  Promised
<1>1. saved' = saved /\ open' = open /\ textKey' = textKey
  BY DEF Rest
<1>2. Promise!CarryOut
  BY <1>1 DEF Promise!CarryOut
<1> QED
  BY <1>2 DEF Promised, Promise!Next

\* The rows of the tables after a statement: the others are as they were.
LEMMA OtherRowsStay ==
  ASSUME NEW b, NEW d, NEW p, TablesType(b), Complete(d), RowsAgree(b),
         ElsewhereKept(b, d, p), OwnPlace(b, p)
  PROVE  /\ DOMAIN d.rowids \ {p.rowid} = DOMAIN b.rowids \ {p.rowid}
         /\ \A s \in DOMAIN b.rowids \ {p.rowid} : RowOf(d, s) = RowOf(b, s)
<1>1. ASSUME NEW s \in DOMAIN d.rowids \ {p.rowid}  PROVE s \in DOMAIN b.rowids
  <2>1. s \in Rowids
    BY DEF Complete, TablesType
  <2> QED
    BY <1>1, <2>1 DEF ElsewhereKept, KeptRow
<1>2. ASSUME NEW s \in DOMAIN b.rowids \ {p.rowid}
      PROVE  s \in DOMAIN d.rowids /\ RowOf(d, s) = RowOf(b, s)
  BY <1>2, OtherRowStays
<1> QED
  BY <1>1, <1>2

\* What is written of a text.
TextWritten(d) ==
  /\ TablesType(d) /\ d.rowids = db.rowids /\ d.lastRowid = db.lastRowid
  /\ d.chunks = db.chunks /\ d.vectors = db.vectors /\ d.views = db.views /\ d.aux = db.aux
  /\ \A x \in Rowids \ {place.rowid} :
       /\ x \in DOMAIN d.texts <=> x \in DOMAIN db.texts
       /\ x \in DOMAIN db.texts => d.texts[x] = db.texts[x]
  /\ stmt.text \in Long => place.rowid \in DOMAIN d.texts /\ d.texts[place.rowid] = stmt.text
  /\ stmt.text \notin Long =>
       place.rowid \notin DOMAIN d.texts \/ (~place.long /\ d.texts = db.texts)

\* Writing the metadata text fails, or leaves the view and the long text the
\* statement asked for at its own row.
LEMMA TextIsWritten ==
  ASSUME VecConstants, StorageInv, WriteText
  PROVE  (Fail /\ faults' = faults) \/ (AfterText(db') /\ TextWritten(db'))
<1>1. step = "text"
  BY DEF WriteText
<1> DEFINE r == place.rowid
<1>2. TablesType(db) /\ place \in PlaceType
  BY <1>1 DEF StorageInv, StorageTyped, StatementOK
<1>3. r \in Rowids /\ (stmt.op = "update" /\ place.long => r \in DOMAIN db.texts)
  <2>1. CASE stmt.op = "insert"
    <3>1. NewRowOK
      BY <1>1, <2>1, InsertKnows DEF TextStep, InsertOK, Unplaced
    <3> QED
      BY <1>2, <2>1, <3>1 DEF NewRowOK, TablesType
  <2>2. CASE stmt.op = "update"
    <3>1. UpdateOK /\ Agree(before) /\ TablesType(before) /\ db.texts = before.texts
      BY <1>1, <2>2, UpdateKnows DEF TextStep
    <3>2. Placed(before) /\ (place.long <=> before.views[place.chunk][place.offset] = Cut)
      BY <1>1, <3>1 DEF UpdateOK
    <3> QED
      BY <3>1, <3>2 DEF Placed, Agree, RowsAgree, ChunkPosition, TablesType
  <2> QED
    BY <1>1, <2>1, <2>2 DEF StorageInv, StatementOK, TextStep, IsInsertion, IsRevision
<1>4. ASSUME NEW texts, AfterText([db EXCEPT !.texts = texts]), DOMAIN texts \subseteq Rowids,
             \A x \in Rowids \ {r} :
               /\ x \in DOMAIN texts <=> x \in DOMAIN db.texts
               /\ x \in DOMAIN db.texts => texts[x] = db.texts[x],
             stmt.text \in Long => r \in DOMAIN texts /\ texts[r] = stmt.text,
             stmt.text \notin Long => r \notin DOMAIN texts \/ (~place.long /\ texts = db.texts)
      PROVE  AfterText(db') /\ TextWritten(db')
  <2>1. db' = [db EXCEPT !.texts = texts]
    BY <1>4 DEF AfterText, Succeed, Write
  <2>2. db' = [rowids |-> db.rowids, lastRowid |-> db.lastRowid, chunks |-> db.chunks,
               vectors |-> db.vectors, views |-> db.views, texts |-> texts, aux |-> db.aux]
    BY <1>2, <2>1 DEF TablesType
  <2>3. db'.texts = texts
    BY <2>2
  <2>4. \E x : db' = [rowids |-> db.rowids, lastRowid |-> db.lastRowid, chunks |-> db.chunks,
               vectors |-> db.vectors, views |-> db.views, texts |-> x, aux |-> db.aux]
    BY <2>2
  <2>5. /\ TablesType(db') /\ db'.rowids = db.rowids /\ db'.lastRowid = db.lastRowid
        /\ db'.chunks = db.chunks /\ db'.vectors = db.vectors /\ db'.views = db.views
        /\ db'.aux = db.aux
    BY <1>2, <1>4, <2>3, <2>4, TextsTyped
  <2> QED
    BY <1>4, <2>1, <2>3, <2>5 DEF TextWritten
<1>5. CASE stmt.text \in Long /\ stmt.op = "update" /\ place.long
  <2> DEFINE texts == [x \in DOMAIN db.texts |-> IF x = r THEN stmt.text ELSE db.texts[x]]
  <2>1. AfterText([db EXCEPT !.texts = texts])
    BY <1>5 DEF WriteText
  <2>2. /\ DOMAIN texts = DOMAIN db.texts /\ texts[r] = stmt.text
        /\ \A x \in DOMAIN db.texts \ {r} : texts[x] = db.texts[x]
    BY <1>3, <1>5
  <2> HIDE DEF texts
  <2> QED
    BY <1>2, <1>3, <1>4, <1>5, <2>1, <2>2 DEF TablesType
<1>6. CASE stmt.text \in Long /\ ~(stmt.op = "update" /\ place.long)
  <2>1. CASE r \in DOMAIN db.texts
    BY <1>6, <2>1 DEF WriteText
  <2>2. CASE r \notin DOMAIN db.texts
    <3> DEFINE texts == With(db.texts, r, stmt.text)
    <3>1. AfterText([db EXCEPT !.texts = texts])
      BY <1>6, <2>2 DEF WriteText
    <3>2. /\ DOMAIN texts = DOMAIN db.texts \cup {r} /\ texts[r] = stmt.text
          /\ \A x \in DOMAIN db.texts \ {r} : texts[x] = db.texts[x]
      BY DEF With
    <3> HIDE DEF texts
    <3> QED
      BY <1>2, <1>3, <1>4, <1>6, <3>1, <3>2 DEF TablesType
  <2> QED
    BY <2>1, <2>2
<1>7. CASE stmt.text \notin Long /\ place.long
  <2> DEFINE texts == Restrict(db.texts, DOMAIN db.texts \ {r})
  <2>1. AfterText([db EXCEPT !.texts = texts])
    BY <1>7 DEF WriteText
  <2>2. /\ DOMAIN texts = DOMAIN db.texts \ {r}
        /\ \A x \in DOMAIN db.texts \ {r} : texts[x] = db.texts[x]
    BY DEF Restrict
  <2> HIDE DEF texts
  <2> QED
    BY <1>2, <1>3, <1>4, <1>7, <2>1, <2>2 DEF TablesType
<1>8. CASE stmt.text \notin Long /\ ~place.long
  <2>1. AfterText(db)
    BY <1>8 DEF WriteText
  <2>2. db' = db
    BY <2>1 DEF AfterText, Succeed, Write
  <2> QED
    BY <1>2, <1>8, <2>1, <2>2 DEF TextWritten
<1> QED
  BY <1>5, <1>6, <1>7, <1>8

\* An INSERT ends with its text.
LEMMA InsertEnds ==
  ASSUME VecConstants, StorageInv, step = "text", stmt.op = "insert",
         Succeed(db'), TextWritten(db')
  PROVE  StorageInv' /\ Promised
<1> DEFINE c == place.chunk  o == place.offset  r == place.rowid
<1>1. /\ IsInsertion(stmt) /\ BadType \notin {stmt.part, stmt.vector}
      /\ place \in PlaceType /\ TablesType(db) /\ TablesType(before) /\ Agree(before)
      /\ ElsewhereKept(before, db, place) /\ LengthsOK /\ db.texts = before.texts /\ InsertOK
      /\ textKey \in BOOLEAN /\ faults \in Nat
  BY InsertKnows DEF TextStep
<1>2. /\ NewRowOK /\ NewPositionOK /\ stmt.text \notin {BadType, Null}
      /\ db.views[c][o] = ViewOf(stmt.text) /\ stmt.aux # BadType
      /\ r \in DOMAIN db.aux /\ db.aux[r] = stmt.aux
  BY <1>1 DEF InsertOK, Unplaced, TextStep, View
<1>3. /\ c \in DOMAIN db.chunks /\ db.chunks[c].part = stmt.part /\ o \in db.chunks[c].validity
      /\ db.vectors[c][o] = stmt.vector /\ db.chunks[c].rowids[o] = r
      /\ db.rowids[r].chunk = c /\ db.rowids[r].offset = o
      /\ c \in DOMAIN before.chunks => o \notin before.chunks[c].validity
  BY <1>2 DEF NewPositionOK, Unset, TextStep, Placed
<1>4. /\ TablesType(db') /\ db'.rowids = db.rowids /\ db'.lastRowid = db.lastRowid
      /\ db'.chunks = db.chunks /\ db'.vectors = db.vectors /\ db'.views = db.views
      /\ db'.aux = db.aux
  BY DEF TextWritten
<1>5. Complete(db')
  BY <1>1, <1>4 DEF Complete, LengthsOK
<1>6. ElsewhereKept(before, db', place)
  <2>1. \A x \in Rowids \ {r} : KeptRow(before, db', x)
    BY <1>1, <1>4 DEF ElsewhereKept, KeptRow, TextWritten
  <2> QED
    BY <1>1, <1>4, <2>1 DEF ElsewhereKept, KeptPosition
<1>7. /\ r \in DOMAIN db.rowids /\ r \notin DOMAIN before.rowids /\ r \in Rowids
      /\ db.rowids[r].id = IF textKey THEN stmt.key ELSE NoValue
      /\ TypedKey(stmt.key, textKey) /\ (textKey => RowidsOf(before, stmt.key) = {})
      /\ ~textKey /\ stmt.key # NoValue => r = stmt.key
  BY <1>1, <1>2 DEF NewRowOK, TablesType
<1>8. RowsAgree(before) /\ KeysOK(before, textKey)
  BY <1>1 DEF Agree
<1>9. OwnPlace(before, place)
  BY <1>3, <1>7, <1>8, NewPlaceIsOwn
<1>10. /\ db.views[c][o] = Cut <=> stmt.text \in Long
       /\ stmt.text \notin Long => db.views[c][o] = stmt.text
  BY <1>1, <1>2 DEF ViewOf, IsInsertion, VecConstants
<1>11. stmt.text \in Long => r \in DOMAIN db'.texts /\ db'.texts[r] = stmt.text
  BY DEF TextWritten
<1>12. RowThere(db', place)
  BY <1>2, <1>3, <1>4, <1>7, <1>10, <1>11 DEF RowThere
<1>13. RowsAgree(db')
  BY <1>1, <1>5, <1>6, <1>8, <1>9, <1>12, TablesAgree
<1>14. KeysOK(db', textKey)
  <2>1. /\ textKey => /\ db'.rowids[r].id \in Id
                      /\ RowidsOf(before, db'.rowids[r].id) \subseteq {r}
        /\ ~textKey => db'.rowids[r].id = NoValue
    BY <1>4, <1>7 DEF TypedKey
  <2> QED
    BY <1>1, <1>5, <1>6, <1>8, <1>9, <2>1, KeysStay
<1>15. faults = 0 => NoTextIsLeft(db')
  <2>1. ASSUME faults = 0  PROVE NoTextIsLeft(db')
    <3>1. NoTextIsLeft(before)
      BY <1>1, <2>1 DEF Agree
    <3>2. ASSUME r \in DOMAIN db'.texts  PROVE stmt.text \in Long
      <4>1. CASE stmt.text \notin Long
        <5>1. db'.texts = db.texts
          BY <3>2, <4>1 DEF TextWritten
        <5> QED
          BY <1>1, <1>7, <3>1, <3>2, <5>1 DEF NoTextIsLeft
      <4> QED
        BY <4>1
    <3>3. r \in DOMAIN db'.texts =>
            r \in DOMAIN db'.rowids /\ db'.views[db'.rowids[r].chunk][db'.rowids[r].offset] = Cut
      BY <1>3, <1>4, <1>7, <1>10, <3>2
    <3> QED
      BY <1>1, <1>5, <1>6, <1>8, <1>9, <3>1, <3>3, NoTextStays
  <2> QED
    BY <2>1
<1>16. /\ step' = "idle" /\ told' = "ok" /\ Forget /\ UNCHANGED <<Rest, faults>>
       /\ textKey' = textKey
  BY DEF Succeed, Rest
<1>17. StorageInv'
  <2>1. Agree(db)'
    BY <1>13, <1>14, <1>15, <1>16 DEF Agree
  <2> QED
    BY <1>1, <1>4, <1>16, <2>1, SucceedStep
<1>18. RowOf(db', r) = Promise!RowOf(stmt)
  <2>1. /\ PartitionValue(db', r) = stmt.part /\ VectorData(db', r) = stmt.vector
        /\ AuxiliaryValue(db', r) = stmt.aux
    BY <1>2, <1>3, <1>4 DEF PartitionValue, VectorData, AuxiliaryValue, ChunkPosition
  <2>2. MetadataValue(db', r) = stmt.text
    BY <1>3, <1>4, <1>10, <1>11 DEF MetadataValue, ChunkPosition
  <2> QED
    BY <1>4, <1>7, <2>1, <2>2 DEF RowOf, Promise!RowOf
<1>19. TableOf(db') = [s \in DOMAIN TableOf(before) \cup {r} |->
                         IF s = r THEN Promise!RowOf(stmt) ELSE TableOf(before)[s]]
  <2>1. /\ DOMAIN db'.rowids \ {r} = DOMAIN before.rowids \ {r}
        /\ \A s \in DOMAIN before.rowids \ {r} : RowOf(db', s) = RowOf(before, s)
    BY <1>1, <1>5, <1>6, <1>8, <1>9, OtherRowsStay
  <2>2. DOMAIN db'.rowids = DOMAIN before.rowids \cup {r}
    BY <1>4, <1>7, <2>1
  <2> QED
    BY <1>18, <2>1, <2>2 DEF TableOf
<1>20. Promise!Inserted(stmt)
  <2>1. r \in (1 .. MaxRowid) \ DOMAIN TableOf(before)
    BY <1>7 DEF TableOf, Rowids
  <2>2. textKey => \A s \in DOMAIN TableOf(before) : TableOf(before)[s].id # stmt.key
    BY <1>7 DEF TableOf, RowOf, RowidsOf
  <2> QED
    BY <1>7, <1>16, <1>19, <2>1, <2>2 DEF Promise!Inserted
<1>21. WellTyped(stmt, textKey) /\ stmt # Nothing
  BY <1>1, <1>2, <1>7 DEF WellTyped, StorageInv, StatementOK
<1> QED
  BY <1>16, <1>17, <1>20, <1>21, CarriedOut

\* An UPDATE goes on from its text to its vector.
LEMMA UpdateGoesOn ==
  ASSUME VecConstants, StorageInv, step = "text", stmt.op = "update",
         Write(db', "updateVector"), UNCHANGED <<Rest, Kept, place, buffer, faults>>,
         TextWritten(db')
  PROVE  StorageInv' /\ Promised
<1> USE DEF InsertStep, Unset, Unplaced, Clearing, Updating, TextStep
<1> DEFINE c == place.chunk  o == place.offset  r == place.rowid
<1>1. /\ IsRevision(stmt) /\ place \in PlaceType
      /\ TablesType(db) /\ TablesType(before) /\ Agree(before)
      /\ ElsewhereKept(before, db, place) /\ LengthsOK /\ db.texts = before.texts /\ UpdateOK
      /\ textKey \in BOOLEAN /\ faults \in Nat
  BY UpdateKnows
<1>2. /\ step' = "updateVector" /\ UNCHANGED <<Rest, Kept, told, faults, place>>
      /\ UNCHANGED <<saved, open, textKey, stmt, before>>
  BY DEF Write, Rest, Kept
<1>3. /\ TablesType(db') /\ db'.rowids = db.rowids /\ db'.lastRowid = db.lastRowid
      /\ db'.chunks = db.chunks /\ db'.vectors = db.vectors /\ db'.views = db.views
      /\ db'.aux = db.aux
  BY DEF TextWritten
<1>4. /\ NewText /\ Placed(before) /\ r \in Rowids
      /\ place.long <=> before.views[c][o] = Cut
  BY <1>1 DEF UpdateOK, Placed, TablesType
<1>5. ElsewhereKept(before, db, place)'
  <2>1. \A x \in Rowids \ {r} : KeptRow(before, db', x)
    BY <1>1, <1>3 DEF ElsewhereKept, KeptRow, TextWritten
  <2> QED
    BY <1>1, <1>2, <1>3, <2>1 DEF ElsewhereKept, KeptPosition
<1>6. LengthsOK'
  BY <1>1, <1>2, <1>3 DEF LengthsOK
<1>7. NewText'
  BY <1>2, <1>3, <1>4 DEF NewText, View
<1>8. /\ stmt.text \in Long => r \in DOMAIN db'.texts /\ db'.texts[r] = stmt.text
      /\ stmt.text \notin Long /\ faults = 0 => r \notin DOMAIN db'.texts
  <2>1. stmt.text \in Long => r \in DOMAIN db'.texts /\ db'.texts[r] = stmt.text
    BY DEF TextWritten
  <2>2. ASSUME stmt.text \notin Long, faults = 0, r \in DOMAIN db'.texts  PROVE FALSE
    <3>1. ~place.long /\ r \in DOMAIN before.texts
      BY <1>1, <2>2 DEF TextWritten
    <3>2. NoTextIsLeft(before)
      BY <1>1, <2>2 DEF Agree
    <3> QED
      BY <1>4, <3>1, <3>2 DEF NoTextIsLeft, Placed
  <2> QED
    BY <2>1, <2>2
<1>9. UpdateOK'
  BY <1>1, <1>2, <1>3, <1>7, <1>8 DEF UpdateOK, Placed
<1>10. Running'
  BY <1>2, <1>5, <1>6, <1>9 DEF Running
<1> QED
  BY <1>1, <1>2, <1>3, <1>10, MiddleStep

\* The long text: an INSERT ends with it, an UPDATE goes on.
LEMMA TextKeeps ==
  ASSUME VecConstants, StorageInv, WriteText
  PROVE  StorageInv' /\ Promised
<1>1. step = "text"
  BY DEF WriteText
<1>2. CASE Fail /\ faults' = faults
  BY <1>1, <1>2, FailStep
<1>3. CASE AfterText(db') /\ TextWritten(db')
  <2>1. CASE stmt.op = "insert"
    BY <1>1, <1>3, <2>1, InsertEnds DEF AfterText
  <2>2. CASE stmt.op # "insert"
    <3>1. stmt.op = "update"
      BY <1>1, <2>2 DEF StorageInv, StatementOK, TextStep, IsRevision, IsInsertion
    <3> QED
      BY <1>1, <1>3, <2>2, <3>1, UpdateGoesOn DEF AfterText
  <2> QED
    BY <2>1, <2>2
<1> QED
  BY <1>2, <1>3, TextIsWritten

\* What is written of a vector.
VectorWritten(d) ==
  /\ TablesType(d) /\ d.rowids = db.rowids /\ d.lastRowid = db.lastRowid
  /\ d.chunks = db.chunks /\ d.views = db.views /\ d.texts = db.texts /\ d.aux = db.aux
  /\ Len(d.vectors) = Len(db.vectors)
  /\ \A x \in DOMAIN db.vectors, y \in Offset :
       x # place.chunk \/ y # place.offset => d.vectors[x][y] = db.vectors[x][y]
  /\ d.vectors[place.chunk][place.offset] =
       IF stmt.vector = NoValue THEN db.vectors[place.chunk][place.offset] ELSE stmt.vector

\* An update's write of the vector fails, or leaves the vector it asked for.
LEMMA VectorIsWritten ==
  ASSUME VecConstants, StorageInv, UpdateVector
  PROVE  \/ Fail /\ faults' = faults
         \/ Succeed(db') /\ VectorWritten(db') /\ stmt.vector # BadType
<1>1. step = "updateVector"
  BY DEF UpdateVector
<1> DEFINE c == place.chunk  o == place.offset
<1>2. TablesType(db) /\ place \in PlaceType /\ IsRevision(stmt)
  BY <1>1, UpdateKnows DEF Updating
<1>3. CASE stmt.vector = NoValue
  <2>1. Succeed(db) /\ db' = db
    BY <1>1, <1>3 DEF UpdateVector, Succeed
  <2> QED
    BY <1>2, <1>3, <2>1 DEF VectorWritten, VecConstants
<1>4. CASE stmt.vector # NoValue /\ (stmt.vector = BadType \/ c \notin DOMAIN db.vectors)
  BY <1>1, <1>4 DEF UpdateVector
<1>5. CASE stmt.vector # NoValue /\ stmt.vector # BadType /\ c \in DOMAIN db.vectors
  <2>1. Succeed([db EXCEPT !.vectors[c][o] = stmt.vector])
    BY <1>1, <1>5 DEF UpdateVector
  <2>2. db' = [db EXCEPT !.vectors[c][o] = stmt.vector]
    BY <2>1 DEF Succeed
  <2> DEFINE k == [db.vectors[c] EXCEPT ![o] = stmt.vector]
  <2>3. db.vectors \in Seq(VectorChunk) /\ o \in Offset
    BY <1>2 DEF TablesType, PlaceType
  <2>4. db.vectors[c] \in VectorChunk
    BY <1>5, <2>3
  <2>5. k \in VectorChunk /\ k[o] = stmt.vector /\ \A y \in Offset \ {o} : k[y] = db.vectors[c][y]
    BY <1>2, <2>3, <2>4 DEF VectorChunk, IsRevision
  <2>6. db' = [rowids |-> db.rowids, lastRowid |-> db.lastRowid, chunks |-> db.chunks,
               vectors |-> [db.vectors EXCEPT ![c] = k], views |-> db.views,
               texts |-> db.texts, aux |-> db.aux]
    BY <1>2, <2>2 DEF TablesType
  <2> HIDE DEF k
  <2>7. db'.vectors = [db.vectors EXCEPT ![c] = k]
    BY <2>6
  <2>8. \E x : db' = [rowids |-> db.rowids, lastRowid |-> db.lastRowid, chunks |-> db.chunks,
               vectors |-> x, views |-> db.views, texts |-> db.texts, aux |-> db.aux]
    BY <2>6
  <2>9. /\ TablesType(db') /\ db'.rowids = db.rowids /\ db'.lastRowid = db.lastRowid
        /\ db'.chunks = db.chunks /\ db'.views = db.views /\ db'.texts = db.texts
        /\ db'.aux = db.aux
    BY <1>2, <1>5, <2>5, <2>7, <2>8, VectorsTyped
  <2>10. /\ Len(db'.vectors) = Len(db.vectors) /\ db'.vectors[c] = k
         /\ \A x \in DOMAIN db.vectors \ {c} : db'.vectors[x] = db.vectors[x]
    BY <1>5, <2>3, <2>5, <2>7
  <2>11. \A x \in DOMAIN db.vectors, y \in Offset :
           x # c \/ y # o => db'.vectors[x][y] = db.vectors[x][y]
    BY <2>5, <2>10
  <2> QED
    BY <1>5, <2>1, <2>2, <2>5, <2>9, <2>10, <2>11 DEF VectorWritten
<1> QED
  BY <1>3, <1>4, <1>5

\* What an UPDATE makes of a row.
LEMMA ChangedFields ==
  ASSUME NEW i, NEW p, NEW v, NEW a, NEW t, NEW q
  PROVE  Promise!Changed([id |-> i, part |-> p, vector |-> v, aux |-> a, text |-> t], q) =
           [id |-> i, part |-> p, vector |-> Promise!Change(v, q.vector),
            aux |-> Promise!Change(a, q.aux), text |-> Promise!Change(t, q.text)]
<1> DEFINE row == [id |-> i, part |-> p, vector |-> v, aux |-> a, text |-> t]
<1>1. row.vector = v /\ row.aux = a /\ row.text = t
  OBVIOUS
<1>2. ASSUME NEW x, NEW y, NEW z
      PROVE  [row EXCEPT !.vector = x, !.aux = y, !.text = z]
               = [id |-> i, part |-> p, vector |-> x, aux |-> y, text |-> z]
  <2> DEFINE row1 == [id |-> i, part |-> p, vector |-> x, aux |-> a, text |-> t]
             row2 == [id |-> i, part |-> p, vector |-> x, aux |-> y, text |-> t]
             row3 == [id |-> i, part |-> p, vector |-> x, aux |-> y, text |-> z]
  <2>1. [row EXCEPT !.vector = x] = row1
    OBVIOUS
  <2>2. [row1 EXCEPT !.aux = y] = row2
    OBVIOUS
  <2>3. [row2 EXCEPT !.text = z] = row3
    OBVIOUS
  <2> HIDE DEF row, row1, row2
  <2>4. [row EXCEPT !.vector = x, !.aux = y, !.text = z]
          = [[[row EXCEPT !.vector = x] EXCEPT !.aux = y] EXCEPT !.text = z]
    OBVIOUS
  <2> QED
    BY <2>1, <2>2, <2>3, <2>4
<1>3. Promise!Changed(row, q) =
        [row EXCEPT !.vector = Promise!Change(row.vector, q.vector),
                    !.aux = Promise!Change(row.aux, q.aux),
                    !.text = Promise!Change(row.text, q.text)]
  BY DEF Promise!Changed
<1> HIDE DEF row
<1> QED
  BY <1>1, <1>2, <1>3 DEF row

\* An UPDATE ends with its vector.
LEMMA UpdateEnds ==
  ASSUME VecConstants, StorageInv, step = "updateVector",
         Succeed(db'), VectorWritten(db'), stmt.vector # BadType
  PROVE  StorageInv' /\ Promised
<1> DEFINE c == place.chunk  o == place.offset  r == place.rowid
<1>1. /\ IsRevision(stmt) /\ stmt.op = "update"
      /\ place \in PlaceType /\ TablesType(db) /\ TablesType(before) /\ Agree(before)
      /\ ElsewhereKept(before, db, place) /\ LengthsOK /\ UpdateOK
      /\ textKey \in BOOLEAN /\ faults \in Nat
  BY UpdateKnows DEF Updating
<1>2. /\ r = stmt.row /\ Placed(before) /\ stmt.part = NoValue
      /\ textKey => stmt.key \in {NoValue, before.rowids[r].id}
      /\ db.rowids = before.rowids /\ db.chunks = before.chunks /\ db.vectors = before.vectors
      /\ DOMAIN db.aux = DOMAIN before.aux
      /\ db.aux[r] = IF stmt.aux = NoValue THEN before.aux[r] ELSE stmt.aux
  BY <1>1 DEF UpdateOK
<1>3. \/ stmt.text = NoValue /\ db.views = before.views /\ db.texts = before.texts
      \/ /\ stmt.text \notin {NoValue, BadType, Null} /\ db.views[c][o] = ViewOf(stmt.text)
         /\ stmt.text \in Long => r \in DOMAIN db.texts /\ db.texts[r] = stmt.text
         /\ stmt.text \notin Long /\ faults = 0 => r \notin DOMAIN db.texts
  BY <1>1 DEF UpdateOK, NewText, View
<1>4. /\ TablesType(db') /\ db'.rowids = before.rowids /\ db'.chunks = before.chunks
      /\ db'.views = db.views /\ db'.texts = db.texts /\ db'.aux = db.aux
      /\ Len(db'.vectors) = Len(before.vectors)
      /\ db'.vectors[c][o] = IF stmt.vector = NoValue THEN before.vectors[c][o] ELSE stmt.vector
  BY <1>2 DEF VectorWritten
<1>5. Complete(db')
  BY <1>1, <1>2, <1>4 DEF Complete, LengthsOK
<1>6. RowsAgree(before) /\ KeysOK(before, textKey)
  BY <1>1 DEF Agree
<1>7. /\ r \in DOMAIN before.rowids /\ r \in DOMAIN before.aux /\ r \in Rowids
      /\ before.rowids[r].chunk = c /\ before.rowids[r].offset = o
      /\ c \in DOMAIN before.chunks /\ o \in before.chunks[c].validity
      /\ before.chunks[c].rowids[o] = r
      /\ before.views[c][o] = Cut => r \in DOMAIN before.texts
  <2>1. /\ r \in DOMAIN before.rowids
        /\ before.rowids[r].chunk = c /\ before.rowids[r].offset = o
    BY <1>2 DEF Placed
  <2>2. r \in DOMAIN before.aux /\ r \in Rowids
    BY <1>1, <1>6, <2>1 DEF RowsAgree, TablesType
  <2> QED
    BY <1>6, <2>1, <2>2 DEF RowsAgree, ChunkPosition
<1>8. ElsewhereKept(before, db', place)
  <2>1. \A x \in Rowids \ {r} : KeptRow(before, db', x)
    BY <1>1, <1>2, <1>4 DEF ElsewhereKept, KeptRow
  <2>2. \A x \in DOMAIN before.chunks : x \in DOMAIN db.vectors
    BY <1>1, <1>2, <1>6 DEF TablesType, RowsAgree
  <2>3. ASSUME NEW x \in DOMAIN before.chunks, NEW y \in Offset, x # c \/ y # o
        PROVE  KeptPosition(before, db', x, y)
    <3>1. KeptPosition(before, db, x, y)
      BY <1>1, <2>3 DEF ElsewhereKept
    <3>2. db'.vectors[x][y] = db.vectors[x][y]
      BY <2>2, <2>3 DEF VectorWritten
    <3> QED
      BY <1>2, <1>4, <3>1, <3>2 DEF KeptPosition
  <2>4. Len(before.chunks) \in Nat
    BY <1>1 DEF TablesType
  <2> QED
    BY <1>4, <2>1, <2>3, <2>4 DEF ElsewhereKept
<1>9. OwnPlace(before, place)
  BY <1>6, <1>7, RowsPlaceIsOwn
<1>10. stmt.text # NoValue =>
         /\ db.views[c][o] = Cut <=> stmt.text \in Long
         /\ stmt.text \notin Long => db.views[c][o] = stmt.text
  BY <1>1, <1>3 DEF ViewOf, IsRevision, VecConstants
<1>11. db'.views[c][o] = Cut => r \in DOMAIN db'.texts
  BY <1>3, <1>4, <1>7, <1>10
<1>12. RowThere(db', place)
  BY <1>2, <1>4, <1>7, <1>11 DEF RowThere
<1>13. RowsAgree(db')
  BY <1>1, <1>5, <1>6, <1>8, <1>9, <1>12, TablesAgree
<1>14. KeysOK(db', textKey)
  BY <1>4, <1>6 DEF KeysOK, RowidsOf
<1>15. faults = 0 => NoTextIsLeft(db')
  <2>1. ASSUME faults = 0  PROVE NoTextIsLeft(db')
    <3>1. NoTextIsLeft(before)
      BY <1>1, <2>1 DEF Agree
    <3>2. ASSUME r \in DOMAIN db'.texts  PROVE db'.views[c][o] = Cut
      <4>1. CASE stmt.text = NoValue
        BY <1>3, <1>4, <1>7, <3>1, <3>2, <4>1 DEF NoTextIsLeft
      <4>2. CASE stmt.text # NoValue
        BY <1>3, <1>4, <1>10, <2>1, <3>2, <4>2
      <4> QED
        BY <4>1, <4>2
    <3>3. r \in DOMAIN db'.texts =>
            r \in DOMAIN db'.rowids /\ db'.views[db'.rowids[r].chunk][db'.rowids[r].offset] = Cut
      BY <1>4, <1>7, <3>2
    <3> QED
      BY <1>1, <1>5, <1>6, <1>8, <1>9, <3>1, <3>3, NoTextStays
  <2> QED
    BY <2>1
<1>16. /\ step' = "idle" /\ told' = "ok" /\ Forget /\ UNCHANGED <<Rest, faults>>
       /\ textKey' = textKey
  BY DEF Succeed, Rest
<1>17. StorageInv'
  <2>1. Agree(db)'
    BY <1>13, <1>14, <1>15, <1>16 DEF Agree
  <2> QED
    BY <1>1, <1>4, <1>16, <2>1, SucceedStep
<1>18. RowOf(db', r) = Promise!Changed(RowOf(before, r), stmt)
  <2>1. /\ PartitionValue(db', r) = PartitionValue(before, r)
        /\ VectorData(db', r) = Promise!Change(VectorData(before, r), stmt.vector)
        /\ AuxiliaryValue(db', r) = Promise!Change(AuxiliaryValue(before, r), stmt.aux)
    BY <1>2, <1>4, <1>7 DEF PartitionValue, VectorData, AuxiliaryValue, ChunkPosition,
       Promise!Change
  <2>2. MetadataValue(db', r) = Promise!Change(MetadataValue(before, r), stmt.text)
    <3>1. CASE stmt.text = NoValue
      BY <1>3, <1>4, <3>1 DEF MetadataValue, ChunkPosition, Promise!Change
    <3>2. CASE stmt.text # NoValue
      BY <1>3, <1>4, <1>7, <1>10, <3>2 DEF MetadataValue, ChunkPosition, Promise!Change
    <3> QED
      BY <3>1, <3>2
  <2>3. RowOf(db', r) =
          [id |-> before.rowids[r].id, part |-> PartitionValue(before, r),
           vector |-> Promise!Change(VectorData(before, r), stmt.vector),
           aux |-> Promise!Change(AuxiliaryValue(before, r), stmt.aux),
           text |-> Promise!Change(MetadataValue(before, r), stmt.text)]
    BY <1>4, <2>1, <2>2 DEF RowOf
  <2> QED
    BY <2>3, ChangedFields DEF RowOf
<1>19. TableOf(db') = [TableOf(before) EXCEPT ![r] = Promise!Changed(@, stmt)]
  <2>1. \A s \in DOMAIN before.rowids \ {r} : RowOf(db', s) = RowOf(before, s)
    BY <1>1, <1>5, <1>6, <1>8, <1>9, OtherRowsStay
  <2> QED
    BY <1>4, <1>7, <1>18, <2>1 DEF TableOf
<1>20. Promise!Updated(stmt)
  <2>1. textKey => Promise!KeyOf(r) = before.rowids[r].id
    BY <1>7 DEF Promise!KeyOf, TableOf, RowOf
  <2>2. stmt.op = "update" /\ stmt.part = NoValue
    BY <1>1, <1>2
  <2>3. textKey => stmt.key \in {NoValue, Promise!KeyOf(stmt.row)}
    BY <1>2, <2>1
  <2>4. TableOf(db') = [TableOf(before) EXCEPT ![stmt.row] = Promise!Changed(@, stmt)]
    BY <1>2, <1>19
  <2>5. /\ (IF step = "idle" THEN db ELSE before) = before
        /\ (IF step = "idle" THEN db ELSE before)' = db'
    BY <1>16
  <2> QED
    BY <2>2, <2>3, <2>4, <2>5 DEF Promise!Updated
<1>21. WellTyped(stmt, textKey) /\ stmt # Nothing
  BY <1>1, <1>3 DEF WellTyped, StorageInv, StatementOK, VecConstants
<1> QED
  BY <1>16, <1>17, <1>20, <1>21, CarriedOut

\* An update ends with the vector: the table holds what it was asked to hold.
LEMMA UpdateVectorKeeps ==
  ASSUME VecConstants, StorageInv, UpdateVector
  PROVE  StorageInv' /\ Promised
<1>1. step = "updateVector"
  BY DEF UpdateVector
<1>2. CASE Fail /\ faults' = faults
  BY <1>1, <1>2, FailStep
<1>3. CASE Succeed(db') /\ VectorWritten(db') /\ stmt.vector # BadType
  BY <1>1, <1>3, UpdateEnds
<1> QED
  BY <1>2, <1>3, VectorIsWritten

\* A DELETE ends with its text, or with a failure to clear it that it does not look at.
LEMMA DeleteEnds ==
  ASSUME VecConstants, StorageInv, step \in {"clearView", "clearText"},
         step' = "idle", told' = "ok", Forget, UNCHANGED Rest, faults' \in {faults, faults + 1},
         TablesType(db'), db'.rowids = db.rowids, db'.chunks = db.chunks,
         db'.vectors = db.vectors, db'.views = db.views, db'.aux = db.aux,
         \A x \in Rowids \ {place.rowid} :
           /\ x \in DOMAIN db'.texts <=> x \in DOMAIN db.texts
           /\ x \in DOMAIN db.texts => db'.texts[x] = db.texts[x],
         faults' = faults =>
           /\ step = "clearText"
           /\ place.rowid \in DOMAIN db'.texts => ~place.long /\ db'.texts = db.texts
  PROVE  StorageInv' /\ Promised
<1> DEFINE c == place.chunk  o == place.offset  r == place.rowid
<1>1. /\ IsDeletion(stmt) /\ stmt.op = "delete"
      /\ place \in PlaceType /\ TablesType(db) /\ TablesType(before) /\ Agree(before)
      /\ ElsewhereKept(before, db, place) /\ LengthsOK /\ db.texts = before.texts /\ DeleteOK
      /\ textKey \in BOOLEAN /\ faults \in Nat
  BY DeleteKnows DEF Clearing
<1>2. /\ r = stmt.row /\ Placed(before) /\ o \notin db.chunks[c].validity
      /\ r \notin DOMAIN db.rowids /\ r \notin DOMAIN db.aux
      /\ step = "clearText" => (place.long <=> before.views[c][o] = Cut)
  BY <1>1 DEF DeleteOK
<1>3. Complete(db')
  BY <1>1 DEF Complete, LengthsOK
<1>4. ElsewhereKept(before, db', place)
  <2>1. \A x \in Rowids \ {r} : KeptRow(before, db', x)
    BY <1>1 DEF ElsewhereKept, KeptRow
  <2> QED
    BY <1>1, <2>1 DEF ElsewhereKept, KeptPosition
<1>5. RowsAgree(before) /\ KeysOK(before, textKey)
  BY <1>1 DEF Agree
<1>6. OwnPlace(before, place)
  BY <1>2, <1>5, RowsPlaceIsOwn DEF Placed
<1>7. RowsAgree(db')
  <2>1. NoRowThere(db', place)
    BY <1>2 DEF NoRowThere
  <2> QED
    BY <1>1, <1>3, <1>4, <1>5, <1>6, <2>1, TablesAgree
<1>8. KeysOK(db', textKey)
  BY <1>1, <1>2, <1>3, <1>4, <1>5, <1>6, KeysStay
<1>9. faults' = 0 => NoTextIsLeft(db')
  <2>1. ASSUME faults' = 0  PROVE NoTextIsLeft(db')
    <3>1. faults = 0 /\ faults' = faults
      BY <1>1, <2>1
    <3>2. NoTextIsLeft(before)
      BY <1>1, <3>1 DEF Agree
    <3>3. r \notin DOMAIN db'.texts
      <4>1. ASSUME r \in DOMAIN db'.texts  PROVE FALSE
        <5>1. r \in DOMAIN before.texts /\ before.views[c][o] # Cut
          BY <1>1, <1>2, <3>1, <4>1
        <5> QED
          BY <1>2, <3>2, <5>1 DEF NoTextIsLeft, Placed
      <4> QED
        BY <4>1
    <3> QED
      BY <1>1, <1>3, <1>4, <1>5, <1>6, <3>2, <3>3, NoTextStays
  <2> QED
    BY <2>1
<1>10. StorageInv'
  <2>1. textKey' = textKey
    BY DEF Rest
  <2>2. Agree(db)'
    BY <1>7, <1>8, <1>9, <2>1 DEF Agree
  <2> QED
    BY <2>2, SucceedStep
<1>11. TableOf(db') = Restrict(TableOf(before), DOMAIN TableOf(before) \ {r})
  <2>1. /\ DOMAIN db'.rowids \ {r} = DOMAIN before.rowids \ {r}
        /\ \A s \in DOMAIN before.rowids \ {r} : RowOf(db', s) = RowOf(before, s)
    BY <1>1, <1>3, <1>4, <1>5, <1>6, OtherRowsStay
  <2>2. DOMAIN db'.rowids = DOMAIN before.rowids \ {r}
    BY <1>2, <2>1
  <2> QED
    BY <2>1, <2>2 DEF TableOf, Restrict
<1>12. Promise!Deleted(stmt)
  <2>1. /\ (IF step = "idle" THEN db ELSE before) = before
        /\ (IF step = "idle" THEN db ELSE before)' = db'
    OBVIOUS
  <2> QED
    BY <1>1, <1>2, <1>11, <2>1 DEF Promise!Deleted, Promise!Restrict, Restrict
<1>13. WellTyped(stmt, textKey) /\ stmt # Nothing
  BY <1>1 DEF WellTyped, StorageInv, StatementOK
<1> QED
  BY <1>10, <1>12, <1>13, CarriedOut

\* A delete ends with the long text: nothing of the row is left.
LEMMA ClearTextKeeps ==
  ASSUME VecConstants, StorageInv, ClearText
  PROVE  StorageInv' /\ Promised
<1> DEFINE r == place.rowid  texts == Restrict(db.texts, DOMAIN db.texts \ {r})
<1>1. /\ step = "clearText" /\ db' = IF place.long THEN [db EXCEPT !.texts = texts] ELSE db
      /\ step' = "idle" /\ told' = "ok" /\ Forget /\ UNCHANGED <<Rest, faults>>
  BY DEF ClearText, Succeed
<1>2. TablesType(db)
  BY DEF StorageInv, StorageTyped
<1>3. CASE place.long
  <2>1. /\ DOMAIN texts = DOMAIN db.texts \ {r}
        /\ \A x \in DOMAIN db.texts \ {r} : texts[x] = db.texts[x]
    BY DEF Restrict
  <2> HIDE DEF texts
  <2>2. db' = [rowids |-> db.rowids, lastRowid |-> db.lastRowid, chunks |-> db.chunks,
               vectors |-> db.vectors, views |-> db.views, texts |-> texts, aux |-> db.aux]
    BY <1>1, <1>2, <1>3 DEF TablesType
  <2>3. db'.texts = texts
    BY <2>2
  <2>4. \E x : db' = [rowids |-> db.rowids, lastRowid |-> db.lastRowid, chunks |-> db.chunks,
               vectors |-> db.vectors, views |-> db.views, texts |-> x, aux |-> db.aux]
    BY <2>2
  <2>5. DOMAIN db'.texts \subseteq Rowids
    BY <1>2, <2>1, <2>3 DEF TablesType
  <2>6. /\ TablesType(db') /\ db'.rowids = db.rowids /\ db'.lastRowid = db.lastRowid
        /\ db'.chunks = db.chunks /\ db'.vectors = db.vectors /\ db'.views = db.views
        /\ db'.aux = db.aux
    BY <1>2, <2>4, <2>5, TextsTyped
  <2> QED
    BY <1>1, <2>1, <2>3, <2>6, DeleteEnds
<1>4. CASE ~place.long
  <2>1. db' = db
    BY <1>1, <1>4
  <2> QED
    BY <1>1, <1>2, <1>4, <2>1, DeleteEnds
<1> QED
  BY <1>3, <1>4

-----------------------------------------------------------------------------
\* A write that fails.
LEMMA FaultKeeps ==
  ASSUME VecConstants, StorageInv, Fault
  PROVE  StorageInv' /\ Promised
<1>1. /\ step \notin {"idle", "failed"} /\ faults' = faults + 1
  BY DEF Fault
<1>2. CASE step \in {"clearView", "clearText"}
  <2>1. step' = "idle" /\ told' = "ok" /\ Forget /\ UNCHANGED <<db, Rest>>
    BY <1>2 DEF Fault
  <2>2. TablesType(db) /\ faults \in Nat
    BY DEF StorageInv, StorageTyped
  <2>3. faults' # faults
    BY <1>1, <2>2
  <2> QED
    BY <1>1, <1>2, <2>1, <2>2, <2>3, DeleteEnds
<1>3. CASE step \notin {"clearView", "clearText"}
  <2>1. Fail
    BY <1>3 DEF Fault
  <2> QED
    BY <1>1, <2>1, FailStep
<1> QED
  BY <1>2, <1>3

\* Every step keeps the invariant, and is a step of the table or not seen.
LEMMA StorageStep ==
  ASSUME VecConstants, StorageInv, [StorageNext]_storageVars
  PROVE  StorageInv' /\ Promised
<1>1. CASE Insert
  <2>1. CASE NewChunkStep
    BY <2>1, NewVectorChunkKeeps, NewMetadataChunkKeeps DEF NewChunkStep
  <2> QED
    BY <1>1, <2>1, StartsKeep, InsertRowidKeeps, NextAvailableKeeps, ValidityKeeps, VectorKeeps,
       ChunkRowidsKeeps, PositionKeeps, InsertAuxKeeps DEF Insert
<1>2. CASE Delete
  BY <1>2, StartsKeep, ClearValidityKeeps, DeleteRowidsKeeps, DeleteAuxKeeps, ClearViewKeeps,
     ClearTextKeeps DEF Delete
<1>3. CASE Update
  BY <1>3, StartsKeep, UpdateChecksKeep, UpdateAuxKeeps, UpdateVectorKeeps DEF Update
<1>4. CASE WriteView \/ WriteText \/ Refuse \/ Fault \/ Begin \/ Commit \/ Rollback
  BY <1>4, ViewKeeps, TextKeeps, RefuseStep, FaultKeeps, TransactionStep
<1>5. CASE UNCHANGED storageVars
  <2>1. UNCHANGED <<db, saved, before, open, textKey, step, stmt, place, buffer, told, faults>>
    BY <1>5 DEF storageVars
  <2>2. StorageInv'
    BY <2>1 DEF StorageInv, StatementOK, StorageTyped, Agree, Running, LengthsOK, InsertOK,
       NewRowOK,
       NewPositionOK, Placed, View, DeleteOK, UpdateOK, NewText
  <2>3. Promised
    BY <2>1 DEF Promised, Promise!vars
  <2> QED
    BY <2>2, <2>3
<1> QED
  BY <1>1, <1>2, <1>3, <1>4, <1>5 DEF StorageNext

\* At every moment of a statement the tables differ from those at its beginning at its
\* own row and position only, in just what it has written by then.
THEOREM StorageInvariant ==
  ASSUME VecConstants
  PROVE  StorageSpec => []StorageInv
<1>1. StorageInit => StorageInv
  BY StorageStarts
<1>2. StorageInv /\ [StorageNext]_storageVars => StorageInv'
  BY StorageStep
<1> QED
  BY <1>1, <1>2, PTL DEF StorageSpec

\* Between statements the scan of the validity bits and the rows of _rowids agree,
\* whatever write failed.
THEOREM ScansAlwaysAgree ==
  ASSUME VecConstants
  PROVE  StorageSpec => []ScansAgree
<1>1. StorageInv => ScansAgree
  <2> SUFFICES ASSUME StorageInv  PROVE ScansAgree
    OBVIOUS
  <2>1. step = "idle" => RowsAgree(db) /\ (faults = 0 => NoTextIsLeft(db))
    BY DEF StorageInv, Agree
  <2>2. TablesType(db)
    BY DEF StorageInv, StorageTyped
  <2>3. \A c \in DOMAIN db.chunks : db.chunks[c] \in ChunkType
    BY <2>2 DEF TablesType
  <2>4. \A c \in DOMAIN db.chunks :
          /\ db.chunks[c].validity \subseteq Offset
          /\ db.chunks[c].rowids \in [Offset -> 0 .. MaxRowid]
    BY <2>3 DEF ChunkType
  <2>5. StorageTypeOK
    BY <2>2, <2>4 DEF StorageInv, StorageTyped, StatementOK, StorageTypeOK, TablesType, Rowids
  <2> QED
    BY <2>1, <2>5 DEF ScansAgree
<1> QED
  BY <1>1, StorageInvariant, PTL

\* The shadow tables are a table of rows: every statement is carried out as a whole
\* or leaves every row as it was.
THEOREM TableIsImplemented ==
  ASSUME VecConstants
  PROVE  StorageSpec => ImplementsVecTable
<1>1. StorageInit => Promise!Init
  BY StorageStarts
<1>2. StorageInv /\ [StorageNext]_storageVars => [Promise!Next]_(Promise!vars)
  BY StorageStep DEF Promised
<1> QED
  BY <1>1, <1>2, StorageInvariant, PTL DEF StorageSpec, ImplementsVecTable, Promise!Spec
=============================================================================
