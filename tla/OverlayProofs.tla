----------------------------- MODULE OverlayProofs -----------------------------
(***************************************************************************)
(* Proofs about the provenance overlay: its lock (OverlayLock.tla), for    *)
(* any number of callers and retries, and the life of its file             *)
(* (Overlay.tla), for any refreshers and hydrators.                        *)
(*                                                                         *)
(* The inductive invariant of the lock is part of its specification.  That *)
(* of the file says who holds the lock at which stage (HolderOK), what the *)
(* holder knows of the shape (ShapeOK), that only an overlay of version 2  *)
(* holds evidence and a fresh one holds none (EvidenceOK), and whose rows  *)
(* a copy consists of (CopyOK).                                            *)
(***************************************************************************)
EXTENDS OverlayLock, Overlay, TLAPS

(***************************************************************************)
(* The lock.                                                               *)
(***************************************************************************)
USE DEF Goto, Finish

LEMMA InitInv == Init => IInv
<1>1. Init => TypeOK
  <2>1. Retries \in 0..Retries
    BY RetriesAssumption
  <2>2. Init => remaining \in [Client -> 0..Retries]
    BY <2>1 DEF Init
  <2> QED
    BY <2>2 DEF Init, TypeOK, PC, Outcome
<1>2. Init => OwnershipKnown
  BY DEF Init, OwnershipKnown
<1>3. Init => RetriesLeft
  BY DEF Init, RetriesLeft
<1>4. Init => NoOrphanTransaction
  BY NoneAssumption DEF Init, NoOrphanTransaction
<1> QED
  BY <1>1, <1>2, <1>3, <1>4 DEF IInv

\* How a step of c changes the client it belongs to, told once for all steps.
LEMMA TypeInv ==
  ASSUME IInv, [Next]_vars
  PROVE  TypeOK'
<1> USE RetriesAssumption, ClientAssumption, NoneAssumption DEF IInv, TypeOK, PC, Outcome
<1>1. ASSUME NEW c \in Client, Call(c) \/ CancelDelay(c) \/ EndAction(c) \/ Crash(c)
      PROVE  TypeOK'
  BY <1>1 DEF Call, CancelDelay, EndAction, Crash
<1>2. ASSUME NEW c \in Client, Open(c) \/ OpenFails(c) \/ Begin(c) \/ Acquire(c) \/ Refuse(c)
      PROVE  TypeOK'
  BY <1>2 DEF Open, Again, OpenFails, Begin, Acquire, Refuse
<1>3. ASSUME NEW c \in Client, Busy(c) PROVE TypeOK'
  BY <1>3 DEF Busy, Again, Closed, CloseFails
<1>4. ASSUME NEW c \in Client, Refused(c) PROVE TypeOK'
  BY <1>4 DEF Refused, Again, Closed, CloseFails
<1>5. ASSUME NEW c \in Client, AttemptFails(c) PROVE TypeOK'
  BY <1>5 DEF AttemptFails, Closed, CloseFails
<1>6. ASSUME NEW c \in Client, Retry(c) PROVE TypeOK'
  BY <1>6 DEF Retry, RetriesLeft
<1>7. ASSUME NEW c \in Client, Rollback(c) \/ Close(c) PROVE TypeOK'
  BY <1>7 DEF Rollback, Close, Problem, Closed, CloseFails
<1>8. CASE FormerClaims \/ FormerReleases \/ FormerDies
  BY <1>8 DEF FormerClaims, FormerReleases, FormerDies
<1>9. CASE UNCHANGED vars
  BY <1>9 DEF vars
<1> QED
  BY <1>1, <1>2, <1>3, <1>4, <1>5, <1>6, <1>7, <1>8, <1>9 DEF Next, Step, Attempt

LEMMA RetriesInv ==
  ASSUME IInv, [Next]_vars
  PROVE  RetriesLeft'
<1> USE RetriesAssumption, ClientAssumption DEF IInv, TypeOK, RetriesLeft
<1>1. ASSUME NEW c \in Client, Call(c) \/ CancelDelay(c) \/ EndAction(c) \/ Crash(c)
      PROVE  RetriesLeft'
  BY <1>1 DEF Call, CancelDelay, EndAction, Crash
<1>2. ASSUME NEW c \in Client, Open(c) \/ OpenFails(c) \/ Begin(c) \/ Acquire(c) \/ Refuse(c)
      PROVE  RetriesLeft'
  BY <1>2 DEF Open, Again, OpenFails, Begin, Acquire, Refuse
<1>3. ASSUME NEW c \in Client, Busy(c) \/ Refused(c) PROVE RetriesLeft'
  BY <1>3 DEF Busy, Refused, Again
<1>4. ASSUME NEW c \in Client, AttemptFails(c) \/ Retry(c) \/ Rollback(c) \/ Close(c)
      PROVE  RetriesLeft'
  BY <1>4 DEF AttemptFails, Retry, Rollback, Close
<1>5. CASE FormerClaims \/ FormerReleases \/ FormerDies \/ UNCHANGED vars
  BY <1>5 DEF FormerClaims, FormerReleases, FormerDies, vars
<1> QED
  BY <1>1, <1>2, <1>3, <1>4, <1>5 DEF Next, Step, Attempt

\* The owner of the transaction stays the owner until its own ROLLBACK, close
\* or death, and nobody commits or deletes the row meanwhile.
LEMMA OwnershipInv ==
  ASSUME IInv, [Next]_vars
  PROVE  OwnershipKnown' /\ NoOrphanTransaction'
<1> DEFINE Good == OwnershipKnown' /\ NoOrphanTransaction'
<1> USE NoneAssumption, FaultsAssumption DEF IInv, TypeOK, PC, OwnershipKnown, NoOrphanTransaction
<1>1. ASSUME NEW c \in Client, Call(c) \/ CancelDelay(c) \/ EndAction(c) PROVE Good
  BY <1>1 DEF Call, CancelDelay, EndAction
<1>2. ASSUME NEW c \in Client, Crash(c) PROVE Good
  BY <1>2 DEF Crash
<1>3. ASSUME NEW c \in Client, Open(c) \/ OpenFails(c) PROVE Good
  BY <1>3 DEF Open, Again, OpenFails
<1>4. ASSUME NEW c \in Client, Begin(c) PROVE Good
  BY <1>4 DEF Begin
<1>5. ASSUME NEW c \in Client, Acquire(c) \/ Refuse(c) PROVE Good
  BY <1>5 DEF Acquire, Refuse
<1>6. ASSUME NEW c \in Client, Busy(c) PROVE Good
  BY <1>6 DEF Busy, Again, Closed, CloseFails
<1>7. ASSUME NEW c \in Client, Refused(c) PROVE Good
  BY <1>7 DEF Refused, Again, Closed, CloseFails
<1>8. ASSUME NEW c \in Client, AttemptFails(c) PROVE Good
  BY <1>8 DEF AttemptFails, Closed, CloseFails
<1>9. ASSUME NEW c \in Client, Retry(c) PROVE Good
  BY <1>9 DEF Retry
<1>10. ASSUME NEW c \in Client, Rollback(c) \/ Close(c) PROVE Good
  BY <1>10 DEF Rollback, Close, Problem, Closed, CloseFails
<1>11. CASE FormerClaims \/ FormerReleases \/ FormerDies
  BY <1>11 DEF FormerClaims, FormerReleases, FormerDies
<1>12. CASE UNCHANGED vars
  BY <1>12 DEF vars
<1> QED
  BY <1>1, <1>2, <1>3, <1>4, <1>5, <1>6, <1>7, <1>8, <1>9, <1>10, <1>11, <1>12
     DEF Next, Step, Attempt

\* The inductive invariant of the overlay lock: what each step of an attempt
\* knows of the transaction and of the committed row.
THEOREM Invariance == Spec => []IInv
<1>1. IInv /\ [Next]_vars => IInv'
  BY TypeInv, RetriesInv, OwnershipInv DEF IInv
<1> QED
  BY <1>1, InitInv, PTL DEF Spec

LEMMA IInvExcludes == IInv => ClaimIsNeverStolen
BY DEF IInv, OwnershipKnown, ClaimIsNeverStolen

\* withOverlayLock, withOverlayLockWaiting: a protected action runs in its own
\* live transaction, alone, and never beside a committed claim.
THEOREM Exclusion == Spec => []ClaimIsNeverStolen
BY Invariance, IInvExcludes, PTL

\* attemptOverlayLock, releaseOverlayLockWith: no transaction outlives its
\* caller unless its close failed too.
THEOREM NoOrphan == Spec => []NoOrphanTransaction
<1>1. IInv => NoOrphanTransaction
  BY DEF IInv
<1> QED
  BY <1>1, Invariance, PTL

(***************************************************************************)
(* Refinement of ExclusiveLock, the former protocol's owner included.      *)
(***************************************************************************)
Acting == {c \in Client : pc[c] = "action"}
Inside == Acting \cup (IF former # "idle" THEN {Former} ELSE {})

\* A step enters an empty lock, leaves it, or moves nobody in or out.
LEMMA InsideStep ==
  ASSUME IInv, [Next]_vars
  PROVE  \/ Inside' = Inside
         \/ \E t \in Client \cup {Former} : Inside = {} /\ Inside' = {t}
         \/ Inside # {} /\ Inside' = {}
<1> DEFINE Good == \/ Inside' = Inside
                   \/ \E t \in Client \cup {Former} : Inside = {} /\ Inside' = {t}
                   \/ Inside # {} /\ Inside' = {}
<1>0. \A c \in Acting : Acting = {c} /\ former = "idle" /\ writer = c
  BY DEF IInv, OwnershipKnown, Acting
<1>1. ASSUME NEW c \in Client, pc[c] # "action", pc'[c] # "action",
             \A d \in Client : d # c => pc'[d] = pc[d], former' = former
      PROVE  Good
  BY <1>1 DEF Inside, Acting
<1>2. ASSUME NEW c \in Client, Acquire(c) PROVE Good
  <2>1. writer = c /\ former = "idle" /\ former' = "idle" /\ Acting = {}
    BY <1>0, <1>2 DEF IInv, OwnershipKnown, Acquire, Acting
  <2>2. Acting' = {c}
    BY <1>2, <2>1 DEF IInv, TypeOK, Acquire, Acting
  <2> QED
    BY <2>1, <2>2 DEF Inside
<1>3. ASSUME NEW c \in Client, EndAction(c) \/ (Crash(c) /\ pc[c] = "action") PROVE Good
  <2>1. Acting = {c} /\ former = "idle" /\ former' = "idle"
    BY <1>0, <1>3 DEF EndAction, Crash, Acting
  <2>2. Acting' = {}
    BY <1>3, <2>1 DEF IInv, TypeOK, EndAction, Crash, Acting
  <2> QED
    BY <2>1, <2>2 DEF Inside
<1>4. CASE FormerClaims
  <2>1. Acting = {} /\ Acting' = {} /\ former = "idle" /\ former' = "holding"
    BY <1>0, <1>4, NoneAssumption DEF FormerClaims, Acting
  <2> QED
    BY <2>1 DEF Inside
<1>5. CASE FormerReleases
  <2>1. Acting = {} /\ Acting' = {} /\ former # "idle" /\ former' = "idle"
    BY <1>0, <1>5 DEF FormerReleases, Acting
  <2> QED
    BY <2>1 DEF Inside
<1>6. CASE FormerDies \/ UNCHANGED vars
  BY <1>6 DEF FormerDies, vars, Inside, Acting
<1>7. ASSUME NEW c \in Client, Call(c) \/ CancelDelay(c) \/ (Crash(c) /\ pc[c] # "action") PROVE Good
  BY <1>1, <1>7 DEF IInv, TypeOK, Call, CancelDelay, Crash
<1>8. ASSUME NEW c \in Client, Open(c) \/ OpenFails(c) \/ Begin(c) \/ Refuse(c) \/ Retry(c) PROVE Good
  BY <1>1, <1>8 DEF IInv, TypeOK, Open, Again, OpenFails, Begin, Refuse, Retry
<1>9. ASSUME NEW c \in Client, Busy(c) \/ Refused(c) PROVE Good
  BY <1>1, <1>9 DEF IInv, TypeOK, Busy, Refused, Again
<1>10. ASSUME NEW c \in Client, AttemptFails(c) \/ Rollback(c) \/ Close(c) PROVE Good
  BY <1>1, <1>10 DEF IInv, TypeOK, AttemptFails, Rollback, Close
<1> QED
  BY <1>2, <1>3, <1>4, <1>5, <1>6, <1>7, <1>8, <1>9, <1>10 DEF Next, Step, Attempt

\* The overlay lock, beside programs of the former protocol, implements the
\* abstract exclusive lock.
THEOREM Implementation == Spec => ImplementsExclusiveLock
<1>1. Init => Abstract!Init
  BY DEF Init, Abstract!Init
<1>2. IInv /\ [Next]_vars => [Abstract!Next]_Inside
  BY InsideStep DEF Abstract!Next, Abstract!Enter, Abstract!Leave, Inside, Acting
<1>3. Abstract!Spec <=> Abstract!Init /\ [][Abstract!Next]_Inside
  BY DEF Abstract!Spec, Inside, Acting
<1> QED
  BY <1>1, <1>2, <1>3, Invariance, PTL DEF Spec, ImplementsExclusiveLock

(***************************************************************************)
(* The life of the file.                                                   *)
(***************************************************************************)
\* The stages under the lock.
Locked == {"inspect", "remove", "create", "index", "ensure", "copy", "recopy"}

\* The lock is held by the one user who is at a stage under it.
HolderOK ==
  /\ \A u \in User : holder = u <=> stage[u] \in Locked
  /\ \A u \in User : ended[u] # "none" => stage[u] = "done"

\* Nobody else changes the shape that the holder found or made.
ShapeOK ==
  \A u \in User :
    /\ stage[u] = "remove" => shape = "v1"
    /\ stage[u] = "create" => shape = "absent"
    /\ stage[u] = "index" => shape = "partial"
    /\ stage[u] = "ensure" => shape = "v2"

\* Only version 2 holds evidence, and what is to be cleaned up holds none.
EvidenceOK ==
  /\ shape # "v2" => covered = {} /\ newest = Nobody
  /\ covered # {} => newest # Nobody
  /\ \A u \in User : stage[u] = "ensure" /\ fresh[u] => covered = {} /\ newest = Nobody

\* The rows under copy are the refresher's own.
CopyOK ==
  \A u \in User :
    /\ stage[u] \in {"copy", "recopy"} => newest = u
    /\ stage[u] = "recopy" => taken[u] = {u}
    /\ ended[u] = "refreshed" => taken[u] = {u}

OverlayInv == OverlayTypeOK /\ HolderOK /\ ShapeOK /\ EvidenceOK /\ CopyOK

\* Every step keeps the types.
LEMMA OverlayTypeStep ==
  ASSUME OverlayConstants, OverlayInv, NEW u \in User, UserStep(u) \/ UserDies(u)
  PROVE  OverlayTypeOK'
<1> USE DEF OverlayInv, OverlayTypeOK, OverlayConstants, OverlayStage, GotoStage, End,
       Release, file, Shape, EvidenceOK, CopyOK
<1>1. CASE Enter(u)
  BY <1>1 DEF Enter
<1>2. CASE GiveUp(u)
  BY <1>2 DEF GiveUp
<1>3. CASE InspectRefresh(u)
  <2>1. PICK s \in {"create", "remove", "ensure"} : stage' = [stage EXCEPT ![u] = s]
    BY <1>3 DEF InspectRefresh, Route
  <2>2. fresh' \in [User -> BOOLEAN]
    BY <1>3 DEF InspectRefresh, Route
  <2>3. hot' = FALSE /\ UNCHANGED <<shape, covered, newest, holder, taken, ended>>
    BY <1>3 DEF InspectRefresh
  <2> QED
    BY <2>1, <2>2, <2>3
<1>4. CASE InspectHydrate(u)
  BY <1>4 DEF InspectHydrate, Route
<1>5. CASE Reject(u)
  BY <1>5 DEF Reject
<1>6. CASE Remove(u)
  BY <1>6 DEF Remove
<1>7. CASE Create(u)
  BY <1>7 DEF Create
<1>8. CASE TagSchema(u)
  BY <1>8 DEF TagSchema
<1>9. CASE Preflight(u)
  BY <1>9 DEF Preflight
<1>10. CASE Ensure(u)
  BY <1>10 DEF Ensure
<1>11. CASE Copy(u)
  BY <1>11 DEF Copy
<1>12. CASE Recopy(u)
  BY <1>12 DEF Recopy
<1>13. CASE Read(u)
  BY <1>13 DEF Read
<1>14. CASE Abandon(u)
  BY <1>14 DEF Abandon, CleanupFresh
<1>15. CASE UserDies(u)
  BY <1>15 DEF UserDies
<1> QED
  BY <1>1, <1>2, <1>3, <1>4, <1>5, <1>6, <1>7, <1>8, <1>9, <1>10, <1>11, <1>12, <1>13,
     <1>14, <1>15 DEF UserStep

\* Every step keeps the lock with the user who is at work.
LEMMA HolderStep ==
  ASSUME OverlayConstants, OverlayInv, NEW u \in User, UserStep(u) \/ UserDies(u)
  PROVE  HolderOK'
<1> USE DEF OverlayInv, OverlayTypeOK, OverlayConstants, OverlayStage, GotoStage, End,
       Release, file, HolderOK, Locked
<1>1. CASE Enter(u)
  BY <1>1 DEF Enter
<1>2. CASE GiveUp(u)
  BY <1>2 DEF GiveUp
<1>3. CASE InspectRefresh(u)
  BY <1>3 DEF InspectRefresh, Route
<1>4. CASE InspectHydrate(u)
  BY <1>4 DEF InspectHydrate, Route
<1>5. CASE Reject(u)
  BY <1>5 DEF Reject
<1>6. CASE Remove(u)
  BY <1>6 DEF Remove
<1>7. CASE Create(u)
  BY <1>7 DEF Create
<1>8. CASE TagSchema(u)
  BY <1>8 DEF TagSchema
<1>9. CASE Preflight(u)
  BY <1>9 DEF Preflight
<1>10. CASE Ensure(u)
  BY <1>10 DEF Ensure
<1>11. CASE Copy(u)
  BY <1>11 DEF Copy
<1>12. CASE Recopy(u)
  BY <1>12 DEF Recopy
<1>13. CASE Read(u)
  BY <1>13 DEF Read
<1>14. CASE Abandon(u)
  BY <1>14 DEF Abandon, CleanupFresh
<1>15. CASE UserDies(u)
  BY <1>15 DEF UserDies
<1> QED
  BY <1>1, <1>2, <1>3, <1>4, <1>5, <1>6, <1>7, <1>8, <1>9, <1>10, <1>11, <1>12, <1>13,
     <1>14, <1>15 DEF UserStep

\* Every step keeps what the holder knows of the shape.
LEMMA ShapeStep ==
  ASSUME OverlayConstants, OverlayInv, NEW u \in User, UserStep(u) \/ UserDies(u)
  PROVE  ShapeOK'
<1> USE DEF OverlayInv, OverlayTypeOK, OverlayConstants, OverlayStage, GotoStage, End,
       Release, file, HolderOK, ShapeOK, Locked
<1>1. CASE Enter(u)
  BY <1>1 DEF Enter
<1>2. CASE GiveUp(u)
  BY <1>2 DEF GiveUp
<1>3. CASE InspectRefresh(u)
  BY <1>3 DEF InspectRefresh, Route
<1>4. CASE InspectHydrate(u)
  BY <1>4 DEF InspectHydrate, Route
<1>5. CASE Reject(u)
  BY <1>5 DEF Reject
<1>6. CASE Remove(u)
  BY <1>6 DEF Remove
<1>7. CASE Create(u)
  BY <1>7 DEF Create
<1>8. CASE TagSchema(u)
  BY <1>8 DEF TagSchema
<1>9. CASE Preflight(u)
  BY <1>9 DEF Preflight
<1>10. CASE Ensure(u)
  BY <1>10 DEF Ensure
<1>11. CASE Copy(u)
  BY <1>11 DEF Copy
<1>12. CASE Recopy(u)
  BY <1>12 DEF Recopy
<1>13. CASE Read(u)
  BY <1>13 DEF Read
<1>14. CASE Abandon(u)
  BY <1>14 DEF Abandon, CleanupFresh
<1>15. CASE UserDies(u)
  BY <1>15 DEF UserDies
<1> QED
  BY <1>1, <1>2, <1>3, <1>4, <1>5, <1>6, <1>7, <1>8, <1>9, <1>10, <1>11, <1>12, <1>13,
     <1>14, <1>15 DEF UserStep

\* Every step keeps evidence where it may be.
LEMMA EvidenceStep ==
  ASSUME OverlayConstants, OverlayInv, NEW u \in User, UserStep(u) \/ UserDies(u)
  PROVE  EvidenceOK'
<1> USE DEF OverlayInv, OverlayTypeOK, OverlayConstants, OverlayStage, GotoStage, End,
       Release, file, HolderOK, ShapeOK, EvidenceOK, Locked
<1>1. CASE Enter(u)
  BY <1>1 DEF Enter
<1>2. CASE GiveUp(u)
  BY <1>2 DEF GiveUp
<1>3. CASE InspectRefresh(u)
  BY <1>3 DEF InspectRefresh, Route
<1>4. CASE InspectHydrate(u)
  BY <1>4 DEF InspectHydrate, Route
<1>5. CASE Reject(u)
  BY <1>5 DEF Reject
<1>6. CASE Remove(u)
  BY <1>6 DEF Remove
<1>7. CASE Create(u)
  BY <1>7 DEF Create
<1>8. CASE TagSchema(u)
  BY <1>8 DEF TagSchema
<1>9. CASE Preflight(u)
  BY <1>9 DEF Preflight
<1>10. CASE Ensure(u)
  BY <1>10 DEF Ensure
<1>11. CASE Copy(u)
  BY <1>11 DEF Copy
<1>12. CASE Recopy(u)
  BY <1>12 DEF Recopy
<1>13. CASE Read(u)
  BY <1>13 DEF Read
<1>14. CASE Abandon(u)
  BY <1>14 DEF Abandon, CleanupFresh
<1>15. CASE UserDies(u)
  BY <1>15 DEF UserDies
<1> QED
  BY <1>1, <1>2, <1>3, <1>4, <1>5, <1>6, <1>7, <1>8, <1>9, <1>10, <1>11, <1>12, <1>13,
     <1>14, <1>15 DEF UserStep

\* Every step keeps the rows under copy.
LEMMA CopyStep ==
  ASSUME OverlayConstants, OverlayInv, NEW u \in User, UserStep(u) \/ UserDies(u)
  PROVE  CopyOK'
<1> USE DEF OverlayInv, OverlayTypeOK, OverlayConstants, OverlayStage, GotoStage, End,
       Release, file, HolderOK, CopyOK, Locked
<1>1. CASE Enter(u)
  BY <1>1 DEF Enter
<1>2. CASE GiveUp(u)
  BY <1>2 DEF GiveUp
<1>3. CASE InspectRefresh(u)
  BY <1>3 DEF InspectRefresh, Route
<1>4. CASE InspectHydrate(u)
  BY <1>4 DEF InspectHydrate, Route
<1>5. CASE Reject(u)
  BY <1>5 DEF Reject
<1>6. CASE Remove(u)
  BY <1>6 DEF Remove
<1>7. CASE Create(u)
  BY <1>7 DEF Create
<1>8. CASE TagSchema(u)
  BY <1>8 DEF TagSchema
<1>9. CASE Preflight(u)
  BY <1>9 DEF Preflight
<1>10. CASE Ensure(u)
  BY <1>10 DEF Ensure
<1>11. CASE Copy(u)
  BY <1>11 DEF Copy
<1>12. CASE Recopy(u)
  BY <1>12 DEF Recopy
<1>13. CASE Read(u)
  BY <1>13 DEF Read
<1>14. CASE Abandon(u)
  BY <1>14 DEF Abandon, CleanupFresh
<1>15. CASE UserDies(u)
  BY <1>15 DEF UserDies
<1> QED
  BY <1>1, <1>2, <1>3, <1>4, <1>5, <1>6, <1>7, <1>8, <1>9, <1>10, <1>11, <1>12, <1>13,
     <1>14, <1>15 DEF UserStep

\* No step loses evidence or touches an overlay of an unknown shape.
LEMMA KeptStep ==
  ASSUME OverlayConstants, OverlayInv, NEW u \in User, UserStep(u) \/ UserDies(u)
  PROVE  EvidenceStays
<1> USE DEF OverlayInv, OverlayTypeOK, OverlayConstants, OverlayStage, GotoStage, End,
       Release, file, ShapeOK, EvidenceOK, EvidenceStays
<1>1. CASE Enter(u)
  BY <1>1 DEF Enter
<1>2. CASE GiveUp(u)
  BY <1>2 DEF GiveUp
<1>3. CASE InspectRefresh(u)
  BY <1>3 DEF InspectRefresh, Route
<1>4. CASE InspectHydrate(u)
  BY <1>4 DEF InspectHydrate, Route
<1>5. CASE Reject(u)
  BY <1>5 DEF Reject
<1>6. CASE Remove(u)
  BY <1>6 DEF Remove
<1>7. CASE Create(u)
  BY <1>7 DEF Create
<1>8. CASE TagSchema(u)
  BY <1>8 DEF TagSchema
<1>9. CASE Preflight(u)
  BY <1>9 DEF Preflight
<1>10. CASE Ensure(u)
  BY <1>10 DEF Ensure
<1>11. CASE Copy(u)
  BY <1>11 DEF Copy
<1>12. CASE Recopy(u)
  BY <1>12 DEF Recopy
<1>13. CASE Read(u)
  BY <1>13 DEF Read
<1>14. CASE Abandon(u)
  BY <1>14 DEF Abandon, CleanupFresh
<1>15. CASE UserDies(u)
  BY <1>15 DEF UserDies
<1> QED
  BY <1>1, <1>2, <1>3, <1>4, <1>5, <1>6, <1>7, <1>8, <1>9, <1>10, <1>11, <1>12, <1>13,
     <1>14, <1>15 DEF UserStep

\* The invariant of the file is inductive.
THEOREM OverlayInvariant ==
  ASSUME OverlayConstants
  PROVE  OverlaySpec => []OverlayInv
<1>1. OverlayInit => OverlayInv
  BY DEF OverlayInit, OverlayConstants, OverlayInv, OverlayTypeOK, HolderOK, ShapeOK,
     EvidenceOK,
     CopyOK, Shape, OverlayStage, Locked
<1>2. OverlayInv /\ [OverlayNext]_overlayVars => OverlayInv'
  <2> SUFFICES ASSUME OverlayInv, [OverlayNext]_overlayVars PROVE OverlayInv'
    OBVIOUS
  <2>1. CASE OverlayNext
    <3> PICK u \in User : UserStep(u) \/ UserDies(u)
      BY <2>1 DEF OverlayNext
    <3> QED
      BY OverlayTypeStep, HolderStep, ShapeStep, EvidenceStep, CopyStep DEF OverlayInv
  <2>2. CASE UNCHANGED overlayVars
    BY <2>2 DEF OverlayInv, OverlayTypeOK, HolderOK, ShapeOK, EvidenceOK, CopyOK, overlayVars,
       file
  <2> QED
    BY <2>1, <2>2
<1> QED
  BY <1>1, <1>2, PTL DEF OverlaySpec

\* What a refresher puts into its candidate index is its own refresh, all of it.
THEOREM CopiesAreOwn ==
  ASSUME OverlayConstants
  PROVE  OverlaySpec => []CopyIsOwn
<1>1. OverlayInv => CopyIsOwn
  BY DEF OverlayInv, CopyOK, CopyIsOwn
<1> QED
  BY <1>1, OverlayInvariant, PTL

\* No rebuild, no cleanup and no death takes committed evidence.
THEOREM EvidenceIsKept ==
  ASSUME OverlayConstants
  PROVE  OverlaySpec => EvidenceKept
<1>1. OverlayInv /\ OverlayNext => EvidenceStays
  BY KeptStep DEF OverlayNext
<1>2. OverlayInv /\ [OverlayNext]_overlayVars => [EvidenceStays]_overlayVars
  BY <1>1
<1> QED
  BY <1>2, OverlayInvariant, PTL DEF OverlaySpec, EvidenceKept
=============================================================================
