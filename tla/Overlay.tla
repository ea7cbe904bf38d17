------------------------------- MODULE Overlay -------------------------------
(***************************************************************************)
(* The life of the provenance overlay file (.adrai/provenance.sqlite) under *)
(* the overlay lock.  Refreshers (withRefreshedProvenance in              *)
(* src/src/Adrai/Service/Runtime.hs and its twin in CliRunner.hs) bring it *)
(* up to date and copy it into a candidate index; hydrators                *)
(* (hydratePlacementEvidenceAtWithHooks in Provenance/Read.hs) read         *)
(* evidence from it and maintain it when they have to.                     *)
(***************************************************************************)
EXTENDS Naturals, FiniteSets

CONSTANTS
  User,       \* one use of the overlay each, of any process
  Hydrator,   \* those that hydrate; the others refresh
  Nobody

\* What the constants have to be.
OverlayConstants == Hydrator \subseteq User /\ Nobody \notin User

VARIABLES
  shape,      \* what overlaySchemaState makes of the file
  covered,    \* users whose target has its committed coverage rows
  newest,     \* the user whose refresh was committed last
  hot,        \* is there a journal of a dead writer to roll back?
  holder,     \* owner of the overlay lock
  stage,      \* per user, the step it is at
  fresh,      \* per user, did it find no overlay (or remove one of version 1)?
  taken,      \* per user, the refreshes its copy or its evidence comes from
  ended       \* per user, how it ended

file == <<shape, covered, newest, hot>>
overlayVars == <<file, holder, stage, fresh, taken, ended>>

Shape == {"absent", "partial", "v1", "v2", "unknown"}
OverlayStage == {"idle", "inspect", "remove", "create", "index", "ensure",
                 "copy", "recopy", "read", "done"}

OverlayTypeOK ==
  /\ shape \in Shape
  /\ covered \in SUBSET User
  /\ newest \in User \cup {Nobody}
  /\ hot \in BOOLEAN
  /\ holder \in User \cup {Nobody}
  /\ stage \in [User -> OverlayStage]
  /\ fresh \in [User -> BOOLEAN]
  /\ taken \in [User -> SUBSET User]
  /\ ended \in [User -> {"none", "refreshed", "hydrated", "failed", "dead"}]

OverlayInit ==
  /\ shape \in {"absent", "v1", "v2", "unknown"}
  /\ covered = {}
  /\ newest = Nobody
  /\ hot = FALSE
  /\ holder = Nobody
  /\ stage = [u \in User |-> "idle"]
  /\ fresh = [u \in User |-> FALSE]
  /\ taken = [u \in User |-> {}]
  /\ ended = [u \in User |-> "none"]

GotoStage(u, s) == stage' = [stage EXCEPT ![u] = s]
End(u, how) == GotoStage(u, "done") /\ ended' = [ended EXCEPT ![u] = how]
Release(u) == holder' = IF holder = u THEN Nobody ELSE holder

\* Mutant: the cleanup no longer asks whether the overlay was there before.
CleanupAlways(u) ==
  \/ shape' = "absent" /\ covered' = {} /\ newest' = Nobody /\ hot' = FALSE
  \/ UNCHANGED file

\* cleanupFreshOverlay removes an overlay that did not exist when the lock was
\* taken; its own failure is swallowed.
CleanupFresh(u) ==
  IF fresh[u]
  THEN \/ shape' = "absent" /\ covered' = {} /\ newest' = Nobody /\ hot' = FALSE
       \/ UNCHANGED file
  ELSE UNCHANGED file

\* An ordinary failure or a cancellation under the lock: a transaction is
\* rolled back, a hydrator in its maintenance cleans up, a refresher does not.
Abandon(u) ==
  /\ holder = u
  /\ Release(u) /\ End(u, "failed")
  /\ IF u \in Hydrator /\ stage[u] \in {"create", "index", "ensure"}
     THEN CleanupFresh(u) ELSE UNCHANGED file
  /\ UNCHANGED <<fresh, taken>>

Enter(u) ==
  /\ stage[u] = "idle" /\ holder = Nobody
  /\ holder' = u /\ GotoStage(u, "inspect")
  /\ UNCHANGED <<file, fresh, taken, ended>>

\* The bounded acquisition of the command line and of hydration expires.
GiveUp(u) ==
  /\ stage[u] = "idle" /\ holder # Nobody
  /\ End(u, "failed")
  /\ UNCHANGED <<file, holder, fresh, taken>>

(***************************************************************************)
(* The shape decides: an absent overlay is created, one of the frozen      *)
(* version 1 rebuilt, one of version 2 used, anything else left as it is.  *)
(***************************************************************************)
Route(u) ==
  /\ \/ shape = "absent" /\ GotoStage(u, "create")
     \/ shape = "v1" /\ GotoStage(u, "remove")
     \/ shape = "v2" /\ GotoStage(u, "ensure")
  /\ fresh' = [fresh EXCEPT ![u] = shape \in {"absent", "v1"}]

\* A refresher opens the file for writing, which rolls a hot journal back.
InspectRefresh(u) ==
  /\ stage[u] = "inspect" /\ u \notin Hydrator
  /\ hot' = FALSE
  /\ Route(u)
  /\ UNCHANGED <<shape, covered, newest, holder, taken, ended>>

\* A hydrator opens it read-only, which cannot roll a journal back.
InspectHydrate(u) ==
  /\ stage[u] = "inspect" /\ u \in Hydrator
  /\ ~hot
  /\ Route(u)
  /\ UNCHANGED <<file, holder, taken, ended>>

\* Mutant: hydration rebuilds whatever it cannot use.
RejectRebuilding(u) ==
  /\ stage[u] = "inspect" /\ holder = u
  /\ IF u \in Hydrator
     THEN /\ GotoStage(u, "remove") /\ fresh' = [fresh EXCEPT ![u] = TRUE]
          /\ UNCHANGED <<holder, ended>>
     ELSE Release(u) /\ End(u, "failed") /\ UNCHANGED fresh
  /\ shape \in {"partial", "unknown"}
  /\ UNCHANGED <<file, taken>>

Reject(u) ==
  /\ stage[u] = "inspect" /\ holder = u
  /\ shape \in {"partial", "unknown"} \/ (hot /\ u \in Hydrator)
  /\ Release(u) /\ End(u, "failed")
  /\ IF u \in Hydrator THEN UNCHANGED hot ELSE hot' = FALSE
  /\ UNCHANGED <<shape, covered, newest, fresh, taken>>

Remove(u) ==
  /\ stage[u] = "remove"
  /\ shape' = "absent" /\ hot' = FALSE
  /\ GotoStage(u, "create")
  /\ UNCHANGED <<covered, newest, holder, fresh, taken, ended>>

\* createOverlaySchema: every statement commits by itself, the schema tag last.
Create(u) ==
  /\ stage[u] = "create"
  /\ shape' = "partial" /\ GotoStage(u, "index")
  /\ UNCHANGED <<covered, newest, hot, holder, fresh, taken, ended>>

TagSchema(u) ==
  /\ stage[u] = "index"
  /\ shape' = "v2" /\ GotoStage(u, "ensure")
  /\ UNCHANGED <<covered, newest, hot, holder, fresh, taken, ended>>

\* Current evidence of a covered target is read under the lock, no maintenance.
Preflight(u) ==
  /\ stage[u] = "ensure" /\ u \in Hydrator /\ ~fresh[u] /\ u \in covered
  /\ taken' = [taken EXCEPT ![u] = {newest}]
  /\ Release(u) /\ End(u, "hydrated")
  /\ UNCHANGED <<file, fresh>>

\* Mutant: a refresher gives the lock back before its snapshot is copied.
EnsureThenRelease(u) ==
  /\ stage[u] = "ensure"
  /\ covered' = covered \cup {u} /\ newest' = u
  /\ Release(u)
  /\ GotoStage(u, IF u \in Hydrator THEN "read" ELSE "copy")
  /\ UNCHANGED <<shape, hot, fresh, taken, ended>>

\* The transaction of ensureProvenance commits.  A refresher keeps the lock.
Ensure(u) ==
  /\ stage[u] = "ensure"
  /\ covered' = covered \cup {u} /\ newest' = u
  /\ IF u \in Hydrator THEN Release(u) /\ GotoStage(u, "read")
                       ELSE GotoStage(u, "copy") /\ UNCHANGED holder
  /\ UNCHANGED <<shape, hot, fresh, taken, ended>>

\* syncProvenanceSnapshot reads the tables one after the other, each in a
\* transaction of its own: here two of them.
Copy(u) ==
  /\ stage[u] = "copy"
  /\ taken' = [taken EXCEPT ![u] = {newest}]
  /\ GotoStage(u, "recopy")
  /\ UNCHANGED <<file, holder, fresh, ended>>

Recopy(u) ==
  /\ stage[u] = "recopy"
  /\ taken' = [taken EXCEPT ![u] = @ \cup {newest}]
  /\ Release(u) /\ End(u, "refreshed")
  /\ UNCHANGED <<file, fresh>>

\* The evidence is read in one transaction, but after the lock was released; a
\* writer or a hot journal in the way, or missing coverage, makes it fail.
Read(u) ==
  /\ stage[u] = "read"
  /\ \/ /\ shape = "v2" /\ u \in covered /\ ~hot
        /\ taken' = [taken EXCEPT ![u] = {newest}]
        /\ End(u, "hydrated")
     \/ UNCHANGED taken /\ End(u, "failed")
  /\ UNCHANGED <<file, holder, fresh>>

\* The process dies; a writing one may leave a journal behind.
UserDies(u) ==
  /\ stage[u] \notin {"idle", "done"}
  /\ Release(u) /\ End(u, "dead")
  /\ \/ UNCHANGED hot
     \/ stage[u] \in {"index", "ensure"} /\ shape \in {"partial", "v2"} /\ hot' = TRUE
  /\ UNCHANGED <<shape, covered, newest, fresh, taken>>

UserStep(u) ==
  \/ Enter(u) \/ GiveUp(u) \/ InspectRefresh(u) \/ InspectHydrate(u) \/ Reject(u)
  \/ Remove(u) \/ Create(u) \/ TagSchema(u) \/ Preflight(u) \/ Ensure(u)
  \/ Copy(u) \/ Recopy(u) \/ Read(u) \/ Abandon(u)

OverlayNext == \E u \in User : UserStep(u) \/ UserDies(u)

OverlaySpec == OverlayInit /\ [][OverlayNext]_overlayVars

(***************************************************************************)
(* Properties.                                                             *)
(***************************************************************************)

\* Evidence once committed is never lost: no rebuild, no cleanup after a failure
\* and no death takes another user's coverage.  And an overlay of a shape the code
\* does not know stays as it is, whoever meets it and however he fails: it is
\* evidence, not migration input.
EvidenceStays ==
  /\ covered \subseteq covered'
  /\ shape = "unknown" => UNCHANGED <<shape, covered, newest>>
EvidenceKept == [][EvidenceStays]_overlayVars

\* What a refresher puts into its candidate index is its own refresh, all of
\* it, although the tables are read one by one.
CopyIsOwn == OverlayTypeOK /\ \A u \in User : ended[u] = "refreshed" => taken[u] = {u}
=============================================================================
