------------------------------ MODULE Provenance ------------------------------
(***************************************************************************)
(* The refresh of the provenance overlay, Provenance/Ensure.hs: where were *)
(* the files of an operation introduced, as seen from a target commit?     *)
(* The overlay is shared by every target.  It remembers each commit it has *)
(* observed, where an operation was placed, which targets are certified    *)
(* for which registration, and where the operation landed on the logical   *)
(* line.  Git changes at any time; one refresh at a time holds the overlay *)
(* lock, in one SQLite transaction.                                        *)
(*                                                                         *)
(* The history is given: its commits are immutable, and Git only decides   *)
(* which of them are there.  A managed file is sealed: no commit changes   *)
(* it in place, and no line loses one and gets it back.                    *)
(***************************************************************************)
EXTENDS Naturals, Sequences, FiniteSets, SequencesExt

CONSTANTS
  Commit, Operation, File,
  ByName,         \* the operations in the order of their identifiers
  Ref, Line,      \* the branches; the one of the logical line
  Parents,        \* per commit, its parents in order
  Tree,           \* per commit, the managed files in it
  Trailer,        \* per commit, the operations its message names
  OperationOf,    \* per file, the operation that its capsule names
  Basis,          \* per operation, the commit it was planned against
  Tips,           \* bound: per branch, the commits it may point to
  Breaking,       \* bound: the targets in whose refreshes SQLite may fail unnoticed
  Nothing

VARIABLES
  refs, reflog,   \* the branches, and the commits that the reflogs name
  available,      \* the commits in the object database
  overlay,        \* the database as the refresh sees it
  kept,           \* the database as everybody else sees it during a refresh
  pc, target,
  sampled, logged,        \* the refs and the reflogs as the refresh read them
  fresh, uncovered, news, \* its new commits; operations to replay, and to land
  tip             \* the tip of the line, read once more

gitVars == <<refs, reflog, available>>
readVars == <<target, sampled, logged>>
workVars == <<fresh, uncovered, news, tip>>
vars == <<gitVars, overlay, kept, pc, readVars, workVars>>

-----------------------------------------------------------------------------
(***************************************************************************)
(* The history.                                                            *)
(***************************************************************************)
Past[c \in Commit] == {c} \cup UNION {Past[p] : p \in ToSet(Parents[c])}
PastOf(S) == UNION {Past[c] : c \in S}
FirstParents[c \in Commit] ==
  {c} \cup IF Parents[c] = <<>> THEN {} ELSE FirstParents[Head(Parents[c])]

\* diff-tree -m --diff-filter=A: what is new with respect to some parent.
Added(c) ==
  IF Parents[c] = <<>> THEN Tree[c] ELSE UNION {Tree[c] \ Tree[p] : p \in ToSet(Parents[c])}

\* What a compilation of t finds: its operations, and the members of each.
Members(op, t) == {f \in Tree[t] : OperationOf[f] = op}
Requested(t) == {op \in Operation : Members(op, t) # {}}

\* candidateCommits: by a path addition, or by a trailer.
IsCandidate(op, members, c) == Added(c) \cap members # {} \/ op \in Trailer[c]

\* Every sealed file is there, and the first parent lacks one.
Places(members, c) ==
  /\ members \subseteq Tree[c]
  /\ Parents[c] = <<>> \/ ~(members \subseteq Tree[Head(Parents[c])])

\* determineClassification.
Class(op, members, c) ==
  LET others == ToSet(Tail(Parents[c])) IN
  IF Len(Parents[c]) > 1 /\ (\A p \in others : members \subseteq Tree[p]) THEN "introduction"
  ELSE IF Parents[c] # <<>> /\ Head(Parents[c]) = Basis[op] THEN "original"
  ELSE IF op \in Trailer[c] THEN "copy" ELSE "introduction"

Placement(op, members, c) ==
  [op |-> op, commit |-> c, class |-> IF Parents[c] = <<>>
     THEN IF op \in Trailer[c] THEN "copy" ELSE "introduction"
     ELSE Class(op, members, c)]

\* firstParentPathLandings of the members: recorded when there is exactly one.
Landings(members, c) ==
  {<<f, d>> \in members \X FirstParents[c] :
     f \in Tree[d] /\ (Parents[d] = <<>> \/ f \notin Tree[Head(Parents[d])])}
Landing(members, c) ==
  LET found == Landings(members, c) IN
  IF Cardinality(found) = 1 THEN (CHOOSE l \in found : TRUE)[2] ELSE Nothing

-----------------------------------------------------------------------------
(***************************************************************************)
(* Git, in the hands of others.                                            *)
(***************************************************************************)
Present(r) == {r[b] : b \in Ref} \ {Nothing}

\* A commit, a merge, a reset or a fetch; the line only goes forward.
Move(b, c) ==
  /\ c \in Tips[b] /\ refs[b] # c
  /\ b = Line => refs[b] \in FirstParents[c]
  /\ refs' = [refs EXCEPT ![b] = c]
  /\ reflog' = reflog \cup {c}
  /\ available' = available \cup Past[c]
  /\ UNCHANGED <<overlay, kept, pc, readVars, workVars>>

Delete(b) ==
  /\ b # Line /\ refs[b] # Nothing
  /\ refs' = [refs EXCEPT ![b] = Nothing]
  /\ UNCHANGED <<reflog, available, overlay, kept, pc, readVars, workVars>>

\* reflog expire and gc, between two refreshes: nothing that is not reachable is left.
Collect ==
  /\ pc = "idle" /\ reflog' = {} /\ available' = PastOf(Present(refs))
  /\ <<reflog', available'>> # <<reflog, available>>
  /\ UNCHANGED <<refs, overlay, kept, pc, readVars, workVars>>

-----------------------------------------------------------------------------
(***************************************************************************)
(* The refresh.                                                            *)
(***************************************************************************)
RowsOf(ops, rows) == {r \in rows : r.op \in ops}
Registered(o) == {op \in Operation : o.registered[op] # {}}
Certificate(op, t, members) == [op |-> op, target |-> t, members |-> members]
Certified(o, op, t) == Certificate(op, t, o.registered[op]) \in o.covered
Reachable(o, op, t) == \E r \in RowsOf({op}, o.placed) : r.commit \in Past[t]

\* Mutant: only the registration is replaced.
SeedKeeping(o, t) ==
  [o EXCEPT !.registered = [op \in Operation |->
     IF op \in Requested(t) THEN Members(op, t) ELSE o.registered[op]]]

\* seedRegisteredOperationsFromSemanticCache: "a same-ID semantic change replaces
\* stale overlay registration evidence before recovery".
Changed(o, t) ==
  {op \in Requested(t) \cap Registered(o) : o.registered[op] # Members(op, t)}
Seed(o, t) ==
  [o EXCEPT !.registered = [op \in Operation |->
              IF op \in Requested(t) THEN Members(op, t) ELSE o.registered[op]],
            !.placed = @ \ RowsOf(Changed(o, t), @),
            !.covered = @ \ RowsOf(Changed(o, t), @),
            !.landed = [op \in Operation |-> IF op \in Changed(o, t) THEN Nothing ELSE @[op]]]

\* The lock is had, the transaction begun, the cache of the target read, the refs listed.
Begin(t) ==
  /\ pc = "idle" /\ t \in available
  /\ pc' = "reflog" /\ target' = t
  /\ kept' = overlay /\ overlay' = Seed(overlay, t)
  /\ news' = Changed(overlay, t)
  /\ sampled' = refs
  /\ UNCHANGED <<gitVars, logged, fresh, uncovered, tip>>

ReadReflog ==
  /\ pc = "reflog" /\ pc' = "discover"
  /\ logged' = reflog
  /\ UNCHANGED <<gitVars, overlay, kept, target, sampled, workVars>>

\* buildObservationRoots: a target that an old root covers is no root.
Query == {target} \ (Present(sampled) \cup logged \cup overlay.roots)
Roots == Present(sampled) \cup logged \cup Query
Fingerprint == <<sampled, logged, Query>>

\* revListDelta: an old root that is gone excludes nothing.
Delta == PastOf(Roots \cap available) \ PastOf(overlay.roots \cap available)

\* Mutant: a registered operation with a reachable placement is ready.
ReadyWithoutCertificate ==
  \A op \in Requested(target) : op \in Registered(overlay) /\ Reachable(overlay, op, target)

\* targetReady, and every required operation is registered.
TargetReady ==
  \A op \in Requested(target) :
    op \in Registered(overlay) /\ Certified(overlay, op, target) /\ Reachable(overlay, op, target)

\* A placement outside the past of the target must be of a commit that is there.
PlacementsAreThere ==
  \A r \in RowsOf(Requested(target), overlay.placed) : r.commit \in Past[target] \cup available

\* Back to idle; the work variables mean nothing then.
End ==
  /\ pc' = "idle" /\ kept' = Nothing
  /\ target' = Nothing /\ logged' = {} /\ sampled' = [b \in Ref |-> Nothing]
  /\ fresh' = {} /\ uncovered' = {} /\ news' = {} /\ tip' = Nothing
Rollback == End /\ overlay' = kept

FastPath ==
  /\ pc = "discover" /\ PlacementsAreThere
  /\ overlay.fingerprint = Fingerprint /\ overlay.configured /\ TargetReady
  /\ End
  /\ UNCHANGED <<gitVars, overlay>>

Discover ==
  /\ pc = "discover" /\ PlacementsAreThere
  /\ ~(overlay.fingerprint = Fingerprint /\ overlay.configured /\ TargetReady)
  /\ pc' = "classify" /\ fresh' = Delta
  /\ uncovered' = {op \in Requested(target) : ~Certified(overlay, op, target)}
  /\ UNCHANGED <<gitVars, overlay, kept, readVars, news, tip>>

PlacementIsGone ==
  /\ pc = "discover" /\ ~PlacementsAreThere
  /\ Rollback
  /\ UNCHANGED gitVars

\* Mutant: only what was placed before is replayed.
RecoveryOfPlaced(o) == {r.commit : r \in RowsOf(uncovered, o.placed)}

\* Every observed commit that may place an uncovered operation, and where it was placed.
Recovery(o) ==
  {c \in o.observed : \E op \in uncovered : IsCandidate(op, o.registered[op], c)}
    \cup {r.commit : r \in RowsOf(uncovered, o.placed)}
Worklist == fresh \cup {target} \cup Recovery(overlay)

\* storeNewCommits and processCandidates: every registered operation, in each commit
\* of the worklist that is a candidate of it.
Classified(o) ==
  LET looked == {<<op, c>> \in Registered(o) \X Worklist : IsCandidate(op, o.registered[op], c)}
  IN [o EXCEPT !.observed = @ \cup Worklist,
        !.placed = {r \in @ : <<r.op, r.commit>> \notin looked}
                     \cup {Placement(l[1], o.registered[l[1]], l[2]) :
                             l \in {l \in looked : Places(o.registered[l[1]], l[2])}}]

\* pruneUnavailablePlacements.
IsLost(o) == \E c \in {r.commit : r \in o.placed} \cup {o.landed[op] : op \in Operation} :
               c \notin available \cup {Nothing}
Pruned(o) ==
  [o EXCEPT !.placed = {r \in @ : r.commit \in available},
            !.landed = [op \in Operation |-> IF @[op] \in available THEN @[op] ELSE Nothing]]

\* "Drop any stale or duplicate proof before publishing the freshly checked one".
WithCertificates(o) ==
  [o EXCEPT !.covered =
     {k \in @ : ~(k.op \in Requested(target) /\ k.target = target)}
       \cup {Certificate(op, target, o.registered[op]) :
               op \in {op \in Requested(target) : Reachable(o, op, target)}}]

Classify ==
  /\ pc = "classify" /\ Worklist \subseteq available
  /\ pc' = "tips"
  /\ overlay' = WithCertificates(Pruned(Classified(overlay)))
  /\ news' = IF IsLost(Classified(overlay))
               THEN {}
               ELSE news \cup uncovered
  /\ UNCHANGED <<gitVars, kept, readVars, fresh, uncovered, tip>>

\* git show of a commit that is gone is a failure.
CommitIsGone ==
  /\ pc = "classify" /\ ~(Worklist \subseteq available)
  /\ Rollback
  /\ UNCHANGED gitVars

\* refreshLineLandings lists the refs again, or finds none when that fails; ...
ReadTips ==
  /\ pc = "tips" /\ pc' = "land"
  /\ tip' \in {refs[Line], Nothing}
  /\ UNCHANGED <<gitVars, overlay, kept, readVars, fresh, uncovered, news>>

\* ... and then asks Git for the landings on the line by its name.  The operations of
\* ops get theirs, and what it knows of the line's tip is now then.
Landed(o, ops, now) ==
  [o EXCEPT !.configured = TRUE, !.lineTip = now,
            !.landed = [op \in Operation |->
              LET found == Landing(o.registered[op], refs[Line]) IN
              IF op \in ops /\ found # Nothing THEN found ELSE @[op]]]

\* When Git fails the landings stay as they were.  When SQLite fails the rest is not
\* done, and nobody is told: the row of the old tip is deleted first, then come the
\* configuration and the operations one by one, the new tip last.
LandingResults(o) ==
  IF o.configured /\ o.lineTip = tip /\ news = {}
    THEN {o}
    ELSE {Landed(o, ops, tip) : ops \in {{}, Operation}}
           \cup IF target \notin Breaking THEN {} ELSE
             {o, [o EXCEPT !.lineTip = Nothing]}
             \cup {Landed(o, ToSet(SubSeq(ByName, 1, n)), Nothing) : n \in 0 .. Len(ByName)}

\* The roots and the fingerprint are of the refs read first.
Land ==
  /\ pc = "land"
  /\ \E o \in LandingResults(overlay) :
       overlay' = [o EXCEPT !.roots = Roots, !.fingerprint = Fingerprint]
  /\ End
  /\ UNCHANGED gitVars

\* Git or SQLite fails, the caller is cancelled or the process dies.
Fail ==
  /\ pc # "idle"
  /\ Rollback
  /\ UNCHANGED gitVars

-----------------------------------------------------------------------------
EmptyOverlay ==
  [observed |-> {}, roots |-> {}, fingerprint |-> Nothing,
   registered |-> [op \in Operation |-> {}], placed |-> {}, covered |-> {},
   configured |-> FALSE, lineTip |-> Nothing, landed |-> [op \in Operation |-> Nothing]]

Init ==
  /\ \E c \in Tips[Line] :
       /\ refs = [b \in Ref |-> IF b = Line THEN c ELSE Nothing]
       /\ reflog = {c} /\ available = Past[c]
  /\ overlay = EmptyOverlay /\ kept = Nothing
  /\ pc = "idle" /\ target = Nothing
  /\ sampled = [b \in Ref |-> Nothing] /\ logged = {}
  /\ fresh = {} /\ uncovered = {} /\ news = {} /\ tip = Nothing

TypeOK ==
  /\ refs \in [Ref -> Commit \cup {Nothing}]
  /\ reflog \cup logged \cup available \cup fresh \subseteq Commit
  /\ uncovered \cup news \subseteq Operation
  /\ {target, tip} \subseteq Commit \cup {Nothing}
  /\ pc \in {"idle", "reflog", "discover", "classify", "tips", "land"}
  /\ overlay.observed \cup overlay.roots \cup {r.commit : r \in overlay.placed} \subseteq Commit
  /\ overlay.registered \in [Operation -> SUBSET File]
  /\ overlay.landed \in [Operation -> Commit \cup {Nothing}]

RefreshStep ==
  \/ ReadReflog \/ FastPath \/ Discover \/ PlacementIsGone \/ Classify \/ CommitIsGone
  \/ ReadTips \/ Land \/ Fail

Next ==
  \/ \E b \in Ref : Delete(b) \/ \E c \in Commit : Move(b, c)
  \/ Collect
  \/ \E t \in Commit : Begin(t)
  \/ RefreshStep

Spec == Init /\ [][Next]_vars

-----------------------------------------------------------------------------
\* What readProvenanceEvidenceAt shows of an operation at a target, and what there is.
Evidence(o, op, t) == {r \in RowsOf({op}, o.placed) : r.commit \in Past[t]}
Canonical(o, op, t) ==
  {Placement(op, o.registered[op], c) : c \in {c \in Past[t] : Places(o.registered[op], c)}}

\* A refresh ends otherwise than by a rollback.
Refreshed ==
  /\ pc' = "idle"
  /\ \/ FastPath
     \/ pc = "land" /\ overlay' = [overlay EXCEPT !.roots = Roots, !.fingerprint = Fingerprint,
          !.configured = overlay'.configured, !.lineTip = overlay'.lineTip, !.landed = overlay'.landed]

\* A refresh of a target certifies every operation of it, and the placements shown are
\* all there are in its history for the files it found, and no others, whatever other
\* targets, branches and registrations the overlay has seen and Git has thrown away; a
\* landing on the line is one of the files the operation has now.
RefreshedRight ==
  Refreshed =>
    \A op \in Requested(target) :
      /\ overlay'.registered[op] = Members(op, target)
      /\ Certified(overlay', op, target)
      /\ Evidence(overlay', op, target) = Canonical(overlay', op, target)
      /\ overlay'.landed[op] \in
           {Nothing} \cup {Landing(Members(op, target), c) : c \in FirstParents[refs[Line]]}
RefreshIsRight == [][RefreshedRight]_vars
===============================================================================
