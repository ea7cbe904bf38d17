---------------------------- MODULE MCTransaction ----------------------------
(***************************************************************************)
(* Three parts, a behaviour being of one of them, which the rigid variable *)
(* part names.  In two of them operations run: in "alone" only w0, of two  *)
(* files, among all the failures and edits there are; in "pair" w1 and w2, *)
(* which meet each other, outside commits and git children that outlive    *)
(* their transaction.  In "shared" the provenance overlay is refreshed,    *)
(* which has nothing to do with them: its variables are None elsewhere,    *)
(* and theirs keep their initial values in it.                             *)
(***************************************************************************)
EXTENDS Transaction, TLC

CONSTANTS
  w0, w1, w2, a, b, main, side,
  AloneCommits,                    \* bound: commits in the part "alone"
  root, feature, squash,           \* the commits of the overlay's repository,
  A, B, C, a1, b1, b2, c1          \* its operations and their files

VARIABLES
  part,
  refs, reflog, available, overlay, kept, stage, wanted, sampled, logged,
  fresh, uncovered, news, lineTip

\* One operation of two files, and two that do not touch each other's path.
PlannedFiles == w0 :> <<a, b>> @@ w1 :> <<a>> @@ w2 :> <<b>>

\* The variant of the web's mutations, and the plain one.
Publishing == [publishes |-> TRUE, checksBasis |-> TRUE]
Plain == [publishes |-> FALSE, checksBasis |-> FALSE]
Both == {Publishing, Plain}
PublishingOnly == {Publishing}

\* A is in the root.  B and C are committed on a branch with a history of its own, whose
\* commit is squashed into main with another file of B.
CommitSet == {root, feature, squash}
OperationSet == {A, B, C}
InOrder == <<C, B, A>>
FileSet == {a1, b1, b2, c1}
BreakingSet == {squash}
ParentsOf == root :> <<>> @@ feature :> <<>> @@ squash :> <<root>>
TreeOf == root :> {a1} @@ feature :> {b1, c1} @@ squash :> {a1, b1, b2, c1}
TrailerOf == root :> {} @@ feature :> {B, C} @@ squash :> {}
OwnerOf == a1 :> A @@ b1 :> B @@ b2 :> B @@ c1 :> C
BasisOf == A :> None @@ B :> root @@ C :> root
TipsOf == main :> {root, squash} @@ side :> {feature}

Shared == INSTANCE Provenance WITH
  Commit <- CommitSet, Operation <- OperationSet, ByName <- InOrder, File <- FileSet,
  Ref <- Branch, Line <- main, Parents <- ParentsOf, Tree <- TreeOf,
  Trailer <- TrailerOf, OperationOf <- OwnerOf, Basis <- BasisOf, Tips <- TipsOf,
  Breaking <- BreakingSet, Nothing <- None, pc <- stage, target <- wanted, tip <- lineTip

ASSUME PartsAssumption == TransactionConstants

overlayVars == <<refs, reflog, available, overlay, kept, stage, wanted, sampled, logged,
                 fresh, uncovered, news, lineTip>>
partVars == <<part, vars, overlayVars>>

NoOverlay ==
  /\ refs = None /\ reflog = None /\ available = None /\ overlay = None /\ kept = None
  /\ stage = None /\ wanted = None /\ sampled = None /\ logged = None
  /\ fresh = None /\ uncovered = None /\ news = None /\ lineTip = None

\* A behaviour ends with its operations: what outsiders do later is of no interest.
Over(ws) == \A w \in ws : pc[w] \in {"done", "dead"} /\ ~stray[w]
OnlyPublishing(ws) == \A w \in ws : variant[w] = Publishing

\* Only w0 runs, and the object store is small.
AloneInit == part = "alone" /\ Init /\ OnlyPublishing({w1, w2}) /\ NoOverlay
AloneNext ==
  /\ part = "alone" /\ ~Over({w0})
  /\ WriterStep(w0) \/ OutsideStep
  /\ Len(commits') <= AloneCommits
  /\ UNCHANGED <<part, overlayVars>>
AloneSpec == AloneInit /\ [][AloneNext]_partVars

\* Only the branch main is used, nobody is cancelled, and outsiders only commit.
OfPair ==
  /\ head # side /\ tip[side] = 1
  /\ \A w \in Writer : basis[w].ref # side /\ failure[w] # "async" /\ outcome[w] # "cancelled"
PairInit == part = "pair" /\ Init /\ OnlyPublishing(Writer) /\ OfPair /\ NoOverlay
PairNext ==
  /\ part = "pair" /\ ~Over({w1, w2})
  /\ \/ WriterStep(w1) \/ WriterStep(w2)
     \/ OutsideStep /\ UNCHANGED <<worktree, index>>
  /\ OfPair'
  /\ UNCHANGED <<part, overlayVars>>

SharedInit == part = "shared" /\ Shared!Init /\ Init /\ head = main /\ OnlyPublishing(Writer)
SharedNext == part = "shared" /\ Shared!Next /\ UNCHANGED <<part, vars>>

PartsInit == AloneInit \/ PairInit \/ SharedInit
PartsNext == AloneNext \/ PairNext \/ SharedNext
PartsSpec == PartsInit /\ [][PartsNext]_partVars

(***************************************************************************)
(* The overlay's properties; those of the operations are Transaction's.    *)
(***************************************************************************)

\* A refresh of the provenance overlay ends with the evidence there is at its target,
\* and all its variables keep their types.
RefreshIsRight ==
  /\ part = "shared" => Shared!TypeOK
  /\ [][part = "shared" => Shared!TypeOK' /\ Shared!RefreshedRight]_partVars
=============================================================================
