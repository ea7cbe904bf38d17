----------------------------- MODULE CacheLease -----------------------------
(***************************************************************************)
(* Reuse of another revision's archive in a lease                          *)
(* (src/src/Adrai/Compiler/CacheLease/Internal.hs, and the cascade of       *)
(* Compiler/CacheSelection/Internal.hs): the ranked candidates are tried in *)
(* turn, each copied into a private directory the lease owns and validated  *)
(* there, while other processes republish the archives they come from.      *)
(***************************************************************************)
EXTENDS Naturals, FiniteSets

CONSTANTS
  Candidates,   \* ranked archives are 1..Candidates, the best first
  None, Empty   \* nothing there; an empty directory

\* What the constant has to be.
CacheLeaseConstants == Candidates \in Nat \ {0}

Candidate == 1..Candidates
\* An archive: what its metadata says, and would the full validation accept it?
Archive == [meta : {"old", "new"}, good : BOOLEAN]

VARIABLES
  public,      \* the published archives
  described,   \* their metadata when the cascade discovered them
  private,     \* per candidate, its private directory: None, Empty, or a copy
  lifecycle,   \* leaseLifecycle
  cleanups,    \* leaseCleanup: candidates whose directory is registered
  source,      \* leaseSourcePath: the candidate accepted, or None
  current,     \* the candidate being prepared
  pc,          \* the step the scope is at
  pending,     \* what the scope's body came to
  outcome,     \* what the scope came to
  cancelled,   \* history: was an asynchronous exception delivered?
  stuck        \* history: candidates whose directory could not be removed

vars == <<public, described, private, lifecycle, cleanups, source, current, pc,
          pending, outcome, cancelled, stuck>>

Lifecycle == {"Vacant", "Preparing", "Open", "Retiring", "Closed"}
Result == {"none", "value", "typed", "failed", "cancelled"}

\* The type invariant, and the owner is vacant whenever a candidate can be begun:
\* beginCacheLeasePreparation refuses any other state.
TypeOK ==
  /\ public \in [Candidate -> Archive \cup {None}]
  /\ described \in [Candidate -> {"old", "new", None}]
  /\ private \in [Candidate -> Archive \cup {None, Empty}]
  /\ lifecycle \in Lifecycle
  /\ cleanups \in SUBSET Candidate
  /\ source \in Candidate \cup {None}
  /\ current \in 1..Candidates + 1
  /\ pc \in {"exact", "discover", "prepare", "copy", "validate", "discard", "sweep",
             "accept", "consume", "retire", "close", "ended"}
  /\ pending \in Result /\ outcome \in Result
  /\ cancelled \in BOOLEAN
  /\ stuck \in SUBSET Candidate
  /\ pc = "prepare" => lifecycle = "Vacant" /\ cleanups = {} /\ source = None

Init ==
  /\ public \in [Candidate -> Archive \cup {None}]
  /\ described = [c \in Candidate |-> None]
  /\ private = [c \in Candidate |-> None]
  /\ lifecycle = "Vacant" /\ cleanups = {} /\ source = None
  /\ current = 1
  /\ pc = "exact"
  /\ pending = "none" /\ outcome = "none"
  /\ cancelled = FALSE /\ stuck = {}

ownerState == <<lifecycle, cleanups, source>>

\* An exception leaves the body: the scope is retired, whatever was prepared.
Raise(async) ==
  /\ pc' = "retire"
  /\ pending' = IF async THEN "cancelled" ELSE "failed"
  /\ cancelled' = (cancelled \/ async)
  /\ UNCHANGED outcome
Continue(step) == pc' = step /\ UNCHANGED <<pending, outcome, cancelled>>
Return(result) == pc' = "retire" /\ pending' = result /\ UNCHANGED <<outcome, cancelled>>

(***************************************************************************)
(* The cascade.                                                            *)
(***************************************************************************)
\* The exact archive answers, fails for good, or is missed.
Exact ==
  /\ pc = "exact"
  /\ Continue("consume") \/ Continue("discover") \/ Return("typed") \/ \E a \in BOOLEAN : Raise(a)
  /\ UNCHANGED <<public, described, private, ownerState, current, stuck>>

\* Unreadable archives are left out; a fault of one is not a fault of discovery.
Discover ==
  /\ pc = "discover"
  /\ \/ /\ described' = [c \in Candidate |-> IF public[c] = None THEN None ELSE public[c].meta]
        /\ Continue("prepare")
     \/ Raise(TRUE) /\ UNCHANGED described
  /\ UNCHANGED <<public, private, ownerState, current, stuck>>

\* The next discovered candidate, or a cold compile when there is none left.
Skip ==
  /\ pc = "prepare" /\ current <= Candidates /\ described[current] = None
  /\ current' = current + 1
  /\ UNCHANGED <<public, described, private, ownerState, pc, pending, outcome, cancelled, stuck>>

Cold ==
  /\ pc = "prepare" /\ current > Candidates
  /\ Continue("consume")
  /\ UNCHANGED <<public, described, private, ownerState, current, stuck>>

\* Mutant: the directory is registered only when its copy has been accepted.
PrepareUnregistered ==
  /\ pc = "prepare" /\ current <= Candidates /\ described[current] # None
  /\ lifecycle' = "Preparing"
  /\ private' = [private EXCEPT ![current] = Empty]
  /\ Continue("copy")
  /\ UNCHANGED <<public, described, cleanups, source, current, stuck>>

\* beginCacheLeasePreparation, createPrivateReuseDirectory and
\* registerLeaseResource, all masked.  A directory that cannot be had is not a
\* miss of this candidate; one that cannot be registered is removed, if it can be.
Prepare ==
  /\ pc = "prepare" /\ current <= Candidates /\ described[current] # None
  /\ lifecycle = "Vacant" /\ lifecycle' = "Preparing"
  /\ \/ /\ private' = [private EXCEPT ![current] = Empty]
        /\ cleanups' = cleanups \cup {current}
        /\ Continue("copy") /\ UNCHANGED stuck
     \/ /\ \E a \in BOOLEAN : Raise(a)
        /\ UNCHANGED cleanups
        /\ \/ UNCHANGED <<private, stuck>>
           \/ /\ private' = [private EXCEPT ![current] = Empty]
              /\ stuck' = stuck \cup {current}
  /\ UNCHANGED <<public, described, source, current>>

\* A copy that fails discards the candidate, and goes on unless it was cancelled.
Copy ==
  /\ pc = "copy"
  /\ \/ /\ public[current] # None
        /\ private' = [private EXCEPT ![current] = public[current]]
        /\ Continue("validate")
     \/ Continue("discard") /\ UNCHANGED private
     \/ /\ pc' = "discard" /\ pending' = "cancelled" /\ cancelled' = TRUE
        /\ UNCHANGED <<private, outcome>>
  /\ UNCHANGED <<public, described, ownerState, current, stuck>>

\* Mutant: the public archive is validated, the private copy used.
ValidatePublic ==
  /\ pc = "validate"
  /\ Continue(IF public[current] # None /\ public[current].good /\ public[current].meta = described[current]
              THEN "accept" ELSE "discard")
  /\ UNCHANGED <<public, described, private, ownerState, current, stuck>>

\* validatedPrivateCopyWitness: a fault is a miss only once the connection was
\* rolled back and closed; a failure of that, or a cancellation, escapes.
Validate ==
  /\ pc = "validate"
  /\ \/ Continue(IF private[current].good /\ private[current].meta = described[current]
                 THEN "accept" ELSE "discard")
     \/ Continue("discard")
     \/ \E a \in BOOLEAN : Raise(a)
  /\ UNCHANGED <<public, described, private, ownerState, current, stuck>>

Accept ==
  /\ pc = "accept" /\ lifecycle = "Preparing" /\ source = None
  /\ lifecycle' = "Open" /\ source' = current
  /\ Continue("consume")
  /\ UNCHANGED <<public, described, private, cleanups, current, stuck>>

\* What is done with the decision: a value, a typed failure or an exception.
Consume ==
  /\ pc = "consume"
  /\ Return("value") \/ Return("typed") \/ \E a \in BOOLEAN : Raise(a)
  /\ UNCHANGED <<public, described, private, ownerState, current, stuck>>

(***************************************************************************)
(* The cleanups: all are attempted, each may fail or be interrupted.        *)
(***************************************************************************)
Sweep(left) ==
  /\ left \subseteq cleanups
  /\ private' = [c \in Candidate |-> IF c \in cleanups \ left THEN None ELSE private[c]]
  /\ stuck' = stuck \cup left

\* What a sweep reports: nothing, a failure, or above all an interruption.
Swept(left, swept) ==
  swept \in (IF left = {} THEN {"clean"} ELSE {"failed", "cancelled"})

Discard ==
  /\ pc = "discard" /\ lifecycle = "Preparing"
  /\ lifecycle' = "Retiring"
  /\ Continue("sweep")
  /\ UNCHANGED <<public, described, private, cleanups, source, current, stuck>>

\* Mutant: an unproven cleanup is taken for one more miss.
DiscardSweepIgnoring ==
  /\ pc = "sweep"
  /\ \E left \in SUBSET cleanups : Sweep(left)
  /\ lifecycle' = "Vacant" /\ cleanups' = {} /\ source' = None
  /\ current' = current + 1
  /\ IF pending = "cancelled" THEN Raise(TRUE) ELSE Continue("prepare")
  /\ UNCHANGED <<public, described>>

\* Mutant: the owner is left retiring by the sweep.
DiscardSweepUnreset ==
  /\ pc = "sweep"
  /\ \E left \in SUBSET cleanups, swept \in {"clean", "failed", "cancelled"} :
       /\ Sweep(left) /\ Swept(left, swept)
       /\ IF pending = "cancelled" \/ swept = "cancelled" THEN Raise(TRUE) /\ UNCHANGED current
          ELSE IF swept = "failed" THEN Raise(FALSE) /\ UNCHANGED current
          ELSE Continue("prepare") /\ current' = current + 1
  /\ cleanups' = {} /\ source' = None
  /\ UNCHANGED <<public, described, lifecycle>>

\* The owner is vacant again, but only a clean sweep goes on to the next one.
DiscardSweep ==
  /\ pc = "sweep"
  /\ \E left \in SUBSET cleanups, swept \in {"clean", "failed", "cancelled"} :
       /\ Sweep(left) /\ Swept(left, swept)
       /\ IF pending = "cancelled" \/ swept = "cancelled" THEN Raise(TRUE) /\ UNCHANGED current
          ELSE IF swept = "failed" THEN Raise(FALSE) /\ UNCHANGED current
          ELSE Continue("prepare") /\ current' = current + 1
  /\ lifecycle' = "Vacant" /\ cleanups' = {} /\ source' = None
  /\ UNCHANGED <<public, described>>

\* The lease stops being open before its resources go.
Retire ==
  /\ pc = "retire"
  /\ lifecycle' = "Retiring"
  /\ Continue("close")
  /\ UNCHANGED <<public, described, private, cleanups, source, current, stuck>>

\* Mutant: a typed failure wins over everything the cleanup reports.
ResolveTyped(swept) ==
  IF pending = "typed" \/ (pending = "failed" /\ swept # "cancelled") THEN pending
  ELSE IF "cancelled" \in {pending, swept} THEN "cancelled"
  ELSE IF swept = "clean" THEN "value" ELSE "failed"

\* resolveLeaseOutcome: a cancelled body, a cancelled cleanup, a failed body (or
\* its typed failure), a failed cleanup, in that order.
Resolve(swept) ==
  IF "cancelled" \in {pending, swept} THEN "cancelled"
  ELSE IF pending \in {"failed", "typed"} THEN pending
  ELSE IF swept = "clean" THEN "value" ELSE "failed"

Close ==
  /\ pc = "close"
  /\ \E left \in SUBSET cleanups, swept \in {"clean", "failed", "cancelled"} :
       /\ Sweep(left) /\ Swept(left, swept)
       /\ outcome' = Resolve(swept)
       /\ cancelled' = (cancelled \/ swept = "cancelled")
  /\ lifecycle' = "Closed" /\ pc' = "ended"
  /\ UNCHANGED <<public, described, cleanups, source, current, pending>>

\* Another process publishes an archive anew, or removes it.
Republish ==
  /\ \E c \in Candidate, a \in {b \in Archive : b.meta = "new"} \cup {None} :
       public' = [public EXCEPT ![c] = a]
  /\ UNCHANGED <<described, private, ownerState, current, pc, pending, outcome, cancelled, stuck>>

Next ==
  \/ Exact \/ Discover \/ Skip \/ Cold \/ Prepare \/ Copy \/ Validate \/ Accept
  \/ Consume \/ Discard \/ DiscardSweep \/ Retire \/ Close \/ Republish

Spec == Init /\ [][Next]_vars

(***************************************************************************)
(* Properties.                                                             *)
(***************************************************************************)

\* The lease is open only on a private copy that is valid and is the archive
\* that was discovered and ranked, whatever happens to the public one.
OpenIsValidated ==
  lifecycle = "Open" =>
    /\ private[source] \in Archive
    /\ private[source].good /\ private[source].meta = described[source]

\* How a scope ends: no private directory is left, of any candidate tried, other
\* than those whose removal failed; a cancellation delivered at any step, cleanups
\* included, is what it ends with; and a selection is only made, and a value only
\* returned, while every candidate tried before is known to be gone.  And all
\* variables keep their types.
EndsClean ==
  /\ TypeOK
  /\ (pc = "consume" \/ outcome = "value") => stuck = {}
  /\ pc = "ended" =>
       /\ \A c \in Candidate \ stuck : private[c] = None
       /\ cancelled <=> outcome = "cancelled"
=============================================================================
