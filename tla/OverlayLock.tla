----------------------------- MODULE OverlayLock -----------------------------
(***************************************************************************)
(* The lock in front of the shared provenance overlay                      *)
(* (src/src/Adrai/Provenance/Lock.hs).  Authority is an open SQLite writer *)
(* transaction that holds an uncommitted singleton row: closing the        *)
(* connection, or the death of its process, gives it back.  The former     *)
(* protocol committed that row instead and deleted it afterwards; a        *)
(* program that still runs it is modelled by the variable "former".        *)
(***************************************************************************)
EXTENDS Integers

CONSTANTS
  Client,        \* callers of withOverlayLock and withOverlayLockWaiting
  Waiting,       \* the callers of the waiting wrapper
  Former,        \* the caller that runs the former protocol
  Retries,       \* the bounded wrapper's retries (50 in the code)
  FaultsHappen,  \* may ROLLBACK and close both fail?
  None

ASSUME ClientAssumption == Waiting \subseteq Client /\ Former \notin Client
ASSUME RetriesAssumption == Retries \in Nat
ASSUME NoneAssumption == None \notin Client \cup {Former}
ASSUME FaultsAssumption == FaultsHappen \in BOOLEAN

VARIABLES
  writer,     \* the connection that holds SQLite's writer transaction
  committed,  \* is the singleton row committed?
  leaked,     \* clients whose process keeps a connection that did not close
  pc,         \* per client, the step of its wrapper
  remaining,  \* per client, retries left
  outcome,    \* per client, how its last call ended
  former      \* the former protocol's program: idle, holding or dead

vars == <<writer, committed, leaked, pc, remaining, outcome, former>>

PC == {"idle", "open", "begin", "claimed", "refused", "delay", "action", "release", "close"}
Outcome == {"none", "ran", "LockTimeout", "OwnershipUnknown", "cancelled", "failed"}

TypeOK ==
  /\ writer \in Client \cup {None}
  /\ committed \in BOOLEAN
  /\ leaked \in SUBSET Client
  /\ pc \in [Client -> PC]
  /\ remaining \in [Client -> 0..Retries]
  /\ outcome \in [Client -> Outcome]
  /\ former \in {"idle", "holding", "dead"}

Init ==
  /\ writer = None
  /\ committed = FALSE
  /\ leaked = {}
  /\ pc = [c \in Client |-> "idle"]
  /\ remaining = [c \in Client |-> Retries]
  /\ outcome = [c \in Client |-> "none"]
  /\ former = "idle"

Goto(c, step) == pc' = [pc EXCEPT ![c] = step]
Finish(c, result) ==
  /\ pc' = [pc EXCEPT ![c] = "idle"]
  /\ outcome' = [outcome EXCEPT ![c] = result]

Call(c) ==
  /\ pc[c] = "idle"
  /\ Goto(c, "open")
  /\ remaining' = [remaining EXCEPT ![c] = Retries]
  /\ outcome' = [outcome EXCEPT ![c] = "none"]
  /\ UNCHANGED <<writer, committed, leaked, former>>

(***************************************************************************)
(* One attempt (attemptOverlayLock).                                       *)
(***************************************************************************)
\* How a wrapper goes on after an attempt without the lock.
Again(c) ==
  IF c \notin Waiting /\ remaining[c] = 0
    THEN Finish(c, "LockTimeout")
    ELSE Goto(c, "delay") /\ UNCHANGED outcome

\* Opening the lock database may itself meet the other connection's writing
\* (ErrorBusy): there is no connection to close then.
Open(c) ==
  /\ pc[c] = "open"
  /\ \/ Goto(c, "begin") /\ UNCHANGED outcome
     \/ writer # None /\ Again(c)
  /\ UNCHANGED <<writer, committed, leaked, remaining, former>>

\* The lock database cannot be opened for a reason other than contention.
OpenFails(c) ==
  /\ pc[c] = "open"
  /\ Finish(c, "failed")
  /\ UNCHANGED <<writer, committed, leaked, remaining, former>>

\* Mutant: BEGIN DEFERRED takes no writer authority.
BeginDeferred(c) ==
  /\ pc[c] = "begin"
  /\ writer' = c
  /\ Goto(c, "claimed")
  /\ UNCHANGED <<committed, leaked, remaining, outcome, former>>

\* BEGIN IMMEDIATE; INSERT OR IGNORE of row 1.
Begin(c) ==
  /\ pc[c] = "begin"
  /\ writer = None
  /\ writer' = c
  /\ Goto(c, "claimed")
  /\ UNCHANGED <<committed, leaked, remaining, outcome, former>>

\* Closing a connection, or failing to: a process may then keep the transaction
\* until it exits.
Closed(c) ==
  /\ writer' = IF pc[c] # "begin" /\ writer = c THEN None ELSE writer
  /\ UNCHANGED leaked
CloseFails(c) == FaultsHappen /\ leaked' = leaked \cup {c} /\ UNCHANGED writer

\* ErrorBusy: another connection writes.  The connection is closed first; a
\* close that fails is reported instead of the contention.
Busy(c) ==
  /\ pc[c] = "begin"
  /\ writer # None
  /\ \/ Closed(c) /\ Again(c)
     \/ CloseFails(c) /\ Finish(c, "failed")
  /\ UNCHANGED <<committed, remaining, former>>

\* Mutant: the row a former owner committed is taken for the caller's own.
StealRow(c) ==
  /\ pc[c] = "claimed"
  /\ Goto(c, "action")
  /\ UNCHANGED <<writer, committed, leaked, remaining, outcome, former>>

\* changes() = 1: the row is this transaction's own.
Acquire(c) ==
  /\ pc[c] = "claimed"
  /\ ~committed
  /\ Goto(c, "action")
  /\ UNCHANGED <<writer, committed, leaked, remaining, outcome, former>>

\* changes() = 0: a committed row of unknown ownership.
Refuse(c) ==
  /\ pc[c] = "claimed"
  /\ committed
  /\ Goto(c, "refused")
  /\ UNCHANGED <<writer, committed, leaked, remaining, outcome, former>>

\* Mutant: the refused attempt keeps its transaction.
RefusedLeft(c) ==
  /\ pc[c] = "refused"
  /\ IF c \in Waiting THEN Finish(c, "OwnershipUnknown") ELSE Again(c)
  /\ UNCHANGED <<writer, leaked, committed, remaining, former>>

\* Mutant: the waiting wrapper treats an unknown owner like contention.
RefusedRetries(c) ==
  /\ pc[c] = "refused"
  /\ Closed(c) /\ Again(c)
  /\ UNCHANGED <<committed, remaining, former>>

\* cleanupConnection; the bounded wrapper retries, the waiting one gives up.
Refused(c) ==
  /\ pc[c] = "refused"
  /\ \/ /\ Closed(c)
        /\ IF c \in Waiting THEN Finish(c, "OwnershipUnknown") ELSE Again(c)
     \/ CloseFails(c) /\ Finish(c, "failed")
  /\ UNCHANGED <<committed, remaining, former>>

\* Any other failure of a statement: close the connection and rethrow.
AttemptFails(c) ==
  /\ pc[c] \in {"begin", "claimed"}
  /\ Closed(c) \/ CloseFails(c)
  /\ Finish(c, "failed")
  /\ UNCHANGED <<committed, remaining, former>>

Retry(c) ==
  /\ pc[c] = "delay"
  /\ Goto(c, "open")
  /\ remaining' = IF c \in Waiting THEN remaining
                                   ELSE [remaining EXCEPT ![c] = @ - 1]
  /\ UNCHANGED <<writer, committed, leaked, outcome, former>>

\* Acquisition runs masked: only the delay between attempts is interruptible.
CancelDelay(c) ==
  /\ pc[c] = "delay"
  /\ Finish(c, "cancelled")
  /\ UNCHANGED <<writer, committed, leaked, remaining, former>>

(***************************************************************************)
(* The action and its release (withOverlayAcquisition).                    *)
(***************************************************************************)
\* The action returns, throws or is cancelled; cancellation outranks whatever
\* the release reports.
EndAction(c) ==
  /\ pc[c] = "action"
  /\ Goto(c, "release")
  /\ \E result \in {"ran", "failed", "cancelled"} :
       outcome' = [outcome EXCEPT ![c] = result]
  /\ UNCHANGED <<writer, committed, leaked, remaining, former>>

\* Mutant: the release commits the claim instead of rolling it back.
RollbackCommits(c) ==
  /\ pc[c] = "release"
  /\ Goto(c, "close")
  /\ writer' = None
  /\ committed' = TRUE
  /\ UNCHANGED <<leaked, remaining, outcome, former>>

\* Synchronous release problems never replace a cancellation.
Problem(c) == outcome' = [outcome EXCEPT ![c] = IF @ = "cancelled" THEN @ ELSE "failed"]

\* ROLLBACK; a failure is kept and the close is attempted all the same.
Rollback(c) ==
  /\ pc[c] = "release"
  /\ Goto(c, "close")
  /\ \/ writer' = None /\ UNCHANGED outcome
     \/ UNCHANGED writer /\ Problem(c)
  /\ UNCHANGED <<committed, leaked, remaining, former>>

\* Closing a connection rolls its transaction back.
Close(c) ==
  /\ pc[c] = "close"
  /\ Goto(c, "idle")
  /\ \/ Closed(c) /\ UNCHANGED outcome
     \/ CloseFails(c) /\ Problem(c)
  /\ UNCHANGED <<committed, remaining, former>>

\* The client's process dies: SQLite rolls back what it left open.
Crash(c) ==
  /\ pc[c] # "idle" \/ c \in leaked
  /\ writer' = IF writer = c THEN None ELSE writer
  /\ leaked' = leaked \ {c}
  /\ Finish(c, "none")
  /\ UNCHANGED <<committed, remaining, former>>

(***************************************************************************)
(* A program of the former protocol (external): it commits the row, works, *)
(* deletes it, or dies in between.  Nobody else deletes the row.           *)
(***************************************************************************)
FormerClaims ==
  /\ former = "idle" /\ writer = None /\ ~committed
  /\ committed' = TRUE /\ former' = "holding"
  /\ UNCHANGED <<writer, leaked, pc, remaining, outcome>>

FormerReleases ==
  /\ former = "holding" /\ writer = None
  /\ committed' = FALSE /\ former' = "idle"
  /\ UNCHANGED <<writer, leaked, pc, remaining, outcome>>

FormerDies ==
  /\ former = "holding"
  /\ former' = "dead"
  /\ UNCHANGED <<writer, committed, leaked, pc, remaining, outcome>>

Attempt(c) ==
  \/ Open(c) \/ OpenFails(c) \/ Begin(c) \/ Busy(c) \/ Acquire(c) \/ Refuse(c)
  \/ Refused(c) \/ AttemptFails(c) \/ Retry(c)

Step(c) == Attempt(c) \/ Rollback(c) \/ Close(c)

Next ==
  \/ \E c \in Client : Step(c) \/ Call(c) \/ CancelDelay(c) \/ EndAction(c) \/ Crash(c)
  \/ FormerClaims \/ FormerReleases \/ FormerDies

Spec == Init /\ [][Next]_vars

\* A call that has begun keeps running.  Actions may run for ever, and nothing
\* is assumed of the former program.
FairSpec == Spec /\ \A c \in Client : WF_vars(Step(c))

(***************************************************************************)
(* Properties.                                                             *)
(***************************************************************************)

\* A protected action runs only in its own live writer transaction and never
\* beside a committed claim, whether its owner lives or is dead: retries,
\* failed rollbacks and crashes of others never hand the overlay over early.
ClaimIsNeverStolen ==
  \A c \in Client : pc[c] = "action" =>
    /\ writer = c
    /\ ~committed
    /\ \A d \in Client : pc[d] = "action" => d = c

\* An attempt that failed, was refused or was cancelled, and an action whose
\* ROLLBACK failed, never leave the overlay locked behind them: only a process
\* in which even the close failed keeps the transaction, until it exits.
NoOrphanTransaction ==
  /\ \A c \in Client : writer = c =>
       c \in leaked \/ pc[c] \in {"claimed", "refused", "action", "release", "close"}
  /\ FaultsHappen \/ leaked = {}

\* What makes the claim exclusive by induction: the steps between BEGIN and
\* ROLLBACK own the transaction, a refused attempt has seen the committed row
\* it still excludes from deletion, and the row is a former owner's.
OwnershipKnown ==
  /\ \A c \in Client :
       /\ pc[c] \in {"claimed", "refused", "action", "release"} => writer = c
       /\ pc[c] = "action" => ~committed
  /\ committed <=> former # "idle"

\* A bounded caller that is about to retry has a retry left.
RetriesLeft ==
  \A c \in Client \ Waiting : pc[c] = "delay" => remaining[c] > 0

IInv == TypeOK /\ OwnershipKnown /\ RetriesLeft /\ NoOrphanTransaction

\* The lock, with the former protocol's owner as one more client, is an
\* exclusive lock.  A dead owner of a committed row is inside for ever.
Abstract == INSTANCE ExclusiveLock WITH
  Thread <- Client \cup {Former},
  inside <- {c \in Client : pc[c] = "action"}
              \cup (IF former # "idle" THEN {Former} ELSE {})
ImplementsExclusiveLock == Abstract!Spec

\* The waiting wrapper does not wait for a dead owner of a committed row: once
\* the other callers leave the lock database alone, the unknown ownership is
\* reported.  (SQLite's hand-over is not fair, so a stream of other attempts
\* could keep it busy; so does a transaction that could not be closed.)
Quiet(c) == <>[](leaked = {} /\ \A d \in Client \ {c} : pc[d] = "idle")
UnknownOwnerReported ==
  \A c \in Waiting :
    Quiet(c) => ((former = "dead" /\ pc[c] = "open") ~> (pc[c] = "idle"))
=============================================================================
