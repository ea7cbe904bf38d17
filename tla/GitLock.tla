------------------------------- MODULE GitLock -------------------------------
(***************************************************************************)
(* The cross-process mutation lock at <git-common-dir>/adrai.lock          *)
(* (src/src/Adrai/Provenance/Git/Lock.hs).  Authority is the exclusive     *)
(* flock on an open descriptor ("native"); in front of it stand, in each   *)
(* process, a registry of reservations and owners keyed by a generation    *)
(* token, and a FIFO admission queue with a deadline.  Status probes take  *)
(* the same native lock for a moment.                                      *)
(*                                                                         *)
(* One lock path is modelled.  An admission ticket is identified with the  *)
(* thread that holds it: a thread waits with one ticket at a time.  The    *)
(* bytes of the lock file only name an owner in error messages and are     *)
(* left out.                                                               *)
(***************************************************************************)
EXTENDS Naturals, Sequences, FiniteSets

CONSTANTS
  Process,        \* operating-system processes of this program
  Thread,         \* threads of those processes
  Home,           \* the process each thread belongs to
  QueueLimit,     \* gitLockWaitQueueLimit
  MaxToken,       \* bound: reservations one process makes in its lifetime
  CloseMayStick,  \* may a native close fail without releasing the handle?
  None

ASSUME HomeAssumption == Home \in [Thread -> Process]
ASSUME BoundsAssumption == QueueLimit \in Nat /\ MaxToken \in Nat
ASSUME NoneAssumption == /\ None \notin Nat
                         /\ None \notin Process \X Nat
                         /\ None \notin [token : Nat, state : {"blocked", "closing"}]
ASSUME StickAssumption == CloseMayStick \in BOOLEAN

Token == 1..MaxToken

VARIABLES
  queue,         \* admissions: per process, the threads waiting in FIFO order
  reservation,   \* reservationsByPath: the token that owns the path locally
  nextToken,     \* nextReservation
  owners,        \* ownersByKey: per process and token, the owner's state
  probe,         \* probesByPath: a status probe whose close failed, or None
  native,        \* the handle <<process, token>> that holds the flock, or None
  returned,      \* per process, tokens of lock values whose action has ended
  pc,            \* per thread, the step of withGitLock or gitLockStatus
  token,         \* per thread, the token it works with
  expired,       \* per thread, has its waiting deadline passed?
  behind         \* history: who joined the queue while this thread waited

registryVars == <<reservation, nextToken, owners, probe>>
waitVars == <<queue, expired, behind>>
vars == <<queue, reservation, nextToken, owners, probe, native, returned,
          pc, token, expired, behind>>

ProbeValue == [token : Nat, state : {"blocked", "closing"}]

PC == {"idle", "queued", "acquire", "reserved", "writing", "owned", "action",
       "release", "closing", "closed", "retire",
       "probe", "probing", "probed", "reprobe"}

TypeOK ==
  /\ queue \in [Process -> Seq(Thread)]
  /\ \A p \in Process : Len(queue[p]) <= QueueLimit
  /\ reservation \in [Process -> Nat \cup {None}]
  /\ nextToken \in [Process -> Nat \ {0}]
  /\ owners \in [Process -> [Token -> {"absent", "available", "closing"}]]
  /\ probe \in [Process -> ProbeValue \cup {None}]
  /\ native \in (Process \X Nat) \cup {None}
  /\ returned \in [Process -> SUBSET Token]
  /\ pc \in [Thread -> PC]
  /\ token \in [Thread -> Nat]
  /\ expired \in [Thread -> BOOLEAN]
  /\ behind \in [Thread -> SUBSET Thread]

Init ==
  /\ queue = [p \in Process |-> <<>>]
  /\ reservation = [p \in Process |-> None]
  /\ nextToken = [p \in Process |-> 1]
  /\ owners = [p \in Process |-> [k \in Token |-> "absent"]]
  /\ probe = [p \in Process |-> None]
  /\ native = None
  /\ returned = [p \in Process |-> {}]
  /\ pc = [t \in Thread |-> "idle"]
  /\ token = [t \in Thread |-> 0]
  /\ expired = [t \in Thread |-> FALSE]
  /\ behind = [t \in Thread |-> {}]

Handle(t) == <<Home[t], token[t]>>

(***************************************************************************)
(* The registry.  Each operator is one atomic update of the process-wide   *)
(* MVar; p is the process, k a token.                                      *)
(***************************************************************************)
\* Mutant: tokens are reused.
ReserveSameToken(t) ==
  LET p == Home[t] IN
  /\ reservation[p] = None
  /\ token' = [token EXCEPT ![t] = nextToken[p]]
  /\ reservation' = [reservation EXCEPT ![p] = nextToken[p]]
  /\ UNCHANGED nextToken

Reserve(t) ==
  LET p == Home[t] IN
  /\ reservation[p] = None
  /\ nextToken[p] <= MaxToken
  /\ token' = [token EXCEPT ![t] = nextToken[p]]
  /\ reservation' = [reservation EXCEPT ![p] = nextToken[p]]
  /\ nextToken' = [nextToken EXCEPT ![p] = @ + 1]

\* Mutant: a release clears the path whoever has reserved it since.
ReservationCleared(p, k) == [reservation EXCEPT ![p] = None]

\* A release names the generation it owns: a newer reservation survives it.
ReservationWithout(p, k) ==
  [reservation EXCEPT ![p] = IF @ = k THEN None ELSE @]

(***************************************************************************)
(* Admission and acquisition (withGitLockWaitWith, acquireGitLockWith).    *)
(***************************************************************************)
Waiting(u) == pc[u] \in {"queued", "acquire", "reserved", "writing", "owned"}

Enqueue(t) ==
  LET p == Home[t] IN
  /\ pc[t] = "idle"
  /\ Len(queue[p]) < QueueLimit
  /\ queue' = [queue EXCEPT ![p] = Append(@, t)]
  /\ pc' = [pc EXCEPT ![t] = "queued"]
  /\ behind' = [u \in Thread |->
                  IF pc[u] = "queued" /\ Home[u] = p THEN behind[u] \cup {t}
                                                     ELSE behind[u]]
  /\ UNCHANGED <<registryVars, native, returned, token, expired>>

\* The timer started before the ticket was queued fires.
Expire(t) ==
  /\ Waiting(t) /\ ~expired[t]
  /\ expired' = [expired EXCEPT ![t] = TRUE]
  /\ UNCHANGED <<queue, registryVars, native, returned, pc, token, behind>>

\* Mutant: any ticket in the queue is admitted.
IsAnywhere(t) == \E i \in 1..Len(queue[Home[t]]) : queue[Home[t]][i] = t

IsHead(t) == Len(queue[Home[t]]) > 0 /\ Head(queue[Home[t]]) = t

Admit(t) ==
  /\ pc[t] = "queued" /\ ~expired[t]
  /\ IsHead(t)
  /\ pc' = [pc EXCEPT ![t] = "acquire"]
  /\ UNCHANGED <<waitVars, registryVars, native, returned, token>>

\* Mutant: the ticket of an attempt that ends early is not retired.
GiveUpUnretired(t) ==
  /\ pc[t] \in {"queued", "acquire"}
  /\ pc' = [pc EXCEPT ![t] = "idle"]
  /\ UNCHANGED <<waitVars, registryVars, native, returned, token>>

\* The deadline, or a cancellation at an interruptible wait, ends the attempt.
GiveUp(t) ==
  /\ pc[t] \in {"queued", "acquire"}
  /\ pc' = [pc EXCEPT ![t] = "retire"]
  /\ UNCHANGED <<waitVars, registryVars, native, returned, token>>

\* Mutant: the deadline only covers the acquisition, not the queue before it.
TimeOutAtHead(t) == expired[t] /\ pc[t] = "acquire" /\ GiveUp(t)

TimeOut(t) == expired[t] /\ GiveUp(t)
Cancel(t) == ~expired[t] /\ GiveUp(t)

\* A reserved path is LockHeld: the thread stays in "acquire" and tries again.
TryReserve(t) ==
  /\ pc[t] = "acquire" /\ ~expired[t]
  /\ Reserve(t)
  /\ pc' = [pc EXCEPT ![t] = "reserved"]
  /\ UNCHANGED <<waitVars, owners, probe, native, returned>>

\* Mutant: the handle is opened without the exclusive flock.
OpenShared(t) ==
  /\ pc[t] = "reserved"
  /\ native' = Handle(t)
  /\ pc' = [pc EXCEPT ![t] = "writing"]
  /\ UNCHANGED <<waitVars, registryVars, returned, token>>

OpenNative(t) ==
  /\ pc[t] = "reserved"
  /\ native = None
  /\ native' = Handle(t)
  /\ pc' = [pc EXCEPT ![t] = "writing"]
  /\ UNCHANGED <<waitVars, registryVars, returned, token>>

\* Contention is retried until the deadline; any other failure is final.
OpenFails(t) ==
  /\ pc[t] = "reserved"
  /\ reservation' = ReservationWithout(Home[t], token[t])
  /\ \/ native # None /\ pc' = [pc EXCEPT ![t] = "acquire"]
     \/ pc' = [pc EXCEPT ![t] = "retire"]
  /\ UNCHANGED <<waitVars, nextToken, owners, probe, native, returned, token>>

RegisterOwner(t) ==
  /\ pc[t] = "writing"
  /\ owners' = [owners EXCEPT ![Home[t]][token[t]] = "available"]
  /\ pc' = [pc EXCEPT ![t] = "owned"]
  /\ UNCHANGED <<waitVars, reservation, nextToken, probe, native, returned, token>>

\* Mutant: the reservation is released although the handle may be open.
WriteFailsReleased(t) ==
  /\ pc[t] = "writing"
  /\ pc' = [pc EXCEPT ![t] = "retire"]
  /\ native' = None \/ UNCHANGED native
  /\ reservation' = ReservationWithout(Home[t], token[t])
  /\ UNCHANGED <<waitVars, nextToken, owners, probe, returned, token>>

\* Writing the owner's bytes failed or was cancelled (closeAfterFailedWrite):
\* when even the close is inconclusive the token stays reserved for good.
WriteFails(t) ==
  /\ pc[t] = "writing"
  /\ pc' = [pc EXCEPT ![t] = "retire"]
  /\ \/ /\ native' = None
        /\ reservation' = ReservationWithout(Home[t], token[t])
     \/ CloseMayStick /\ UNCHANGED <<native, reservation>>
  /\ UNCHANGED <<waitVars, nextToken, owners, probe, returned, token>>

\* An owner that got the lock after its deadline gives it back.
StartAction(t) ==
  /\ pc[t] = "owned"
  /\ pc' = [pc EXCEPT ![t] = IF expired[t] THEN "release" ELSE "action"]
  /\ UNCHANGED <<waitVars, registryVars, native, returned, token>>

\* The protected action ends, by a result or an exception.
EndAction(t) ==
  /\ pc[t] = "action"
  /\ returned' = [returned EXCEPT ![Home[t]] = @ \cup {token[t]}]
  /\ pc' = [pc EXCEPT ![t] = "release"]
  /\ UNCHANGED <<waitVars, registryVars, native, token>>

(***************************************************************************)
(* Release (releaseGitLock): claim the owner, close, forget it.            *)
(***************************************************************************)
ClaimOwner(p, k) ==
  owners' = [owners EXCEPT ![p][k] = "closing"]

Release(t) ==
  LET p == Home[t]  k == token[t] IN
  /\ pc[t] = "release"
  /\ IF owners[p][k] = "available"
       THEN ClaimOwner(p, k) /\ pc' = [pc EXCEPT ![t] = "closing"]
       ELSE pc' = [pc EXCEPT ![t] = "retire"] /\ UNCHANGED owners
  /\ UNCHANGED <<waitVars, reservation, nextToken, probe, native, returned, token>>

\* A second, possibly late, call of releaseGitLock with a lock value whose
\* action is over.  Without a registered owner it does nothing.
ReleaseAgain(t, k) ==
  LET p == Home[t] IN
  /\ pc[t] = "idle"
  /\ k \in returned[p]
  /\ owners[p][k] = "available"
  /\ ClaimOwner(p, k)
  /\ token' = [token EXCEPT ![t] = k]
  /\ pc' = [pc EXCEPT ![t] = "closing"]
  /\ UNCHANGED <<waitVars, reservation, nextToken, probe, native, returned>>

CloseOwner(t) ==
  /\ pc[t] = "closing"
  /\ native' = None
  /\ pc' = [pc EXCEPT ![t] = "closed"]
  /\ UNCHANGED <<waitVars, registryVars, returned, token>>

\* restoreOwner: the handle was not closed, so the owner can be claimed again.
CloseOwnerSticks(t) ==
  /\ CloseMayStick
  /\ pc[t] = "closing"
  /\ owners' = [owners EXCEPT ![Home[t]][token[t]] = "available"]
  /\ pc' = [pc EXCEPT ![t] = "retire"]
  /\ UNCHANGED <<waitVars, reservation, nextToken, probe, native, returned, token>>

CompleteOwnerRelease(t) ==
  LET p == Home[t]  k == token[t] IN
  /\ pc[t] = "closed"
  /\ owners' = [owners EXCEPT ![p][k] = "absent"]
  /\ reservation' = ReservationWithout(p, k)
  /\ pc' = [pc EXCEPT ![t] = "retire"]
  /\ UNCHANGED <<waitVars, nextToken, probe, native, returned, token>>

\* The queue without t's ticket, which is unique in it.
Without(s, t) ==
  IF \E i \in 1..Len(s) : s[i] = t
    THEN LET i == CHOOSE i \in 1..Len(s) : s[i] = t
         IN [j \in 1..Len(s) - 1 |-> IF j < i THEN s[j] ELSE s[j + 1]]
    ELSE s

\* retireAdmission, on every way out of withGitLockWaitWith.
Retire(t) ==
  /\ pc[t] = "retire"
  /\ queue' = [queue EXCEPT ![Home[t]] = Without(@, t)]
  /\ pc' = [pc EXCEPT ![t] = "idle"]
  /\ expired' = [expired EXCEPT ![t] = FALSE]
  /\ behind' = [behind EXCEPT ![t] = {}]
  /\ UNCHANGED <<registryVars, native, returned, token>>

(***************************************************************************)
(* Status probes (gitLockStatus).                                          *)
(***************************************************************************)
StartProbe(t) ==
  /\ pc[t] = "idle"
  /\ Reserve(t)
  /\ pc' = [pc EXCEPT ![t] = "probe"]
  /\ UNCHANGED <<waitVars, owners, probe, native, returned>>

OpenProbe(t) ==
  /\ pc[t] = "probe"
  /\ native = None
  /\ native' = Handle(t)
  /\ pc' = [pc EXCEPT ![t] = "probing"]
  /\ UNCHANGED <<waitVars, registryVars, returned, token>>

\* The file is missing, held elsewhere, or cannot be opened.
OpenProbeFails(t) ==
  /\ pc[t] = "probe"
  /\ pc' = [pc EXCEPT ![t] = "probed"]
  /\ UNCHANGED <<waitVars, registryVars, native, returned, token>>

\* closeFreshProbe; a close that sticks is recorded for a later retry.
CloseProbe(t) ==
  /\ pc[t] = "probing"
  /\ pc' = [pc EXCEPT ![t] = "probed"]
  /\ \/ native' = None /\ UNCHANGED probe
     \/ /\ CloseMayStick
        /\ probe' = [probe EXCEPT ![Home[t]] = [token |-> token[t], state |-> "blocked"]]
        /\ UNCHANGED native
  /\ UNCHANGED <<waitVars, reservation, nextToken, owners, returned, token>>

\* Mutant: the reservation goes although the probe's close is blocked.
EndProbeReleased(t) ==
  /\ pc[t] = "probed"
  /\ reservation' = ReservationWithout(Home[t], token[t])
  /\ pc' = [pc EXCEPT ![t] = "idle"]
  /\ UNCHANGED <<waitVars, nextToken, owners, probe, native, returned, token>>

\* releaseProbeReservationUnlessBlocked
EndProbe(t) ==
  LET p == Home[t]  k == token[t] IN
  /\ pc[t] = "probed"
  /\ IF probe[p] # None /\ probe[p].token = k
       THEN UNCHANGED reservation
       ELSE reservation' = ReservationWithout(p, k)
  /\ pc' = [pc EXCEPT ![t] = "idle"]
  /\ UNCHANGED <<waitVars, nextToken, owners, probe, native, returned, token>>

\* A later status call finds the path reserved by a blocked probe and claims it.
RetryProbe(t) ==
  LET p == Home[t] IN
  /\ pc[t] = "idle"
  /\ probe[p] # None /\ probe[p].state = "blocked"
  /\ probe' = [probe EXCEPT ![p].state = "closing"]
  /\ token' = [token EXCEPT ![t] = probe[p].token]
  /\ pc' = [pc EXCEPT ![t] = "reprobe"]
  /\ UNCHANGED <<waitVars, reservation, nextToken, owners, native, returned>>

\* completeBlockedProbe or, when the close sticks again, restoreBlockedProbe.
CloseRetriedProbe(t) ==
  LET p == Home[t] IN
  /\ pc[t] = "reprobe"
  /\ pc' = [pc EXCEPT ![t] = "idle"]
  /\ \/ /\ native' = None
        /\ probe' = [probe EXCEPT ![p] = None]
        /\ reservation' = ReservationWithout(p, token[t])
     \/ /\ CloseMayStick
        /\ probe' = [probe EXCEPT ![p].state = "blocked"]
        /\ UNCHANGED <<native, reservation>>
  /\ UNCHANGED <<waitVars, nextToken, owners, returned, token>>

(***************************************************************************)
(* A process dies: the system closes its handles, its memory is gone.      *)
(***************************************************************************)
Crash(p) ==
  LET lost(f, v) == [t \in Thread |-> IF Home[t] = p THEN v ELSE f[t]] IN
  /\ native' = IF native # None /\ native[1] = p THEN None ELSE native
  /\ queue' = [queue EXCEPT ![p] = <<>>]
  /\ reservation' = [reservation EXCEPT ![p] = None]
  /\ nextToken' = [nextToken EXCEPT ![p] = 1]
  /\ owners' = [owners EXCEPT ![p] = [k \in Token |-> "absent"]]
  /\ probe' = [probe EXCEPT ![p] = None]
  /\ returned' = [returned EXCEPT ![p] = {}]
  /\ pc' = lost(pc, "idle")
  /\ token' = lost(token, 0)
  /\ expired' = lost(expired, FALSE)
  /\ behind' = lost(behind, {})

\* What a thread does by itself once it has called into the lock.
Step(t) ==
  \/ Admit(t) \/ TimeOut(t) \/ TryReserve(t) \/ OpenNative(t) \/ OpenFails(t)
  \/ RegisterOwner(t) \/ WriteFails(t) \/ StartAction(t)
  \/ Release(t) \/ CloseOwner(t) \/ CloseOwnerSticks(t)
  \/ CompleteOwnerRelease(t) \/ Retire(t)
  \/ OpenProbe(t) \/ OpenProbeFails(t) \/ CloseProbe(t) \/ EndProbe(t)
  \/ CloseRetriedProbe(t)

\* What callers and their environment decide.
Call(t) ==
  \/ Enqueue(t) \/ Cancel(t) \/ EndAction(t) \/ StartProbe(t) \/ RetryProbe(t)
  \/ \E k \in Token : ReleaseAgain(t, k)

Next ==
  \/ \E t \in Thread : Step(t) \/ Call(t) \/ Expire(t)
  \/ \E p \in Process : Crash(p)

Spec == Init /\ [][Next]_vars

(***************************************************************************)
(* A thread that has called into the lock keeps running and timers fire;   *)
(* nothing is assumed about the protected action or about callers.         *)
(***************************************************************************)
FairSpec == Spec /\ \A t \in Thread : WF_vars(Step(t)) /\ WF_vars(Expire(t))

(***************************************************************************)
(* Properties.                                                             *)
(***************************************************************************)

\* At most one thread over all processes runs a protected action, and only
\* while its own handle holds the flock: no late release, probe, failed close
\* or reservation of another generation takes the lock away under it.
MutualExclusion ==
  \A t \in Thread : pc[t] = "action" =>
    /\ native = Handle(t)
    /\ \A u \in Thread : pc[u] = "action" => u = t

\* The threads that work on a live reservation.
Custodian(t) == pc[t] \in {"reserved", "writing", "owned", "action", "closing",
                           "closed", "probe", "probing", "reprobe"}

\* The local reservation serialises a process: whoever opens, owns or closes a
\* handle is alone in its process and still has the reservation.  Clearing a
\* newer owner's reservation by an old token would break this.
LocalExclusion ==
  \A t \in Thread : Custodian(t) =>
    /\ reservation[Home[t]] = token[t]
    /\ \A u \in Thread : (Custodian(u) /\ Home[u] = Home[t]) => u = t

\* The flock is never held by a handle the process no longer accounts for:
\* as long as the system says it is held, the reservation excludes local
\* acquirers, and a registered owner really is the holder.
HeldMeansReserved ==
  /\ native # None => reservation[native[1]] = native[2]
  /\ \A p \in Process, k \in Token :
       owners[p][k] = "available" => native = <<p, k>>

(***************************************************************************)
(* The inductive invariant behind mutual exclusion: what each stage of a   *)
(* thread knows of the registry and the native lock, and that generation   *)
(* tokens tell old threads from new ones.                                  *)
(***************************************************************************)
\* Stages in which a thread works under a token it reserved itself.
Fresh == {"reserved", "writing", "owned", "action", "probe", "probing"}
Working == Fresh \cup {"release", "closing", "closed", "probed", "reprobe"}
SameToken(t, u) == Home[t] = Home[u] /\ token[t] = token[u]

TokenOK(t) ==
  /\ token[t] < nextToken[Home[t]]
  /\ pc[t] \in Working => token[t] \in Token
TokensOK == \A t \in Thread : TokenOK(t)

RegistryOK(p) ==
  /\ \A k \in returned[p] : k < nextToken[p]
  /\ \A k \in Token : k >= nextToken[p] => owners[p][k] = "absent"
  /\ probe[p] # None =>
       /\ probe[p].token \in Token /\ probe[p].token < nextToken[p]
       /\ owners[p][probe[p].token] = "absent"
       /\ probe[p].state = "blocked" => native = <<p, probe[p].token>>
RegistriesOK == \A p \in Process : RegistryOK(p)

\* Who has the native lock, and who certainly has not.
HandleOK(t) ==
  /\ pc[t] \in {"writing", "owned", "action", "closing", "probing", "reprobe"}
       => native = Handle(t)
  /\ pc[t] \in {"reserved", "closed", "probe"} => native # Handle(t)
  /\ (pc[t] = "probed" /\ native = Handle(t)) =>
       probe[Home[t]] # None /\ probe[Home[t]].token = token[t]
HandlesOK == \A t \in Thread : HandleOK(t)

OwnerOK(t) ==
  LET p == Home[t]  k == token[t] IN
  /\ pc[t] \in {"owned", "action"} => owners[p][k] = "available"
  /\ pc[t] \in {"closing", "closed"} => owners[p][k] = "closing"
  /\ pc[t] \in {"reserved", "writing", "probe", "probing", "probed", "reprobe"}
       => owners[p][k] = "absent"
  /\ pc[t] \in Fresh \cup {"probed"} => k \notin returned[p]
OwnersOK == \A t \in Thread : OwnerOK(t)

GenerationOK(t, u) ==
  (t # u /\ SameToken(t, u)) =>
    /\ pc[t] = "release" => pc[u] \notin Fresh
    /\ pc[t] = "probed" => pc[u] \notin Fresh \cup {"release", "closing", "closed"}
GenerationsOK == \A t, u \in Thread : GenerationOK(t, u)

ProbeOK(t) ==
  LET p == Home[t] IN
  /\ pc[t] = "reprobe" => probe[p] = [token |-> token[t], state |-> "closing"]
  /\ (pc[t] \in Fresh \cup {"release", "closing", "closed"} /\ probe[p] # None)
       => probe[p].token # token[t]
ProbesOK == \A t \in Thread : ProbeOK(t)

IInv ==
  /\ TypeOK /\ LocalExclusion /\ HeldMeansReserved
  /\ TokensOK /\ RegistriesOK /\ HandlesOK /\ OwnersOK /\ GenerationsOK /\ ProbesOK

(***************************************************************************)
(* Why admission is first come, first served, by induction.                *)
(***************************************************************************)
\* Where a thread has no ticket: before and after a call, and in a status probe.
Outside == {"idle", "probe", "probing", "probed", "reprobe"}

\* A queue holds the tickets of calls of its own process, each once.
LineOK(p) ==
  /\ \A i \in 1..Len(queue[p]) : Home[queue[p][i]] = p /\ pc[queue[p][i]] \notin Outside
  /\ \A i, j \in 1..Len(queue[p]) : queue[p][i] = queue[p][j] => i = j

\* A waiting thread is in its queue; who is outside has forgotten whom it saw joining.
TicketOK(t) ==
  /\ pc[t] = "queued" => \E i \in 1..Len(queue[Home[t]]) : queue[Home[t]][i] = t
  /\ pc[t] \in Outside => behind[t] = {}

\* Who joined while t waited is of the same process and, if it waits (again) now,
\* somewhere behind t.
TurnOK(t, u) ==
  u \in behind[t] =>
    /\ Home[u] = Home[t]
    /\ (pc[t] = "queued" /\ pc[u] = "queued") =>
         \A i, j \in 1..Len(queue[Home[t]]) :
           (queue[Home[t]][i] = t /\ queue[Home[t]][j] = u) => i < j

FifoInv ==
  /\ \A p \in Process : LineOK(p)
  /\ \A t \in Thread : TicketOK(t)
  /\ \A t, u \in Thread : TurnOK(t, u)

\* FIFO in a process: a thread that joined while t was waiting is not admitted
\* before t has left the wait.
NoOvertaking ==
  [][\A t, u \in Thread :
       (pc[t] = "queued" /\ u \in behind[t] /\ pc'[t] = "queued")
         => ~(pc[u] = "queued" /\ pc'[u] = "acquire")]_vars

\* Every caller of withGitLock gets an answer, however long the owner keeps
\* the lock and whatever fails: it runs its action or leaves with an error.
WaiterResolves ==
  \A t \in Thread : (pc[t] = "queued") ~> (pc[t] \in {"action", "idle"})

\* Implementation of the abstract lock.
Abstract == INSTANCE ExclusiveLock WITH inside <- {t \in Thread : pc[t] = "action"}
ImplementsExclusiveLock == Abstract!Spec
=============================================================================
