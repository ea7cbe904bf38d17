-------------------------- MODULE LeaseAndTreeProofs ---------------------------
(***************************************************************************)
(* Proofs about the two components of MCCacheLease: the reuse of archives  *)
(* in a lease (CacheLease.tla), and, in the second half, the owner of a    *)
(* test's process tree (Owner.tla).                                        *)
(*                                                                         *)
(* The lease is proved for any number of candidates, with archives         *)
(* republished and removed by others at any moment, and faults and         *)
(* cancellations at every step.                                            *)
(*                                                                         *)
(* The inductive invariant says where the lease is at each step of the     *)
(* scope (StageOK), that a directory exists only if its cleanup is         *)
(* registered or has failed (OwnedOK), that what is open was validated     *)
(* (OpenOK), and that what the scope is going to say knows of every        *)
(* cancellation and of every failed cleanup (TellsOK).                     *)
(***************************************************************************)
EXTENDS CacheLease, Owner, FiniteSetTheorems, TLAPS

\* The steps between the first directory of a candidate and its acceptance.
Preparations == {"copy", "validate", "accept", "discard", "sweep"}

\* The lease at each step of the scope.
StageOK ==
  /\ pc \in {"exact", "discover"} => lifecycle = "Vacant" /\ cleanups = {} /\ source = None
  /\ pc \in Preparations => current \in Candidate /\ current \in cleanups /\ lifecycle # "Open"
  /\ pc = "validate" => private[current] \in Archive
  /\ pc = "close" => lifecycle # "Open"

\* What was validated in the private directory is there still.
Validated(c) ==
  /\ private[c] \in Archive
  /\ private[c].good /\ private[c].meta = described[c]

OpenOK ==
  /\ pc = "accept" => Validated(current)
  /\ lifecycle = "Open" => /\ pc \in {"consume", "retire"}
                           /\ source \in Candidate /\ Validated(source)

\* A directory is there only while its removal is owed, or when that failed.
OwnedOK ==
  /\ \A c \in Candidate : private[c] # None => c \in cleanups \cup stuck
  /\ pc = "ended" => \A c \in Candidate : private[c] # None => c \in stuck

\* Nothing that went wrong is forgotten on the way to the outcome.
TellsOK ==
  /\ pc # "ended" => outcome = "none" /\ (cancelled <=> pending = "cancelled")
  /\ pc = "ended" => (cancelled <=> outcome = "cancelled")
  /\ pc \in {"retire", "close"} => pending # "none"
  /\ pc \notin {"retire", "close", "ended"} =>
       pending = "none" \/ (pc \in {"discard", "sweep"} /\ pending = "cancelled")
  /\ pc \notin {"retire", "close", "ended"} => stuck = {}
  /\ pc \in {"retire", "close"} /\ pending = "value" => stuck = {}
  /\ outcome = "value" => stuck = {}

IInv == TypeOK /\ StageOK /\ OpenOK /\ OwnedOK /\ TellsOK

\* resolveLeaseOutcome: it ends cancelled exactly when the body or the cleanup was, and
\* with a value only when both succeeded.
LEMMA Resolved ==
  ASSUME pending \in Result, NEW swept \in {"clean", "failed", "cancelled"}
  PROVE  /\ Resolve(swept) \in Result
         /\ Resolve(swept) = "cancelled" <=> pending = "cancelled" \/ swept = "cancelled"
         /\ Resolve(swept) = "value" => pending \in {"none", "value"} /\ swept = "clean"
<1>1. CASE pending = "cancelled" \/ swept = "cancelled"
  <2>1. Resolve(swept) = "cancelled"
    BY <1>1 DEF Resolve
  <2> QED
    BY <1>1, <2>1 DEF Result
<1>2. CASE ~(pending = "cancelled" \/ swept = "cancelled") /\ pending \in {"failed", "typed"}
  <2>1. Resolve(swept) = pending
    BY <1>2 DEF Resolve
  <2> QED
    BY <1>2, <2>1 DEF Result
<1>3. CASE ~(pending = "cancelled" \/ swept = "cancelled") /\ pending \notin {"failed", "typed"}
  <2>1. Resolve(swept) = IF swept = "clean" THEN "value" ELSE "failed"
    BY <1>3 DEF Resolve
  <2> QED
    BY <1>3, <2>1 DEF Result
<1> QED
  BY <1>1, <1>2, <1>3

\* Every step keeps the types, and a candidate is only begun on a vacant lease.
LEMMA TypeStep ==
  ASSUME CacheLeaseConstants, TypeOK, StageOK, Next
  PROVE  TypeOK'
<1> USE DEF CacheLeaseConstants, TypeOK, StageOK, Preparations, Candidate, Result, Lifecycle,
            Sweep, Swept, Raise, Continue, Return, ownerState
<1>1. CASE Exact
  BY <1>1 DEF Exact
<1>2. CASE Discover
  <2>1. \A c \in Candidate : public[c] # None => public[c].meta \in {"old", "new"}
    BY DEF Archive
  <2>2. described' \in [Candidate -> {"old", "new", None}]
    BY <1>2, <2>1 DEF Discover
  <2>3. pc' = "prepare" \/ (pc' = "retire" /\ pending' = "cancelled")
    BY <1>2 DEF Discover
  <2>4. pending' \in Result /\ cancelled' \in BOOLEAN /\ outcome' = outcome
    BY <1>2 DEF Discover
  <2> QED
    BY <1>2, <2>2, <2>3, <2>4 DEF Discover
<1>3. CASE Skip
  BY <1>3 DEF Skip
<1>4. CASE Cold
  BY <1>4 DEF Cold
<1>5. CASE Prepare
  <2>1. /\ pc = "prepare" /\ current \in Candidate /\ lifecycle' = "Preparing"
        /\ private' \in {private, [private EXCEPT ![current] = Empty]}
        /\ stuck' \in {stuck, stuck \cup {current}}
        /\ UNCHANGED <<public, described, source, current>>
    BY <1>5 DEF Prepare
  <2>2. CASE cleanups' = cleanups \cup {current} /\ Continue("copy")
    BY <2>1, <2>2
  <2>3. CASE (\E a \in BOOLEAN : Raise(a)) /\ UNCHANGED cleanups
    BY <2>1, <2>3
  <2> QED
    BY <1>5, <2>2, <2>3 DEF Prepare
<1>6. CASE Copy
  BY <1>6 DEF Copy
<1>7. CASE Validate
  BY <1>7 DEF Validate
<1>8. CASE Accept
  BY <1>8 DEF Accept
<1>9. CASE Consume
  BY <1>9 DEF Consume
<1>10. CASE Discard
  BY <1>10 DEF Discard
<1>11. CASE DiscardSweep
  <2>1. PICK left \in SUBSET cleanups : Sweep(left)
    BY <1>11 DEF DiscardSweep
  <2>2. private' \in [Candidate -> Archive \cup {None, Empty}] /\ stuck' \in SUBSET Candidate
    BY <2>1
  <2>3. \/ Raise(TRUE) /\ UNCHANGED current
        \/ Raise(FALSE) /\ UNCHANGED current
        \/ Continue("prepare") /\ current' = current + 1
    BY <1>11 DEF DiscardSweep
  <2>4. lifecycle' = "Vacant" /\ cleanups' = {} /\ source' = None /\ UNCHANGED <<public, described>>
    BY <1>11 DEF DiscardSweep
  <2>5. current' \in 1..Candidates + 1
    BY <1>11, <2>3 DEF DiscardSweep
  <2>6. pending' \in Result /\ outcome' \in Result /\ cancelled' \in BOOLEAN
        /\ pc' \in {"retire", "prepare"}
    BY <2>3
  <2> HIDE DEF Sweep, Raise, Continue
  <2> QED
    BY <2>2, <2>4, <2>5, <2>6
<1>12. CASE Retire
  BY <1>12 DEF Retire
<1>13. CASE Close
  <2>1. PICK left \in SUBSET cleanups, swept \in {"clean", "failed", "cancelled"} :
          /\ Sweep(left) /\ outcome' = Resolve(swept)
          /\ cancelled' = (cancelled \/ swept = "cancelled")
    BY <1>13 DEF Close
  <2>2. outcome' \in Result
    BY <2>1, Resolved
  <2> QED
    BY <1>13, <2>1, <2>2 DEF Close
<1>14. CASE Republish
  BY <1>14 DEF Republish
<1> QED
  BY <1>1, <1>2, <1>3, <1>4, <1>5, <1>6, <1>7, <1>8, <1>9, <1>10, <1>11, <1>12, <1>13,
     <1>14 DEF Next

\* The lease follows the scope.
LEMMA StageStep ==
  ASSUME CacheLeaseConstants, TypeOK, StageOK, Next
  PROVE  StageOK'
<1> USE DEF CacheLeaseConstants, TypeOK, StageOK, Preparations, Candidate, Sweep, Raise,
            Continue, Return, ownerState
<1>1. CASE Exact
  BY <1>1 DEF Exact
<1>2. CASE Discover
  BY <1>2 DEF Discover
<1>3. CASE Skip
  BY <1>3 DEF Skip
<1>4. CASE Cold
  BY <1>4 DEF Cold
<1>5. CASE Prepare
  BY <1>5 DEF Prepare
<1>6. CASE Copy
  BY <1>6 DEF Copy
<1>7. CASE Validate
  BY <1>7 DEF Validate
<1>8. CASE Accept
  BY <1>8 DEF Accept
<1>9. CASE Consume
  BY <1>9 DEF Consume
<1>10. CASE Discard
  BY <1>10 DEF Discard
<1>11. CASE DiscardSweep
  BY <1>11 DEF DiscardSweep
<1>12. CASE Retire
  BY <1>12 DEF Retire
<1>13. CASE Close
  BY <1>13 DEF Close
<1>14. CASE Republish
  BY <1>14 DEF Republish
<1> QED
  BY <1>1, <1>2, <1>3, <1>4, <1>5, <1>6, <1>7, <1>8, <1>9, <1>10, <1>11, <1>12, <1>13,
     <1>14 DEF Next

\* Only an accepted copy is opened, and nobody touches it while the lease is open.
LEMMA OpenStep ==
  ASSUME CacheLeaseConstants, TypeOK, StageOK, OpenOK, Next
  PROVE  OpenOK'
<1> USE DEF TypeOK, StageOK, Preparations, OpenOK, Validated, Sweep, Raise, Continue, Return,
       ownerState
<1>1. CASE Exact
  BY <1>1 DEF Exact
<1>2. CASE Discover
  BY <1>2 DEF Discover
<1>3. CASE Skip
  BY <1>3 DEF Skip
<1>4. CASE Cold
  BY <1>4 DEF Cold
<1>5. CASE Prepare
  BY <1>5 DEF Prepare
<1>6. CASE Copy
  BY <1>6 DEF Copy
<1>7. CASE Validate
  BY <1>7 DEF Validate
<1>8. CASE Accept
  BY <1>8 DEF Accept
<1>9. CASE Consume
  BY <1>9 DEF Consume
<1>10. CASE Discard
  BY <1>10 DEF Discard
<1>11. CASE DiscardSweep
  BY <1>11 DEF DiscardSweep
<1>12. CASE Retire
  BY <1>12 DEF Retire
<1>13. CASE Close
  BY <1>13 DEF Close
<1>14. CASE Republish
  BY <1>14 DEF Republish
<1> QED
  BY <1>1, <1>2, <1>3, <1>4, <1>5, <1>6, <1>7, <1>8, <1>9, <1>10, <1>11, <1>12, <1>13,
     <1>14 DEF Next

\* A directory is registered when it is made, and a sweep removes what it does not report.
LEMMA OwnedStep ==
  ASSUME CacheLeaseConstants, TypeOK, StageOK, OwnedOK, Next
  PROVE  OwnedOK'
<1> USE DEF TypeOK, StageOK, Preparations, OwnedOK, Sweep, Raise, Continue, Return, ownerState
<1>1. CASE Exact
  BY <1>1 DEF Exact
<1>2. CASE Discover
  BY <1>2 DEF Discover
<1>3. CASE Skip
  BY <1>3 DEF Skip
<1>4. CASE Cold
  BY <1>4 DEF Cold
<1>5. CASE Prepare
  BY <1>5 DEF Prepare
<1>6. CASE Copy
  BY <1>6 DEF Copy
<1>7. CASE Validate
  BY <1>7 DEF Validate
<1>8. CASE Accept
  BY <1>8 DEF Accept
<1>9. CASE Consume
  BY <1>9 DEF Consume
<1>10. CASE Discard
  BY <1>10 DEF Discard
<1>11. CASE DiscardSweep
  BY <1>11 DEF DiscardSweep
<1>12. CASE Retire
  BY <1>12 DEF Retire
<1>13. CASE Close
  BY <1>13 DEF Close
<1>14. CASE Republish
  BY <1>14 DEF Republish
<1> QED
  BY <1>1, <1>2, <1>3, <1>4, <1>5, <1>6, <1>7, <1>8, <1>9, <1>10, <1>11, <1>12, <1>13,
     <1>14 DEF Next

\* Cancellations and failed cleanups are carried to the outcome.
LEMMA TellsStep ==
  ASSUME CacheLeaseConstants, TypeOK, TellsOK, Next
  PROVE  TellsOK'
<1> USE DEF TypeOK, TellsOK, Result, Sweep, Swept, Raise, Continue, Return, ownerState
<1>1. CASE Exact
  BY <1>1 DEF Exact
<1>2. CASE Discover
  <2>1. outcome' = outcome /\ stuck' = stuck /\ pc = "discover"
    BY <1>2 DEF Discover
  <2>2. \/ pc' = "prepare" /\ pending' = pending /\ (cancelled' <=> cancelled)
        \/ pc' = "retire" /\ pending' = "cancelled" /\ cancelled'
    BY <1>2 DEF Discover
  <2> QED
    BY <2>1, <2>2
<1>3. CASE Skip
  BY <1>3 DEF Skip
<1>4. CASE Cold
  BY <1>4 DEF Cold
<1>5. CASE Prepare
  BY <1>5 DEF Prepare
<1>6. CASE Copy
  BY <1>6 DEF Copy
<1>7. CASE Validate
  BY <1>7 DEF Validate
<1>8. CASE Accept
  BY <1>8 DEF Accept
<1>9. CASE Consume
  BY <1>9 DEF Consume
<1>10. CASE Discard
  BY <1>10 DEF Discard
<1>11. CASE DiscardSweep
  BY <1>11 DEF DiscardSweep
<1>12. CASE Retire
  BY <1>12 DEF Retire
<1>13. CASE Close
  <2>1. PICK left \in SUBSET cleanups, swept \in {"clean", "failed", "cancelled"} :
          /\ Sweep(left) /\ Swept(left, swept)
          /\ outcome' = Resolve(swept)
          /\ cancelled' = (cancelled \/ swept = "cancelled")
    BY <1>13 DEF Close
  <2>2. pc = "close" /\ pc' = "ended" /\ pending' = pending
    BY <1>13 DEF Close
  <2>3. cancelled' <=> outcome' = "cancelled"
    BY <2>1, <2>2, Resolved
  <2>4. outcome' = "value" => stuck' = {}
    <3>1. outcome' = "value" => pending = "value" /\ left = {}
      BY <2>1, <2>2, Resolved
    <3> QED
      BY <2>1, <2>2, <3>1
  <2> QED
    BY <2>2, <2>3, <2>4
<1>14. CASE Republish
  BY <1>14 DEF Republish
<1> QED
  BY <1>1, <1>2, <1>3, <1>4, <1>5, <1>6, <1>7, <1>8, <1>9, <1>10, <1>11, <1>12, <1>13,
     <1>14 DEF Next

\* At the start the lease owns nothing.
LEMMA InvInit ==
  ASSUME CacheLeaseConstants, Init
  PROVE  IInv
<1>1. TypeOK
  <2>1. /\ described \in [Candidate -> {"old", "new", None}]
        /\ private \in [Candidate -> Archive \cup {None, Empty}]
    BY DEF Init
  <2>2. current \in 1..Candidates + 1
    BY DEF CacheLeaseConstants, Init
  <2> QED
    BY <2>1, <2>2 DEF Init, TypeOK, Lifecycle, Result
<1>2. StageOK /\ OpenOK /\ OwnedOK /\ TellsOK
  BY DEF Init, StageOK, OpenOK, OwnedOK, TellsOK, Preparations
<1> QED
  BY <1>1, <1>2 DEF IInv

\* Every step keeps the invariant.
LEMMA InvNext ==
  ASSUME CacheLeaseConstants, IInv, [Next]_vars
  PROVE  IInv'
<1>1. CASE UNCHANGED vars
  BY <1>1 DEF IInv, TypeOK, StageOK, OpenOK, Validated, OwnedOK, TellsOK, Preparations, vars
<1>2. CASE Next
  BY <1>2, TypeStep, StageStep, OpenStep, OwnedStep, TellsStep DEF IInv
<1> QED
  BY <1>1, <1>2

\* The invariant holds in every reachable state, for any number of candidates.
THEOREM Invariance ==
  ASSUME CacheLeaseConstants
  PROVE  Spec => []IInv
<1>1. Init => IInv
  BY InvInit
<1>2. IInv /\ [Next]_vars => IInv'
  BY InvNext
<1> QED
  BY <1>1, <1>2, PTL DEF Spec

\* The lease is open only on a private copy that is valid and is the archive that was
\* discovered, whatever other processes do to the published one meanwhile.
THEOREM OpenOnValidated ==
  ASSUME CacheLeaseConstants
  PROVE  Spec => []OpenIsValidated
<1>1. IInv => OpenIsValidated
  BY DEF IInv, OpenOK, Validated, OpenIsValidated
<1> QED
  BY <1>1, Invariance, PTL

\* No directory outlives its scope unless its removal failed; a cancellation is what the
\* scope ends with; no value is returned, and nothing selected, over a failed removal.
THEOREM ScopesEndClean ==
  ASSUME CacheLeaseConstants
  PROVE  Spec => []EndsClean
<1>1. IInv => EndsClean
  <2>1. IInv => TypeOK
    BY DEF IInv
  <2>2. IInv => EndsClean!2 /\ EndsClean!3
    BY DEF IInv, OwnedOK, TellsOK
  <2> QED
    BY <2>1, <2>2 DEF EndsClean
<1> QED
  BY <1>1, Invariance, PTL

-----------------------------------------------------------------------------
(***************************************************************************)
(* The owner of a test's process tree (Owner.tla), for any number of       *)
(* commands, and whether the kernel may refuse to kill or not.             *)
(*                                                                         *)
(* The payload is let go by a chain that crosses both processes: PID1 is   *)
(* bound to the owner before it says READY, the owner passes 'G' on only   *)
(* once it has heard it, and PID1 forks only on 'G'.  The invariant        *)
(* follows each link: what the owner has written is what it has heard      *)
(* (ToldOK), what waits in the channel is what PID1 has said and the owner *)
(* has not heard, in order (ChannelOK), and what PID1 has said goes with   *)
(* where it is and with its payload (SaidOK, LaunchOK); PlacesOK relates   *)
(* the places of the two, and the owner's last poll to what it still has   *)
(* to read: nothing, unless the channel was reset, which takes a command   *)
(* that PID1 left unread and is a reason to kill; EndOK is what all of it  *)
(* comes to when the owner ends.                                           *)
(***************************************************************************)

\* Where the processes are, and what passes between them.
OwnerPlace == {"create", "top", "poll", "control", "drain", "init", "killed", "ended"}
InitPlace == {"none", "setup", "activation", "arm", "checkOwner", "sendReady", "go", "fork",
              "execAck", "reap", "dying", "closed", "zombie", "reaped"}
ProcessPlace == {"none", "forked", "running", "exited", "reaped", "dead"}
Event == {"READY", "EXECUTED", "ROOT_EXIT", "LAUNCH_ERROR"}
OwnerLine == {"CREATED", "READY", "EXEC", "ROOT", "ERROR", "FAULT", "TREE"}
OwnerFlag == {"ready_seen", "exec_seen", "root_seen", "error_seen", "cancelled", "activated",
              "channel_open", "control_open", "stop_attempted"}

PlaceTypes == /\ ownerPc \in OwnerPlace /\ initPc \in InitPlace
              /\ payload \in ProcessPlace /\ descendant \in ProcessPlace
ControlTypes == control \in [unread : Seq({"A", "G", "X"}), written : Nat, closed : BOOLEAN]
FlagTypes == owner \in [OwnerFlag -> BOOLEAN]
BooleanTypes == /\ stopping \in BOOLEAN /\ wake \in BOOLEAN /\ reset \in BOOLEAN
                /\ armed \in BOOLEAN /\ errors \in BOOLEAN
ChannelTypes == /\ ready \subseteq {"control", "channel", "init"}
                /\ lines \in Seq(OwnerLine)
                /\ toInit \in Seq({"A", "G"}) /\ toOwner \in Seq(Event)

TreeTypeOK == PlaceTypes /\ ControlTypes /\ FlagTypes /\ BooleanTypes /\ ChannelTypes

Told(line) == line \in ToSet(lines)
Heard(kind) == owner[Flag[kind]]
Waits(kind) == kind \in ToSet(toOwner)
Sent(kind) == Heard(kind) \/ Waits(kind)

\* Without repetitions; and with every b after an a.
Distinct(s) == \A i, j \in DOMAIN s : s[i] = s[j] => i = j
Precedes(a, b, s) == \A j \in DOMAIN s : s[j] = b => \E i \in 1 .. j - 1 : s[i] = a

\* The lines are in order.
LinesOK(s) ==
  /\ Distinct(s)
  /\ \A i \in DOMAIN s : s[i] = "TREE" => i = Len(s)
  /\ Precedes("READY", "EXEC", s)
  /\ Precedes("EXEC", "ROOT", s) \/ Precedes("ERROR", "ROOT", s)

\* What the owner has written is what it has heard.
ToldOK ==
  /\ LinesOK(lines)
  /\ Told("READY") <=> owner.ready_seen
  /\ Told("EXEC") <=> owner.exec_seen
  /\ Told("ROOT") <=> owner.root_seen
  /\ owner.error_seen => Told("ERROR")
  /\ Told("ERROR") => owner.error_seen \/ ownerPc = "ended"
  /\ Told("FAULT") => owner.stop_attempted
  /\ Told("TREE") <=> ownerPc = "ended"
  /\ ownerPc = "create" => lines = <<>>

\* What PID1 has said and the owner has not heard.
ChannelOK ==
  /\ Distinct(toOwner)
  /\ \A kind \in Event : Waits(kind) => ~Heard(kind)
  /\ Heard("READY") \/ Precedes("READY", "EXECUTED", toOwner)
  /\ \/ Heard("EXECUTED") \/ Precedes("EXECUTED", "ROOT_EXIT", toOwner)
     \/ Heard("LAUNCH_ERROR") \/ Precedes("LAUNCH_ERROR", "ROOT_EXIT", toOwner)
  /\ ~owner.channel_open => toOwner = <<>> /\ InitClosed

\* PID1 once it is bound to the owner, once it has said so, once it was let go, and
\* once it is gone.
Bound == {"checkOwner", "sendReady", "go", "fork", "execAck", "reap"}
Announced == {"go", "fork", "execAck", "reap"}
Launched == {"fork", "execAck", "reap"}
Ends == {"dying", "closed", "zombie", "reaped"}

\* What PID1 has said, at each of its steps.
SaidOK ==
  /\ Sent("READY") => initPc \in Announced \cup Ends
  /\ initPc \in Announced => Sent("READY")
  /\ Sent("EXECUTED") \/ Sent("LAUNCH_ERROR") => initPc \in {"reap"} \cup Ends
  /\ initPc = "reap" => Sent("EXECUTED") \/ Sent("LAUNCH_ERROR")
  /\ Sent("EXECUTED") => payload \notin {"none", "forked"} /\ ~errors
  /\ Sent("ROOT_EXIT") => payload = "reaped" /\ (Sent("EXECUTED") \/ Sent("LAUNCH_ERROR"))
  /\ OwnerAlive /\ payload = "reaped" => Sent("ROOT_EXIT")

\* The payload was let go by the owner, under a PID1 that is bound to it.
LaunchOK ==
  /\ initPc \in Bound => armed
  /\ "G" \in ToSet(toInit) => owner.ready_seen
  /\ initPc \in Launched => owner.ready_seen
  /\ payload # "none" => armed /\ owner.ready_seen /\ initPc \in {"execAck", "reap"} \cup Ends
  /\ descendant # "none" => payload \notin {"none", "forked"}
  /\ errors => payload \notin {"none", "forked", "running"}
  /\ initPc = "execAck" => payload \in {"forked", "running", "exited"}
  /\ initPc \in {"zombie", "reaped"} => ~Alive

\* PID1 left a command unread, and the owner has tried to kill.
LeftUnread == toInit # <<>> /\ owner.stop_attempted

\* Places that go together.
PlacesOK ==
  /\ ownerPc = "create" => initPc = "none"
  /\ ownerPc = "ended" => initPc \in {"none", "reaped"}
  /\ ~OwnerAlive => initPc \notin {"sendReady"} \cup Announced
  /\ ownerPc \in {"control", "drain", "init"} /\ "init" \in ready => initPc = "zombie"
  /\ reset => toInit # <<>> /\ InitClosed
  /\ ownerPc = "init" /\ "init" \in ready => toOwner = <<>> \/ LeftUnread

\* What the owner has told when it ends.
EndOK ==
  ownerPc = "ended" =>
    /\ owner.cancelled \/ Told("ROOT") \/ Told("ERROR")
    /\ payload = "reaped" => Told("ROOT") \/ LeftUnread

TreeInv == TreeTypeOK /\ ToldOK /\ ChannelOK /\ SaidOK /\ LaunchOK /\ PlacesOK /\ EndOK

-----------------------------------------------------------------------------
(***************************************************************************)
(* Sequences of lines and of events.                                       *)
(***************************************************************************)

\* Append adds one member, at the end.
LEMMA AppendMembers ==
  ASSUME NEW S, NEW s \in Seq(S), NEW x \in S
  PROVE  /\ Append(s, x) \in Seq(S)
         /\ ToSet(Append(s, x)) = ToSet(s) \cup {x}
<1>1. \A y : y \in ToSet(s) => y \in ToSet(Append(s, x))
  BY DEF ToSet
<1>2. x \in ToSet(Append(s, x))
  <2>1. Len(s) + 1 \in DOMAIN Append(s, x) /\ Append(s, x)[Len(s) + 1] = x
    OBVIOUS
  <2> QED
    BY <2>1 DEF ToSet
<1>3. \A y : y \in ToSet(Append(s, x)) => y \in ToSet(s) \/ y = x
  BY DEF ToSet
<1> QED
  BY <1>1, <1>2, <1>3

\* A new member does not repeat one.
LEMMA AppendDistinct ==
  ASSUME NEW S, NEW s \in Seq(S), NEW x \in S, Distinct(s), x \notin ToSet(s)
  PROVE  Distinct(Append(s, x))
BY DEF ToSet, Distinct

\* Order is kept by a new member that is not late, and trivial for one that is not there.
LEMMA AppendPrecedes ==
  ASSUME NEW S, NEW s \in Seq(S), NEW x \in S, NEW a, NEW b,
         Precedes(a, b, s), x = b => a \in ToSet(s)
  PROVE  Precedes(a, b, Append(s, x))
<1> SUFFICES ASSUME NEW j \in DOMAIN Append(s, x), Append(s, x)[j] = b
             PROVE  \E i \in 1 .. j - 1 : Append(s, x)[i] = a
  BY DEF Precedes
<1>1. CASE j = Len(s) + 1
  BY <1>1 DEF ToSet
<1>2. CASE j # Len(s) + 1
  <2>1. j \in DOMAIN s /\ s[j] = b
    BY <1>2
  <2>2. PICK i \in 1 .. j - 1 : s[i] = a
    BY <2>1 DEF Precedes
  <2> QED
    BY <2>1, <2>2
<1> QED
  BY <1>1, <1>2

\* What is not there is preceded by anything.
LEMMA PrecedesAbsent ==
  ASSUME NEW s, NEW a, NEW b, b \notin ToSet(s)
  PROVE  Precedes(a, b, s)
BY DEF Precedes, ToSet

\* The first member, and the others.
LEMMA TailMembers ==
  ASSUME NEW S, NEW s \in Seq(S), s # <<>>
  PROVE  /\ Head(s) \in S /\ Tail(s) \in Seq(S)
         /\ ToSet(s) = {Head(s)} \cup ToSet(Tail(s))
<1>1. Head(s) \in S /\ Tail(s) \in Seq(S) /\ Len(s) > 0 /\ Len(Tail(s)) = Len(s) - 1
  OBVIOUS
<1>2. \A i \in 1 .. Len(s) : s[i] = Head(s) \/ \E j \in 1 .. Len(Tail(s)) : Tail(s)[j] = s[i]
  <2> SUFFICES ASSUME NEW i \in 1 .. Len(s), i # 1
               PROVE  Tail(s)[i - 1] = s[i] /\ i - 1 \in 1 .. Len(Tail(s))
    BY <1>1
  <2> QED
    BY <1>1
<1>3. \A j \in 1 .. Len(Tail(s)) : Tail(s)[j] = s[j + 1] /\ j + 1 \in 1 .. Len(s)
  BY <1>1
<1>4. ASSUME NEW y \in ToSet(s), y # Head(s)  PROVE  y \in ToSet(Tail(s))
  <2>1. PICK i \in 1 .. Len(s) : s[i] = y
    BY DEF ToSet
  <2>2. PICK j \in 1 .. Len(Tail(s)) : Tail(s)[j] = y
    BY <1>2, <1>4, <2>1
  <2>3. j \in DOMAIN Tail(s)
    BY <1>1
  <2> QED
    BY <2>2, <2>3 DEF ToSet
<1>5. \A y : y \in ToSet(Tail(s)) => y \in ToSet(s)
  BY <1>1, <1>3 DEF ToSet
<1>6. Head(s) \in ToSet(s)
  <2>1. 1 \in DOMAIN s /\ s[1] = Head(s)
    BY <1>1
  <2> QED
    BY <2>1 DEF ToSet
<1> QED
  BY <1>1, <1>4, <1>5, <1>6

\* The first one is not repeated by the others.
LEMMA TailDistinct ==
  ASSUME NEW S, NEW s \in Seq(S), s # <<>>, Distinct(s)
  PROVE  Distinct(Tail(s)) /\ Head(s) \notin ToSet(Tail(s))
<1>1. Len(s) > 0 /\ Tail(s) \in Seq(S) /\ Len(Tail(s)) = Len(s) - 1 /\ Head(s) = s[1]
  OBVIOUS
<1>2. \A j \in 1 .. Len(Tail(s)) : Tail(s)[j] = s[j + 1] /\ j + 1 \in 1 .. Len(s)
  BY <1>1
<1>3. Head(s) \notin ToSet(Tail(s))
  BY <1>1, <1>2 DEF ToSet, Distinct
<1>4. Distinct(Tail(s))
  BY <1>1, <1>2 DEF Distinct
<1> QED
  BY <1>3, <1>4

\* The first one is preceded by nothing, and order is kept when it precedes nothing.
LEMMA TailPrecedes ==
  ASSUME NEW S, NEW s \in Seq(S), s # <<>>, NEW a, NEW b, Precedes(a, b, s)
  PROVE  /\ Head(s) # b
         /\ Head(s) # a => Precedes(a, b, Tail(s))
<1>1. Len(s) > 0 /\ Tail(s) \in Seq(S) /\ Len(Tail(s)) = Len(s) - 1 /\ Head(s) = s[1]
  OBVIOUS
<1>2. \A j \in 1 .. Len(Tail(s)) : Tail(s)[j] = s[j + 1] /\ j + 1 \in 1 .. Len(s)
  BY <1>1
<1>3. Head(s) # b
  BY <1>1 DEF Precedes
<1>4. ASSUME Head(s) # a, NEW j \in DOMAIN Tail(s), Tail(s)[j] = b
      PROVE  \E i \in 1 .. j - 1 : Tail(s)[i] = a
  <2>1. j \in 1 .. Len(Tail(s)) /\ s[j + 1] = b /\ j + 1 \in DOMAIN s
    BY <1>1, <1>2, <1>4
  <2>2. PICK i \in 1 .. j : s[i] = a
    BY <2>1 DEF Precedes
  <2>3. i # 1
    BY <1>1, <1>4, <2>2
  <2>4. i - 1 \in 1 .. j - 1 /\ Tail(s)[i - 1] = s[i]
    BY <1>1, <1>2, <2>1, <2>2, <2>3
  <2> QED
    BY <2>2, <2>4
<1> QED
  BY <1>3, <1>4 DEF Precedes

\* A line that is new, that is not after TREE, and whose cause was told.
LEMMA LinesAppend ==
  ASSUME NEW s \in Seq(OwnerLine), NEW x \in OwnerLine, LinesOK(s),
         x \notin ToSet(s), "TREE" \notin ToSet(s),
         x = "EXEC" => "READY" \in ToSet(s),
         x = "ROOT" => "EXEC" \in ToSet(s) \/ "ERROR" \in ToSet(s)
  PROVE  /\ Append(s, x) \in Seq(OwnerLine) /\ LinesOK(Append(s, x))
         /\ ToSet(Append(s, x)) = ToSet(s) \cup {x}
<1>1. Distinct(Append(s, x))
  BY AppendDistinct DEF LinesOK
<1>2. \A i \in DOMAIN Append(s, x) : Append(s, x)[i] = "TREE" => i = Len(Append(s, x))
  BY DEF ToSet
<1>3. Precedes("READY", "EXEC", Append(s, x))
  BY AppendPrecedes DEF LinesOK
<1>4. Precedes("EXEC", "ROOT", Append(s, x)) \/ Precedes("ERROR", "ROOT", Append(s, x))
  <2>1. CASE x # "ROOT"
    BY <2>1, AppendPrecedes DEF LinesOK
  <2>2. CASE x = "ROOT"
    <3>1. Precedes("EXEC", "ROOT", s) /\ Precedes("ERROR", "ROOT", s)
      BY <2>2, PrecedesAbsent
    <3> QED
      BY <2>2, <3>1, AppendPrecedes
  <2> QED
    BY <2>1, <2>2
<1> QED
  BY <1>1, <1>2, <1>3, <1>4, AppendMembers DEF LinesOK

-----------------------------------------------------------------------------
(***************************************************************************)
(* The types.                                                              *)
(***************************************************************************)

\* What Append and Tail make of the sequences.
LEMMA SequenceTypes ==
  ASSUME TreeTypeOK
  PROVE  /\ \A kind \in Event : Append(toOwner, kind) \in Seq(Event)
         /\ \A line \in OwnerLine : Append(lines, line) \in Seq(OwnerLine)
         /\ lines \o <<"TREE">> = Append(lines, "TREE")
         /\ lines \o <<"ERROR", "TREE">> = Append(Append(lines, "ERROR"), "TREE")
         /\ Append(Append(lines, "ERROR"), "TREE") \in Seq(OwnerLine)
         /\ \A command \in {"A", "G"} : Append(toInit, command) \in Seq({"A", "G"})
         /\ toOwner # <<>> => Head(toOwner) \in Event /\ Tail(toOwner) \in Seq(Event)
         /\ toInit # <<>> => Head(toInit) \in {"A", "G"} /\ Tail(toInit) \in Seq({"A", "G"})
<1>1. \A kind \in Event : Append(toOwner, kind) \in Seq(Event)
  BY DEF TreeTypeOK, ChannelTypes
<1>2. \A line \in OwnerLine : Append(lines, line) \in Seq(OwnerLine)
  BY DEF TreeTypeOK, ChannelTypes
<1>3. /\ lines \o <<"TREE">> = Append(lines, "TREE")
      /\ lines \o <<"ERROR", "TREE">> = Append(Append(lines, "ERROR"), "TREE")
      /\ Append(Append(lines, "ERROR"), "TREE") \in Seq(OwnerLine)
  BY DEF TreeTypeOK, ChannelTypes, OwnerLine
<1>4. \A command \in {"A", "G"} : Append(toInit, command) \in Seq({"A", "G"})
  BY DEF TreeTypeOK, ChannelTypes
<1>5. toOwner # <<>> => Head(toOwner) \in Event /\ Tail(toOwner) \in Seq(Event)
  BY DEF TreeTypeOK, ChannelTypes
<1>6. toInit # <<>> => Head(toInit) \in {"A", "G"} /\ Tail(toInit) \in Seq({"A", "G"})
  BY DEF TreeTypeOK, ChannelTypes
<1> QED
  BY <1>1, <1>2, <1>3, <1>4, <1>5, <1>6


\* The places.
LEMMA PlaceTypesStep ==
  ASSUME TreeTypeOK, TreeNext
  PROVE  PlaceTypes'
<1> USE DEF TreeTypeOK, PlaceTypes, OwnerPlace, InitPlace, ProcessPlace
<1>1. CASE Setup
  BY <1>1 DEF Setup, OwnerSide, SendEvent, FailInit, Exit
<1>2. CASE Activation
  BY <1>2 DEF Activation, Receive, OwnerSide, Exit
<1>3. CASE Go
  BY <1>3 DEF Go, Receive, OwnerSide, Exit
<1>4. CASE Arm
  BY <1>4 DEF Arm, OwnerSide, SendEvent, FailInit, Exit
<1>5. CASE CheckOwner
  BY <1>5 DEF CheckOwner, OwnerSide, Exit
<1>6. CASE SendReady
  BY <1>6 DEF SendReady, OwnerSide, SendEvent, Exit
<1>7. CASE Fork
  BY <1>7 DEF Fork, OwnerSide, SendEvent, FailInit, Exit
<1>8. CASE Execute
  BY <1>8 DEF Execute, OwnerSide
<1>9. CASE ExecAck
  BY <1>9 DEF ExecAck, OwnerSide, SendEvent, Exit
<1>10. CASE Reap
  BY <1>10 DEF Reap, OwnerSide, SendEvent, Exit
<1>11. CASE Spawn
  BY <1>11 DEF Spawn, OwnerSide
<1>12. CASE PayloadExits
  BY <1>12 DEF PayloadExits, OwnerSide
<1>13. CASE DescendantExits
  BY <1>13 DEF DescendantExits, OwnerSide
<1>14. CASE FilesClose
  BY <1>14 DEF FilesClose, OwnerSide
<1>15. CASE NamespaceDies
  BY <1>15 DEF NamespaceDies, OwnerSide
<1>16. CASE OwnerDies
  BY <1>16 DEF OwnerDies, InitRuns
<1>17. CASE Create
  BY <1>17 DEF Create, Put
<1>18. CASE Top
  BY <1>18 DEF Top, Kill, Put, InitRuns
<1>19. CASE Poll
  BY <1>19 DEF Poll, initVars, Readable, Nobody, InitClosed
<1>20. CASE ReadControl
  BY <1>20 DEF ReadControl, Kill, Put, InitRuns
<1>21. CASE DrainEvent
  BY <1>21 DEF DrainEvent, Kill, Put, InitRuns, Line, Seen, Flag, Expected
<1>22. CASE DrainEnds
  BY <1>22 DEF DrainEnds, initVars
<1>23. CASE ReapInit
  BY <1>23 DEF ReapInit
<1>24. CASE PollFails
  BY <1>24 DEF PollFails, Kill, Put, InitRuns
<1>25. CASE RecvFails
  BY <1>25 DEF RecvFails, Kill, Put, InitRuns
<1>26. CASE UNCHANGED <<ownerPc, initPc, payload, descendant>>
  BY <1>26
<1> QED
  BY <1>1, <1>2, <1>3, <1>4, <1>5, <1>6, <1>7, <1>8, <1>9, <1>10, <1>11, <1>12, <1>13, <1>14,
     <1>15, <1>16, <1>17, <1>18, <1>19, <1>20, <1>21, <1>22, <1>23, <1>24, <1>25, <1>26
     DEF TreeNext, OwnerStep, InitStep, Outside, OwnerSide, initVars, WriteCommand,
     CloseControl, Signal

\* The control pipe.
LEMMA ControlTypesStep ==
  ASSUME TreeTypeOK, TreeNext
  PROVE  ControlTypes'
<1> USE DEF TreeTypeOK, ControlTypes
<1>1. CASE WriteCommand
  <2>1. PICK command \in {"A", "G", "X"} :
          control' = [control EXCEPT !.unread = Append(@, command), !.written = @ + 1]
    BY <1>1 DEF WriteCommand
  <2>2. Append(control.unread, command) \in Seq({"A", "G", "X"}) /\ control.written + 1 \in Nat
    OBVIOUS
  <2> QED
    BY <2>1, <2>2
<1>2. CASE CloseControl
  BY <1>2 DEF CloseControl, initVars
<1>3. CASE ReadControl
  <2>1. \/ control' = control
        \/ control.unread # <<>> /\ control' = [control EXCEPT !.unread = Tail(@)]
    BY <1>3 DEF ReadControl
  <2>2. control.unread # <<>> => Tail(control.unread) \in Seq({"A", "G", "X"})
    OBVIOUS
  <2> QED
    BY <2>1, <2>2
<1>4. CASE OwnerDies
  <2>1. control' = [control EXCEPT !.unread = <<>>]
    BY <1>4 DEF OwnerDies
  <2>2. <<>> \in Seq({"A", "G", "X"})
    OBVIOUS
  <2> QED
    BY <2>1, <2>2
<1>5. CASE UNCHANGED control
  BY <1>5
<1> QED
  BY <1>1, <1>2, <1>3, <1>4, <1>5
     DEF TreeNext, OwnerStep, InitStep, Outside, OwnerSide, initVars, Setup, Activation, Go,
     Arm, CheckOwner, SendReady, Fork, Execute, ExecAck, Reap, Spawn, PayloadExits,
     DescendantExits, FilesClose, NamespaceDies, Signal, Create, Top, Poll, PollFails,
     DrainEvent, RecvFails, DrainEnds, ReapInit, Receive

\* The owner's variables.
LEMMA FlagTypesStep ==
  ASSUME TreeTypeOK, TreeNext
  PROVE  FlagTypes'
<1> USE DEF TreeTypeOK, FlagTypes, OwnerFlag
<1>1. CASE Top
  BY <1>1 DEF Top, Kill, Put, InitRuns
<1>2. CASE ReadControl
  BY <1>2 DEF ReadControl, Kill, Put, InitRuns
<1>3. CASE DrainEvent
  BY <1>3 DEF DrainEvent, Kill, Put, InitRuns, Line, Seen, Flag, Expected
<1>4. CASE DrainEnds
  BY <1>4 DEF DrainEnds, initVars
<1>5. CASE PollFails
  BY <1>5 DEF PollFails, Kill, Put, InitRuns
<1>6. CASE RecvFails
  BY <1>6 DEF RecvFails, Kill, Put, InitRuns
<1>7. CASE UNCHANGED owner
  BY <1>7
<1> QED
  BY <1>1, <1>2, <1>3, <1>4, <1>5, <1>6, <1>7
     DEF TreeNext, OwnerStep, InitStep, Outside, OwnerSide, initVars, Setup, Activation, Go,
     Arm, CheckOwner, SendReady, Fork, Execute, ExecAck, Reap, Spawn, PayloadExits,
     DescendantExits, FilesClose, NamespaceDies, WriteCommand, CloseControl, Signal,
     OwnerDies, Create, Poll, ReapInit, Receive

\* The signal, the reset, the binding of PID1 and the errors of the payload.
LEMMA BooleanTypesStep ==
  ASSUME TreeTypeOK, TreeNext
  PROVE  BooleanTypes'
<1> USE DEF TreeTypeOK, BooleanTypes
<1>1. CASE Arm
  BY <1>1 DEF Arm, OwnerSide, SendEvent, FailInit, Exit
<1>2. CASE Execute
  BY <1>2 DEF Execute, OwnerSide
<1>3. CASE Poll
  BY <1>3 DEF Poll, initVars, Readable, Nobody, InitClosed
<1>4. CASE Signal
  BY <1>4 DEF Signal, initVars
<1>5. CASE FilesClose
  BY <1>5 DEF FilesClose
<1>6. CASE ReadControl
  BY <1>6 DEF ReadControl
<1>7. CASE RecvFails
  BY <1>7 DEF RecvFails
<1>8. CASE OwnerDies
  BY <1>8 DEF OwnerDies
<1>9. CASE UNCHANGED <<stopping, wake, reset, armed, errors>>
  BY <1>9
<1> QED
  BY <1>1, <1>2, <1>3, <1>4, <1>5, <1>6, <1>7, <1>8, <1>9
     DEF TreeNext, OwnerStep, InitStep, Outside, OwnerSide, initVars, Setup, Activation, Go,
     CheckOwner, SendReady, Fork, ExecAck, Reap, Spawn, PayloadExits, DescendantExits,
     NamespaceDies, WriteCommand, CloseControl, Create, Top, PollFails, DrainEvent, DrainEnds,
     ReapInit, Receive

\* What poll found, the lines, and the two ways of the channel.
LEMMA ChannelTypesStep ==
  ASSUME TreeTypeOK, TreeNext
  PROVE  ChannelTypes'
<1> USE DEF TreeTypeOK, ChannelTypes, Event, OwnerLine
<1>1. CASE Setup
  BY SequenceTypes, <1>1 DEF Setup, OwnerSide, SendEvent, FailInit, Exit
<1>2. CASE Activation
  BY SequenceTypes, <1>2 DEF Activation, Receive, OwnerSide, Exit
<1>3. CASE Go
  BY SequenceTypes, <1>3 DEF Go, Receive, OwnerSide, Exit
<1>4. CASE Arm
  BY SequenceTypes, <1>4 DEF Arm, OwnerSide, SendEvent, FailInit, Exit
<1>5. CASE SendReady
  BY SequenceTypes, <1>5 DEF SendReady, OwnerSide, SendEvent, Exit
<1>6. CASE Fork
  BY SequenceTypes, <1>6 DEF Fork, OwnerSide, SendEvent, FailInit, Exit
<1>7. CASE ExecAck
  BY SequenceTypes, <1>7 DEF ExecAck, OwnerSide, SendEvent, Exit
<1>8. CASE Reap
  BY SequenceTypes, <1>8 DEF Reap, OwnerSide, SendEvent, Exit
<1>9. CASE Create
  BY SequenceTypes, <1>9 DEF Create, Put
<1>10. CASE Top
  BY SequenceTypes, <1>10 DEF Top, Kill, Put, InitRuns
<1>11. CASE Poll
  BY SequenceTypes, <1>11 DEF Poll, initVars, Readable, Nobody, InitClosed
<1>12. CASE ReadControl
  BY SequenceTypes, <1>12 DEF ReadControl, Kill, Put, InitRuns
<1>13. CASE DrainEvent
  <2>1. toOwner' \in Seq(Event) /\ Line[Head(toOwner)] \in OwnerLine
    BY SequenceTypes, <1>13 DEF DrainEvent, Line
  <2>2. lines' \in {lines, Append(lines, Line[Head(toOwner)]), Append(lines, "FAULT")}
    BY <1>13 DEF DrainEvent, Kill, Put
  <2>3. UNCHANGED <<ready, toInit>>
    BY <1>13 DEF DrainEvent
  <2> QED
    BY SequenceTypes, <2>1, <2>2, <2>3
<1>14. CASE ReapInit
  BY SequenceTypes, <1>14 DEF ReapInit, Nobody
<1>15. CASE PollFails
  BY SequenceTypes, <1>15 DEF PollFails, Kill, Put, InitRuns
<1>16. CASE RecvFails
  BY SequenceTypes, <1>16 DEF RecvFails, Kill, Put, InitRuns
<1>17. CASE OwnerDies
  BY <1>17 DEF OwnerDies, Nobody
<1>18. CASE UNCHANGED <<ready, lines, toInit, toOwner>>
  BY <1>18
<1> QED
  BY <1>1, <1>2, <1>3, <1>4, <1>5, <1>6, <1>7, <1>8, <1>9, <1>10, <1>11, <1>12, <1>13, <1>14,
     <1>15, <1>16, <1>17, <1>18
     DEF TreeNext, OwnerStep, InitStep, Outside, OwnerSide, initVars, CheckOwner, Execute,
     Spawn, PayloadExits, DescendantExits, FilesClose, NamespaceDies, WriteCommand,
     CloseControl, Signal, DrainEnds

\* Every step keeps the types.
LEMMA TreeTypesStep ==
  ASSUME TreeTypeOK, TreeNext
  PROVE  TreeTypeOK'
BY PlaceTypesStep, ControlTypesStep, FlagTypesStep, BooleanTypesStep,
   ChannelTypesStep DEF TreeTypeOK

-----------------------------------------------------------------------------
(***************************************************************************)
(* What the steps of the two come to.                                      *)
(***************************************************************************)

\* A kill is tried once: it takes, or is told to have failed.
LEMMA KillOutcome ==
  ASSUME NEW o \in [OwnerFlag -> BOOLEAN], Kill(o)
  PROVE  /\ \A flag \in OwnerFlag \ {"stop_attempted", "cancelled"} : owner'[flag] = o[flag]
         /\ owner'.stop_attempted
         /\ initPc' = initPc \/ (InitRuns /\ initPc' = "dying")
         /\ \/ lines' = lines
            \/ lines' = Append(lines, "FAULT") /\ ~o.stop_attempted /\ owner'.stop_attempted
BY DEF Kill, Put, OwnerFlag

\* The steps of the owner that may kill, but for an event out of order.
MayKill == Top \/ PollFails \/ ReadControl \/ RecvFails

\* They change what the owner has heard in nothing; only 'G' after READY is passed on;
\* and the loop of the events ends with a kill if it was the reset that ended it.
LEMMA KillingStep ==
  ASSUME TreeInv, MayKill
  PROVE  /\ \A flag \in {"ready_seen", "exec_seen", "root_seen", "error_seen", "channel_open"} :
              owner'[flag] = owner[flag]
         /\ owner.stop_attempted => owner'.stop_attempted
         /\ initPc' = initPc \/ (InitRuns /\ initPc' = "dying")
         /\ \/ lines' = lines
            \/ lines' = Append(lines, "FAULT") /\ ~owner.stop_attempted /\ owner'.stop_attempted
         /\ \/ toInit' = toInit
            \/ toInit' = Append(toInit, "A")
            \/ toInit' = Append(toInit, "G") /\ owner.ready_seen
         /\ ownerPc \in {"top", "poll", "control", "drain"}
         /\ ownerPc' \in {"top", "poll", "drain", "init"}
         /\ ownerPc' = "drain" => ownerPc = "control"
         /\ ownerPc' = "init" => reset /\ ownerPc = "drain" /\ owner'.stop_attempted
         /\ reset' => reset
         /\ UNCHANGED <<toOwner, armed, payload, descendant, errors, ready>>
<1> USE DEF TreeInv, TreeTypeOK, FlagTypes
<1>1. CASE Top
  <2>1. CASE stopping
    BY <1>1, <2>1, KillOutcome DEF Top, OwnerFlag
  <2>2. CASE ~stopping
    BY <1>1, <2>2 DEF Top
  <2> QED
    BY <2>1, <2>2
<1>2. CASE PollFails
  BY <1>2, KillOutcome DEF PollFails, OwnerFlag
<1>3. CASE RecvFails
  BY <1>3, KillOutcome DEF RecvFails, OwnerFlag
<1>4. CASE ReadControl
  <2> DEFINE open == [owner EXCEPT !.control_open =
                       ~(control.unread = <<>>) /\ Head(control.unread) \in {"A", "G"}]
             sends == \E command \in {"A", "G"} :
                        /\ command = "G" => owner.ready_seen
                        /\ toInit' = Append(toInit, command)
                        /\ owner' \in {open, [open EXCEPT !.activated = TRUE]}
                        /\ UNCHANGED <<initPc, lines>>
  <2>1. /\ ownerPc = "control" /\ ownerPc' = "drain" /\ (reset' => reset)
        /\ UNCHANGED <<toOwner, armed, payload, descendant, errors, ready>>
    BY <1>4 DEF ReadControl
  <2>2. \/ UNCHANGED <<owner, toInit, initPc, lines>>
        \/ sends
        \/ Kill(open) /\ UNCHANGED toInit
    BY <1>4 DEF ReadControl
  <2>3. open \in [OwnerFlag -> BOOLEAN]
    BY DEF OwnerFlag
  <2>4. CASE UNCHANGED <<owner, toInit, initPc, lines>>
    BY <2>1, <2>4
  <2>5. CASE sends
    BY <2>1, <2>5 DEF OwnerFlag
  <2>6. CASE Kill(open) /\ UNCHANGED toInit
    <3>1. \A flag \in OwnerFlag \ {"control_open"} : open[flag] = owner[flag]
      BY DEF OwnerFlag
    <3> HIDE DEF open
    <3> QED
      BY <2>1, <2>3, <2>6, <3>1, KillOutcome DEF OwnerFlag
  <2> QED
    BY <2>2, <2>4, <2>5, <2>6
<1> QED
  BY <1>1, <1>2, <1>3, <1>4 DEF MayKill

\* PID1 says something new, after what comes before it.
Speaks(kind) ==
  /\ toOwner' = Append(toOwner, kind) /\ UNCHANGED OwnerSide
  /\ ~Sent(kind) /\ ~InitClosed
  /\ kind = "EXECUTED" => Sent("READY")
  /\ kind = "ROOT_EXIT" => Sent("EXECUTED") \/ Sent("LAUNCH_ERROR")

\* It is then sent, and in order.
LEMMA SpeaksOutcome ==
  ASSUME TreeInv, NEW kind \in Event, Speaks(kind)
  PROVE  ChannelOK' /\ \A k \in Event : Sent(k)' <=> Sent(k) \/ k = kind
<1> USE DEF TreeInv, TreeTypeOK, ChannelTypes
<1>1. ToSet(toOwner') = ToSet(toOwner) \cup {kind}
  BY AppendMembers DEF Speaks
<1>2. Distinct(toOwner')
  BY AppendDistinct DEF Speaks, Sent, Waits, ChannelOK
<1>3. \A k \in Event : (Waits(k)' <=> Waits(k) \/ k = kind) /\ (Heard(k)' <=> Heard(k))
  BY <1>1 DEF Speaks, Waits, Heard, OwnerSide
<1>4. owner.channel_open /\ owner' = owner
  BY DEF Speaks, ChannelOK, OwnerSide
<1>5. Heard("READY") \/ Precedes("READY", "EXECUTED", toOwner')
  BY AppendPrecedes DEF Speaks, ChannelOK, Sent, Waits, Event
<1>6. \/ Heard("EXECUTED") \/ Precedes("EXECUTED", "ROOT_EXIT", toOwner')
      \/ Heard("LAUNCH_ERROR") \/ Precedes("LAUNCH_ERROR", "ROOT_EXIT", toOwner')
  <2>1. CASE kind # "ROOT_EXIT"
    BY <2>1, AppendPrecedes DEF Speaks, ChannelOK
  <2>2. CASE kind = "ROOT_EXIT"
    <3>1. /\ Precedes("EXECUTED", "ROOT_EXIT", toOwner)
          /\ Precedes("LAUNCH_ERROR", "ROOT_EXIT", toOwner)
      BY <2>2, PrecedesAbsent DEF Speaks, Sent, Waits
    <3> QED
      BY <2>2, <3>1, AppendPrecedes DEF Speaks, Sent, Waits
  <2> QED
    BY <2>1, <2>2
<1>7. \A k \in Event : Waits(k)' => ~Heard(k)'
  BY <1>3 DEF Speaks, Sent, ChannelOK
<1>8. (Heard("READY")' <=> Heard("READY")) /\ (Heard("EXECUTED")' <=> Heard("EXECUTED"))
      /\ (Heard("LAUNCH_ERROR")' <=> Heard("LAUNCH_ERROR"))
  BY <1>3 DEF Event
<1>9. ChannelOK'
  BY <1>2, <1>4, <1>5, <1>6, <1>7, <1>8 DEF ChannelOK
<1> QED
  BY <1>3, <1>9 DEF Sent

\* The event at the head is what the owner expects, and it is told.
LEMMA EventOutcome ==
  ASSUME TreeInv, DrainEvent
  PROVE  /\ ChannelOK' /\ LinesOK(lines')
         /\ \E kind \in Event :
              /\ ~owner[Flag[kind]] /\ owner' = [owner EXCEPT ![Flag[kind]] = TRUE]
              /\ ToSet(lines') = ToSet(lines) \cup {Line[kind]}
              /\ kind = "EXECUTED" => owner.ready_seen
         /\ \A k \in Event : Sent(k)' <=> Sent(k)
         /\ ownerPc = "drain"
         /\ UNCHANGED <<ownerPc, ready, toInit, reset, initPc, armed, payload, descendant, errors>>
<1> USE DEF TreeInv, TreeTypeOK, ChannelTypes, FlagTypes
<1> DEFINE kind == Head(toOwner)
<1>1. /\ toOwner # <<>> /\ toOwner' = Tail(toOwner) /\ ownerPc = "drain"
      /\ UNCHANGED <<ownerPc, ready, toInit, reset, armed, payload, descendant, errors>>
  BY DEF DrainEvent
<1>2. kind \in Event /\ Tail(toOwner) \in Seq(Event) /\ ToSet(toOwner) = {kind} \cup ToSet(toOwner')
  BY <1>1, TailMembers
<1>3. Distinct(toOwner') /\ kind \notin ToSet(toOwner')
  BY <1>1, TailDistinct DEF ChannelOK
<1>4. ~Heard(kind)
  BY <1>2 DEF ChannelOK, Waits
<1>5. kind = "EXECUTED" => owner.ready_seen
  BY <1>1, TailPrecedes DEF ChannelOK, Heard, Flag
<1>6. kind = "ROOT_EXIT" => owner.exec_seen \/ owner.error_seen
  BY <1>1, TailPrecedes DEF ChannelOK, Heard, Flag
<1>7. Expected(kind)
  BY <1>4, <1>5 DEF Expected, Heard
<1>8. owner' = Seen(kind) /\ lines' = Append(lines, Line[kind]) /\ initPc' = initPc
  BY <1>7 DEF DrainEvent, Put
<1> HIDE DEF kind
<1>9. \A k \in Event : Heard(k)' <=> Heard(k) \/ k = kind
  BY <1>2, <1>8 DEF Heard, Seen, Flag, OwnerFlag, Event
<1>10. \A k \in Event : Waits(k) <=> Waits(k)' \/ k = kind
  BY <1>2 DEF Waits
<1>11. ChannelOK'
  <2>1. \A k \in Event : Waits(k)' => ~Heard(k)'
    BY <1>3, <1>9, <1>10 DEF ChannelOK, Waits
  <2>2. (Heard("READY") \/ Precedes("READY", "EXECUTED", toOwner))'
    BY <1>1, <1>9, TailPrecedes DEF ChannelOK, Event, kind
  <2>3. (\/ Heard("EXECUTED") \/ Precedes("EXECUTED", "ROOT_EXIT", toOwner)
         \/ Heard("LAUNCH_ERROR") \/ Precedes("LAUNCH_ERROR", "ROOT_EXIT", toOwner))'
    BY <1>1, <1>9, TailPrecedes DEF ChannelOK, Event, kind
  <2>4. owner.channel_open /\ owner'.channel_open
    BY <1>1, <1>2, <1>8 DEF ChannelOK, Seen, Flag, OwnerFlag, Event
  <2> QED
    BY <1>3, <2>1, <2>2, <2>3, <2>4 DEF ChannelOK
<1>12. LinesOK(lines') /\ ToSet(lines') = ToSet(lines) \cup {Line[kind]}
  <2>1. /\ Line[kind] \in OwnerLine /\ Line[kind] \notin ToSet(lines)
        /\ Line[kind] = "EXEC" => owner.ready_seen
        /\ Line[kind] = "ROOT" => owner.exec_seen \/ owner.error_seen
    BY <1>1, <1>2, <1>4, <1>5, <1>6 DEF Line, OwnerLine, Event, Heard, Flag, ToldOK, Told
  <2> QED
    BY <1>1, <1>8, <2>1, LinesAppend DEF ToldOK, Told
<1>13. \A k \in Event : Sent(k)' <=> Sent(k)
  BY <1>9, <1>10 DEF Sent
<1> QED
  BY <1>1, <1>2, <1>4, <1>5, <1>8, <1>11, <1>12, <1>13 DEF Seen, Heard

-----------------------------------------------------------------------------
(***************************************************************************)
(* Every step keeps the invariant.                                         *)
(***************************************************************************)

\* The lines of an owner that heard nothing of an end.
LEMMA TwoLines ==
  ASSUME NEW s \in Seq(OwnerLine)
  PROVE  "ERROR" \in ToSet(Append(Append(s, "ERROR"), "TREE"))
<1>1. "ERROR" \in OwnerLine /\ "TREE" \in OwnerLine
  BY DEF OwnerLine
<1>2. Append(s, "ERROR") \in Seq(OwnerLine) /\ "ERROR" \in ToSet(Append(s, "ERROR"))
  BY <1>1, AppendMembers
<1> HIDE DEF OwnerLine
<1> DEFINE one == Append(s, "ERROR")
<1>3. one \in Seq(OwnerLine) /\ "ERROR" \in ToSet(one)
  BY <1>2
<1> HIDE DEF one
<1>4. ToSet(Append(one, "TREE")) = ToSet(one) \cup {"TREE"}
  BY <1>1, <1>3, AppendMembers
<1> QED
  BY <1>3, <1>4 DEF one

\* A kill that failed is told once.
LEMMA KillingTold ==
  ASSUME TreeInv, MayKill
  PROVE  ToldOK'
<1> USE DEF TreeInv, TreeTypeOK, ChannelTypes, ToldOK, Told
<1>1. /\ \A flag \in {"ready_seen", "exec_seen", "root_seen", "error_seen"} :
           owner'[flag] = owner[flag]
      /\ ownerPc \notin {"create", "ended"} /\ ownerPc' \notin {"create", "ended"}
  BY KillingStep
<1>2. CASE lines' = lines
  BY <1>1, <1>2, KillingStep
<1>3. CASE lines' = Append(lines, "FAULT") /\ ~owner.stop_attempted /\ owner'.stop_attempted
  <2>1. LinesOK(lines') /\ ToSet(lines') = ToSet(lines) \cup {"FAULT"}
    BY <1>1, <1>3, LinesAppend DEF OwnerLine
  <2> QED
    BY <1>1, <1>3, <2>1
<1> QED
  BY <1>2, <1>3, KillingStep

\* What is written is what was heard.
LEMMA ToldStep ==
  ASSUME TreeInv, TreeNext
  PROVE  ToldOK'
<1> USE DEF TreeInv, TreeTypeOK, FlagTypes, ChannelTypes, ToldOK, Told
<1>1. CASE Create
  <2>1. lines = <<>> /\ ToSet(lines) = {} /\ owner' = owner
    BY <1>1 DEF Create, ToSet
  <2>2. Append(lines, "CREATED") \in Seq(OwnerLine) /\ LinesOK(Append(lines, "CREATED"))
        /\ ToSet(Append(lines, "CREATED")) = {"CREATED"}
    BY <2>1, LinesAppend DEF OwnerLine
  <2>3. Append(lines, "ERROR") \in Seq(OwnerLine) /\ LinesOK(Append(lines, "ERROR"))
        /\ ToSet(Append(lines, "ERROR")) = {"ERROR"}
    BY <2>1, LinesAppend DEF OwnerLine
  <2>4. LinesOK(Append(Append(lines, "ERROR"), "TREE"))
        /\ ToSet(Append(Append(lines, "ERROR"), "TREE")) = {"ERROR", "TREE"}
    BY <2>3, LinesAppend DEF OwnerLine
  <2>5. CASE ownerPc' = "top" /\ Put("CREATED")
    BY <1>1, <2>1, <2>2, <2>5 DEF Put
  <2>6. CASE ownerPc' = "ended" /\ lines' = lines \o <<"ERROR", "TREE">>
    <3>1. lines' = Append(Append(lines, "ERROR"), "TREE")
      BY <2>6, SequenceTypes
    <3> QED
      <4>1. LinesOK(lines') /\ ToSet(lines') = {"ERROR", "TREE"} /\ ownerPc' = "ended"
        BY <2>4, <2>6, <3>1
      <4>2. ~owner.ready_seen /\ ~owner.exec_seen /\ ~owner.root_seen
        BY <2>1
      <4> QED
        BY <2>1, <4>1, <4>2
  <2> QED
    BY <1>1, <2>5, <2>6 DEF Create
<1>2. CASE MayKill
  BY <1>2, KillingTold
<1>3. CASE Poll
  BY <1>3 DEF Poll, initVars
<1>4. CASE DrainEvent
  <2>1. PICK kind \in Event :
          /\ ~owner[Flag[kind]] /\ owner' = [owner EXCEPT ![Flag[kind]] = TRUE]
          /\ ToSet(lines') = ToSet(lines) \cup {Line[kind]}
    BY <1>4, EventOutcome
  <2>2. LinesOK(lines') /\ ownerPc = "drain" /\ ownerPc' = "drain"
    BY <1>4, EventOutcome
  <2> QED
    BY <2>1, <2>2 DEF Event, Flag, Line, OwnerFlag
<1>5. CASE DrainEnds
  BY <1>5 DEF DrainEnds, initVars, OwnerFlag
<1>6. CASE ReapInit
  <2>1. owner' = owner /\ ownerPc = "init"
    BY <1>6 DEF ReapInit
  <2>2. CASE UNCHANGED lines /\ ownerPc' = "top"
    BY <2>1, <2>2
  <2>3. CASE lines' = lines \o <<"TREE">> /\ ownerPc' = "ended"
    <3>1. LinesOK(lines') /\ ToSet(lines') = ToSet(lines) \cup {"TREE"}
      BY <2>1, <2>3, LinesAppend, SequenceTypes DEF OwnerLine
    <3> QED
      BY <2>1, <2>3, <3>1
  <2>4. CASE /\ lines' = lines \o <<"ERROR", "TREE">> /\ ownerPc' = "ended"
             /\ ~owner.error_seen
    <3>1. /\ Append(lines, "ERROR") \in Seq(OwnerLine) /\ LinesOK(Append(lines, "ERROR"))
          /\ ToSet(Append(lines, "ERROR")) = ToSet(lines) \cup {"ERROR"}
      BY <2>1, <2>4, LinesAppend DEF OwnerLine
    <3>2. lines' = Append(Append(lines, "ERROR"), "TREE")
      BY <2>4, SequenceTypes
    <3>3. LinesOK(lines') /\ ToSet(lines') = ToSet(lines) \cup {"ERROR", "TREE"}
      BY <2>1, <3>1, <3>2, LinesAppend DEF OwnerLine
    <3> QED
      BY <2>1, <2>4, <3>3
  <2> QED
    BY <1>6, <2>2, <2>3, <2>4 DEF ReapInit
<1>7. CASE OwnerDies
  BY <1>7 DEF OwnerDies, InitRuns, OwnerAlive
<1>8. CASE UNCHANGED <<ownerPc, owner, lines>>
  BY <1>8
<1> QED
  BY <1>1, <1>2, <1>3, <1>4, <1>5, <1>6, <1>7, <1>8
     DEF TreeNext, MayKill, OwnerStep, InitStep, Outside, OwnerSide, initVars, Setup, Activation,
         Arm, CheckOwner, SendReady, Go, Fork, ExecAck, Reap, Execute, FilesClose,
         NamespaceDies, Spawn, PayloadExits, DescendantExits, WriteCommand, CloseControl,
         Signal, Receive

\* PID1 says what it has done, once and in order.
LEMMA InitSaid ==
  ASSUME TreeInv, InitStep
  PROVE  ChannelOK' /\ SaidOK'
<1> USE DEF TreeInv, SaidOK, PlacesOK
<1>1. CASE Setup
  <2>1. CASE UNCHANGED toOwner
    BY <1>1, <2>1 DEF Setup, OwnerSide, SendEvent, FailInit, Exit, ChannelOK, Sent, Waits,
       Heard, InitClosed, OwnerAlive, Announced, Ends
  <2>2. CASE toOwner' = Append(toOwner, "LAUNCH_ERROR") /\ initPc' = "dying" /\ OwnerAlive
    <3>1. Speaks("LAUNCH_ERROR")
      BY <1>1, <2>2 DEF Setup, OwnerSide, Speaks, InitClosed, OwnerAlive, Ends, Announced
    <3> QED
      BY <1>1, <2>2, <3>1, SpeaksOutcome DEF Setup, OwnerSide, Event, OwnerAlive, Announced,
         Ends
  <2> QED
    BY <1>1, <2>1, <2>2 DEF Setup, OwnerSide, SendEvent, FailInit, Exit
<1>2. CASE Activation
  BY <1>2 DEF Activation, Receive, OwnerSide, Exit, ChannelOK, Sent, Waits, Heard, InitClosed,
     OwnerAlive, Announced, Ends
<1>3. CASE Arm
  <2>1. CASE UNCHANGED toOwner
    BY <1>3, <2>1 DEF Arm, OwnerSide, SendEvent, FailInit, Exit, ChannelOK, Sent, Waits,
       Heard, InitClosed, OwnerAlive, Announced, Ends
  <2>2. CASE toOwner' = Append(toOwner, "LAUNCH_ERROR") /\ initPc' = "dying" /\ OwnerAlive
    <3>1. Speaks("LAUNCH_ERROR")
      BY <1>3, <2>2 DEF Arm, OwnerSide, Speaks, InitClosed, OwnerAlive, Ends, Announced
    <3> QED
      BY <1>3, <2>2, <3>1, SpeaksOutcome DEF Arm, OwnerSide, Event, OwnerAlive, Announced, Ends
  <2> QED
    BY <1>3, <2>1, <2>2 DEF Arm, OwnerSide, SendEvent, FailInit, Exit
<1>4. CASE CheckOwner
  BY <1>4 DEF CheckOwner, OwnerSide, Exit, ChannelOK, Sent, Waits, Heard, InitClosed,
     OwnerAlive, Announced, Ends
<1>5. CASE SendReady
  <2>1. CASE UNCHANGED toOwner
    BY <1>5, <2>1 DEF SendReady, OwnerSide, SendEvent, Exit, ChannelOK, Sent, Waits, Heard,
       InitClosed, OwnerAlive, Announced, Ends
  <2>2. CASE toOwner' = Append(toOwner, "READY") /\ initPc' = "go" /\ OwnerAlive
    <3>1. Speaks("READY")
      BY <1>5, <2>2 DEF SendReady, OwnerSide, Speaks, InitClosed, OwnerAlive, Ends, Announced
    <3> QED
      BY <1>5, <2>2, <3>1, SpeaksOutcome DEF SendReady, OwnerSide, Event, OwnerAlive,
         Announced, Ends
  <2> QED
    BY <1>5, <2>1, <2>2 DEF SendReady, OwnerSide, SendEvent, Exit
<1>6. CASE Go
  BY <1>6 DEF Go, Receive, OwnerSide, Exit, ChannelOK, Sent, Waits, Heard, InitClosed,
     OwnerAlive, Announced, Ends
<1>7. CASE Fork
  <2>1. CASE UNCHANGED toOwner
    BY <1>7, <2>1 DEF Fork, OwnerSide, SendEvent, FailInit, Exit, ChannelOK, Sent, Waits,
       Heard, InitClosed, OwnerAlive, Announced, Ends
  <2>2. CASE /\ toOwner' = Append(toOwner, "LAUNCH_ERROR") /\ initPc' = "dying"
             /\ OwnerAlive /\ UNCHANGED payload
    <3>1. Speaks("LAUNCH_ERROR")
      BY <1>7, <2>2 DEF Fork, OwnerSide, Speaks, InitClosed, OwnerAlive, Ends, Announced
    <3> QED
      BY <1>7, <2>2, <3>1, SpeaksOutcome DEF Fork, OwnerSide, Event, OwnerAlive, Announced, Ends
  <2> QED
    BY <1>7, <2>1, <2>2 DEF Fork, OwnerSide, SendEvent, FailInit, Exit
<1>8. CASE ExecAck
  <2>1. CASE UNCHANGED toOwner
    BY <1>8, <2>1 DEF ExecAck, OwnerSide, SendEvent, Exit, ChannelOK, Sent, Waits, Heard,
       InitClosed, OwnerAlive, Announced, Ends
  <2>2. CASE toOwner' = Append(toOwner, "LAUNCH_ERROR") /\ initPc' = "reap" /\ OwnerAlive
    <3>1. Speaks("LAUNCH_ERROR")
      BY <1>8, <2>2 DEF ExecAck, OwnerSide, Speaks, InitClosed, OwnerAlive, Ends, Announced
    <3> QED
      BY <1>8, <2>2, <3>1, SpeaksOutcome DEF ExecAck, OwnerSide, Event, OwnerAlive, Announced,
         Ends, LaunchOK
  <2>3. CASE toOwner' = Append(toOwner, "EXECUTED") /\ initPc' = "reap" /\ OwnerAlive /\ ~errors
    <3>1. Speaks("EXECUTED")
      BY <1>8, <2>3 DEF ExecAck, OwnerSide, Speaks, InitClosed, OwnerAlive, Ends, Announced
    <3> QED
      BY <1>8, <2>3, <3>1, SpeaksOutcome DEF ExecAck, OwnerSide, Event, OwnerAlive, Announced,
         Ends, LaunchOK
  <2> QED
    BY <1>8, <2>1, <2>2, <2>3 DEF ExecAck, OwnerSide, SendEvent, Exit
<1>9. CASE Reap
  <2>1. CASE UNCHANGED toOwner
    BY <1>9, <2>1 DEF Reap, OwnerSide, SendEvent, Exit, ChannelOK, Sent, Waits, Heard,
       InitClosed, OwnerAlive, Announced, Ends
  <2>2. CASE /\ toOwner' = Append(toOwner, "ROOT_EXIT") /\ initPc' = "reap" /\ OwnerAlive
             /\ payload = "exited" /\ payload' = "reaped"
    <3>1. Speaks("ROOT_EXIT")
      BY <1>9, <2>2 DEF Reap, OwnerSide, Speaks, InitClosed, OwnerAlive, Ends, Announced
    <3> QED
      BY <1>9, <2>2, <3>1, SpeaksOutcome DEF Reap, OwnerSide, Event, OwnerAlive, Announced, Ends
  <2> QED
    BY <1>9, <2>1, <2>2 DEF Reap, OwnerSide, SendEvent, Exit
<1> QED
  BY <1>1, <1>2, <1>3, <1>4, <1>5, <1>6, <1>7, <1>8, <1>9
     DEF InitStep

\* What waits in the channel is new to the owner, and in order.
LEMMA ChannelStep ==
  ASSUME TreeInv, TreeNext
  PROVE  ChannelOK'
<1> USE DEF TreeInv, TreeTypeOK, FlagTypes, ChannelTypes
<1>1. CASE Create
  BY <1>1 DEF Create, Put, ChannelOK, Waits, Heard, InitClosed, PlacesOK
<1>2. CASE MayKill
  <2>1. /\ toOwner' = toOwner /\ \A k \in Event : Heard(k)' <=> Heard(k)
        /\ owner'.channel_open = owner.channel_open /\ (InitClosed => InitClosed')
    BY <1>2, KillingStep DEF Heard, Flag, Event, InitClosed, InitRuns
  <2> QED
    BY <2>1 DEF ChannelOK, Waits, Event
<1>3. CASE DrainEvent
  BY <1>3, EventOutcome
<1>4. CASE DrainEnds
  BY <1>4 DEF DrainEnds, initVars, ChannelOK, Waits, Heard, InitClosed, Flag, OwnerFlag,
     Event, Nobody, Drains
<1>5. CASE ReapInit
  BY <1>5 DEF ReapInit, ChannelOK, Waits, Heard, InitClosed, PlacesOK
<1>6. CASE InitStep
  BY <1>6, InitSaid
<1>7. CASE FilesClose
  BY <1>7 DEF FilesClose, OwnerSide, ChannelOK, Waits, Heard, InitClosed
<1>8. CASE NamespaceDies
  BY <1>8 DEF NamespaceDies, OwnerSide, ChannelOK, Waits, Heard, InitClosed
<1>9. CASE OwnerDies
  BY <1>9 DEF OwnerDies, InitRuns, ChannelOK, Waits, Heard, InitClosed, InitRuns
<1>10. CASE UNCHANGED <<owner, toOwner, initPc>>
  BY <1>10 DEF ChannelOK, Waits, Heard, InitClosed
<1> QED
  BY <1>1, <1>2, <1>3, <1>4, <1>5, <1>6, <1>7, <1>8, <1>9, <1>10
     DEF TreeNext, MayKill, OwnerStep, InitStep, Outside, OwnerSide, initVars, Poll, Setup,
         Activation, Arm, CheckOwner, SendReady, Go, Fork, ExecAck, Reap, Execute, Spawn,
         PayloadExits, DescendantExits, WriteCommand, CloseControl, Signal, Receive

\* What PID1 has said goes with where it is, whatever the owner does.
LEMMA SaidStep ==
  ASSUME TreeInv, TreeNext
  PROVE  SaidOK'
<1> USE DEF TreeInv, TreeTypeOK, FlagTypes, SaidOK
<1>1. CASE Create
  <2>1. /\ initPc = "none" /\ payload = "none" /\ \A k \in Event : ~Sent(k)
    BY <1>1 DEF Create, PlacesOK, LaunchOK, Announced, Ends, Event
  <2>2. \A k \in Event : ~Sent(k)'
    BY <1>1, <2>1 DEF Create, Sent, Waits, Heard
  <2> QED
    BY <1>1, <2>1, <2>2 DEF Create, Event, Announced
<1>2. CASE MayKill
  <2>1. /\ toOwner' = toOwner /\ \A k \in Event : Heard(k)' <=> Heard(k)
        /\ initPc' = initPc \/ (InitRuns /\ initPc' = "dying")
        /\ OwnerAlive /\ OwnerAlive' /\ UNCHANGED <<payload, errors>>
    BY <1>2, KillingStep DEF Heard, Flag, Event, OwnerAlive
  <2> QED
    BY <2>1 DEF Sent, Waits, Event, Announced, Ends, InitRuns
<1>3. CASE Poll
  BY <1>3 DEF Poll, initVars, Sent, Waits, Heard, OwnerAlive, Announced, Ends
<1>4. CASE DrainEvent
  BY <1>4, EventOutcome DEF Event, OwnerAlive
<1>5. CASE DrainEnds
  BY <1>5 DEF DrainEnds, initVars, Sent, Waits, Heard, OwnerAlive, Announced, Ends, Flag,
     OwnerFlag
<1>6. CASE ReapInit
  BY <1>6 DEF ReapInit, Sent, Waits, Heard, OwnerAlive, Announced, Ends, PlacesOK, InitClosed
<1>7. CASE InitStep
  BY <1>7, InitSaid
<1>8. CASE Execute
  BY <1>8 DEF Execute, OwnerSide, Sent, Waits, Heard, OwnerAlive, Announced, Ends, PlacesOK,
     LaunchOK
<1>9. CASE FilesClose
  BY <1>9 DEF FilesClose, OwnerSide, Sent, Waits, Heard, OwnerAlive, Announced, Ends
<1>10. CASE NamespaceDies
  BY <1>10 DEF NamespaceDies, OwnerSide, Sent, Waits, Heard, OwnerAlive, Announced, Ends
<1>11. CASE PayloadExits
  BY <1>11 DEF PayloadExits, OwnerSide, Sent, Waits, Heard, OwnerAlive, Announced, Ends,
     PlacesOK, LaunchOK
<1>12. CASE OwnerDies
  BY <1>12 DEF OwnerDies, InitRuns, Sent, Waits, Heard, OwnerAlive, Announced, Ends
<1>13. CASE UNCHANGED <<ownerPc, owner, toOwner, initPc, payload, errors>>
  BY <1>13 DEF Sent, Waits, Heard, OwnerAlive
<1> QED
  BY <1>1, <1>2, <1>3, <1>4, <1>5, <1>6, <1>7, <1>8, <1>9, <1>10, <1>11, <1>12,
     <1>13
     DEF TreeNext, MayKill, OwnerStep, InitStep, Outside, OwnerSide, initVars, Setup, Activation,
         Arm, CheckOwner, SendReady, Go, Fork, ExecAck, Reap, Spawn, DescendantExits,
         WriteCommand, CloseControl, Signal, Receive

\* PID1 forks a payload only once it is bound, was heard and was let go.
LEMMA LaunchStep ==
  ASSUME TreeInv, TreeNext
  PROVE  LaunchOK'
<1> USE DEF TreeInv, TreeTypeOK, FlagTypes, ChannelTypes, LaunchOK
<1>1. CASE MayKill
  <2>1. /\ owner'.ready_seen = owner.ready_seen
        /\ initPc' = initPc \/ (InitRuns /\ initPc' = "dying")
        /\ UNCHANGED <<armed, payload, descendant, errors>>
    BY <1>1, KillingStep
  <2>2. "G" \in ToSet(toInit') => "G" \in ToSet(toInit) \/ owner.ready_seen
    <3>1. \A command \in {"A", "G"} : ToSet(Append(toInit, command)) = ToSet(toInit) \cup {command}
      BY AppendMembers
    <3> QED
      BY <1>1, <3>1, KillingStep
  <2> QED
    BY <2>1, <2>2 DEF InitRuns, Ends, Alive, Bound, Launched
<1>2. CASE DrainEvent
  <2>1. owner.ready_seen => owner'.ready_seen
    BY <1>2, EventOutcome DEF OwnerFlag, Flag, Event
  <2> QED
    BY <1>2, <2>1, EventOutcome DEF Alive
<1>3. CASE DrainEnds
  BY <1>3 DEF DrainEnds, initVars, Bound, Launched, Ends, Alive, OwnerFlag
<1>4. CASE Create
  BY <1>4 DEF Create, Put, Bound, Launched, Ends, Alive, PlacesOK
<1>5. CASE ReapInit
  BY <1>5 DEF ReapInit, Bound, Launched, Ends, Alive, PlacesOK
<1>6. CASE Setup
  BY <1>6 DEF Setup, OwnerSide, SendEvent, FailInit, Exit, Bound, Launched, Ends, Alive
<1>7. CASE Activation
  <2>1. /\ toInit # <<>> => toInit' = Tail(toInit)
        /\ toInit = <<>> => toInit' = toInit /\ initPc' = "dying"
        /\ initPc' \in {"arm", "dying"}
        /\ UNCHANGED <<owner, armed, payload, descendant, errors>>
        /\ initPc' = "arm" => toInit # <<>> /\ Head(toInit) = "A" /\ initPc = "activation"
    BY <1>7 DEF Activation, Receive, Exit, OwnerSide
  <2>2. "G" \in ToSet(toInit') => "G" \in ToSet(toInit)
    <3>1. toInit # <<>> => ToSet(toInit) = {Head(toInit)} \cup ToSet(Tail(toInit))
      BY TailMembers
    <3> QED
      BY <2>1, <3>1
  <2>3. initPc' = "arm" => "A" \in ToSet(toInit)
    BY <2>1, TailMembers
  <2>4. initPc = "activation"
    BY <1>7 DEF Activation, Receive
  <2> QED
    BY <2>1, <2>2, <2>3, <2>4 DEF Ends, Alive, Bound, Launched
<1>8. CASE Arm
  BY <1>8 DEF Arm, OwnerSide, SendEvent, FailInit, Exit, Bound, Launched, Ends, Alive
<1>9. CASE CheckOwner
  BY <1>9 DEF CheckOwner, OwnerSide, Exit, Bound, Launched, Ends, Alive
<1>10. CASE SendReady
  BY <1>10 DEF SendReady, OwnerSide, SendEvent, Exit, Bound, Launched, Ends, Alive
<1>11. CASE Go
  <2>1. /\ toInit # <<>> => toInit' = Tail(toInit)
        /\ toInit = <<>> => toInit' = toInit /\ initPc' = "dying"
        /\ initPc' \in {"fork", "dying"}
        /\ UNCHANGED <<owner, armed, payload, descendant, errors>>
        /\ initPc' = "fork" => toInit # <<>> /\ Head(toInit) = "G" /\ initPc = "go"
    BY <1>11 DEF Go, Receive, Exit, OwnerSide
  <2>2. "G" \in ToSet(toInit') => "G" \in ToSet(toInit)
    <3>1. toInit # <<>> => ToSet(toInit) = {Head(toInit)} \cup ToSet(Tail(toInit))
      BY TailMembers
    <3> QED
      BY <2>1, <3>1
  <2>3. initPc' = "fork" => "G" \in ToSet(toInit)
    BY <2>1, TailMembers
  <2>4. initPc = "go"
    BY <1>11 DEF Go, Receive
  <2> QED
    BY <2>1, <2>2, <2>3, <2>4 DEF Ends, Alive, Bound, Launched
<1>12. CASE Fork
  BY <1>12 DEF Fork, OwnerSide, SendEvent, FailInit, Exit, Bound, Launched, Ends, Alive
<1>13. CASE ExecAck
  BY <1>13 DEF ExecAck, OwnerSide, SendEvent, Exit, Bound, Launched, Ends, Alive
<1>14. CASE Reap
  BY <1>14 DEF Reap, OwnerSide, SendEvent, Exit, Bound, Launched, Ends, Alive, SaidOK
<1>15. CASE Execute
  BY <1>15 DEF Execute, OwnerSide, Bound, Launched, Ends, Alive
<1>16. CASE FilesClose
  BY <1>16 DEF FilesClose, OwnerSide, Bound, Launched, Ends, Alive
<1>17. CASE NamespaceDies
  BY <1>17 DEF NamespaceDies, OwnerSide, Bound, Launched, Ends, Alive
<1>18. CASE Spawn
  BY <1>18 DEF Spawn, OwnerSide, Bound, Launched, Ends, Alive
<1>19. CASE PayloadExits
  BY <1>19 DEF PayloadExits, OwnerSide, Bound, Launched, Ends, Alive
<1>20. CASE DescendantExits
  BY <1>20 DEF DescendantExits, OwnerSide, Bound, Launched, Ends, Alive
<1>21. CASE OwnerDies
  BY <1>21 DEF OwnerDies, InitRuns, Bound, Launched, Ends, Alive
<1>22. CASE UNCHANGED <<owner, toInit, initPc, armed, payload, descendant, errors>>
  BY <1>22 DEF Alive
<1> QED
  BY <1>1, <1>2, <1>3, <1>4, <1>5, <1>6, <1>7, <1>8, <1>9, <1>10, <1>11, <1>12,
     <1>13, <1>14, <1>15, <1>16, <1>17, <1>18, <1>19, <1>20, <1>21, <1>22
     DEF TreeNext, MayKill, OwnerStep, InitStep, Outside, OwnerSide, initVars, Poll, WriteCommand,
         CloseControl, Signal

\* The places of the owner and of PID1, and what the last poll found.
LEMMA PlacesStep ==
  ASSUME TreeInv, TreeNext
  PROVE  PlacesOK'
<1> USE DEF TreeInv, PlacesOK, OwnerAlive, Announced, InitClosed, LeftUnread
<1>1. CASE Create
  BY <1>1 DEF Create, Put
<1>2. CASE MayKill
  <2>1. toInit # <<>> => toInit' # <<>>
    <3>1. Append(toInit, "A") # <<>> /\ Append(toInit, "G") # <<>>
      BY DEF TreeTypeOK, ChannelTypes
    <3> QED
      BY <1>2, <3>1, KillingStep
  <2>2. InitClosed => InitClosed'
    BY <1>2, KillingStep DEF InitRuns
  <2> QED
    BY <1>2, <2>1, <2>2, KillingStep DEF InitRuns
<1>3. CASE Poll
  BY <1>3 DEF Poll, initVars, Readable, Nobody, InitClosed
<1>4. CASE DrainEvent
  BY <1>4, EventOutcome
<1>5. CASE DrainEnds
  BY <1>5 DEF DrainEnds, initVars, Drains, Nobody, InitClosed, ChannelOK, TreeTypeOK,
     ChannelTypes
<1>6. CASE ReapInit
  BY <1>6 DEF ReapInit
<1>7. CASE Setup
  BY <1>7 DEF Setup, OwnerSide, SendEvent, FailInit, Exit
<1>8. CASE Activation
  BY <1>8 DEF Activation, Receive, OwnerSide, Exit
<1>9. CASE Arm
  BY <1>9 DEF Arm, OwnerSide, SendEvent, FailInit, Exit
<1>10. CASE CheckOwner
  BY <1>10 DEF CheckOwner, OwnerSide, Exit
<1>11. CASE SendReady
  BY <1>11 DEF SendReady, OwnerSide, SendEvent, Exit
<1>12. CASE Go
  BY <1>12 DEF Go, Receive, OwnerSide, Exit
<1>13. CASE Fork
  BY <1>13 DEF Fork, OwnerSide, SendEvent, FailInit, Exit
<1>14. CASE ExecAck
  BY <1>14 DEF ExecAck, OwnerSide, SendEvent, Exit
<1>15. CASE Reap
  BY <1>15 DEF Reap, OwnerSide, SendEvent, Exit
<1>16. CASE FilesClose
  BY <1>16 DEF FilesClose, OwnerSide
<1>17. CASE NamespaceDies
  BY <1>17 DEF NamespaceDies, OwnerSide
<1>18. CASE OwnerDies
  BY <1>18 DEF OwnerDies, InitRuns, LaunchOK, Bound, Nobody
<1>19. CASE UNCHANGED <<ownerPc, owner, ready, toInit, toOwner, reset, initPc>>
  BY <1>19
<1> QED
  BY <1>1, <1>2, <1>3, <1>4, <1>5, <1>6, <1>7, <1>8, <1>9, <1>10, <1>11, <1>12,
     <1>13, <1>14, <1>15, <1>16, <1>17, <1>18, <1>19
     DEF TreeNext, MayKill, OwnerStep, InitStep, Outside, OwnerSide, initVars, Execute, Spawn,
         PayloadExits, DescendantExits, WriteCommand, CloseControl, Signal

\* What was told when the owner ends, and nothing after that.
LEMMA EndStep ==
  ASSUME TreeInv, TreeNext
  PROVE  EndOK'
<1> USE DEF TreeInv, EndOK, Told
<1>1. CASE Create
  <2>1. lines = <<>> /\ payload = "none" /\ payload' = "none"
    BY <1>1 DEF Create, ToldOK, PlacesOK, LaunchOK, Ends
  <2>2. lines' = lines \o <<"ERROR", "TREE">> => "ERROR" \in ToSet(lines')
    BY <2>1 DEF ToSet
  <2> QED
    BY <1>1, <2>1, <2>2 DEF Create
<1>2. CASE MayKill
  BY <1>2, KillingStep
<1>3. CASE Poll
  BY <1>3 DEF Poll, initVars
<1>4. CASE DrainEvent
  BY <1>4, EventOutcome
<1>5. CASE DrainEnds
  BY <1>5 DEF DrainEnds, initVars
<1>6. CASE ReapInit
  <2>1. CASE ownerPc' # "ended"
    BY <2>1
  <2>2. CASE ownerPc' = "ended"
    <3>1. /\ "init" \in ready /\ ownerPc = "init" /\ UNCHANGED <<owner, payload>>
          /\ lines' = lines \o (IF owner.root_seen \/ owner.cancelled \/ owner.error_seen
                               THEN <<"TREE">> ELSE <<"ERROR", "TREE">>)
      BY <1>6, <2>2 DEF ReapInit
    <3>2. ToldOK' /\ (toOwner = <<>> \/ LeftUnread) /\ (LeftUnread => LeftUnread')
      BY <1>6, <3>1, ToldStep DEF ReapInit, PlacesOK, LeftUnread
    <3>3. payload = "reaped" => owner.root_seen \/ LeftUnread'
      BY <3>1, <3>2 DEF SaidOK, Sent, Heard, Waits, ToSet, Flag, OwnerAlive
    <3>4. ~(owner.root_seen \/ owner.cancelled \/ owner.error_seen) => "ERROR" \in ToSet(lines')
      <4>1. lines \o <<"ERROR", "TREE">> = Append(Append(lines, "ERROR"), "TREE")
        BY SequenceTypes
      <4>2. "ERROR" \in ToSet(Append(Append(lines, "ERROR"), "TREE"))
        BY TwoLines DEF TreeTypeOK, ChannelTypes
      <4> QED
        BY <3>1, <4>1, <4>2
    <3> QED
      BY <3>1, <3>2, <3>3, <3>4 DEF ToldOK, Told
  <2> QED
    BY <2>1, <2>2
<1>7. CASE OwnerDies
  BY <1>7 DEF OwnerDies, InitRuns, OwnerAlive
<1>8. CASE Reap
  BY <1>8 DEF Reap, OwnerSide, SendEvent, Exit, PlacesOK, LaunchOK
<1>9. CASE Execute
  BY <1>9 DEF Execute, OwnerSide, PlacesOK, LaunchOK
<1>10. CASE PayloadExits
  BY <1>10 DEF PayloadExits, OwnerSide, PlacesOK, LaunchOK
<1>11. CASE NamespaceDies
  BY <1>11 DEF NamespaceDies, OwnerSide, PlacesOK, LaunchOK
<1>12. CASE Activation \/ Go
  BY <1>12 DEF Activation, Go, Receive, OwnerSide, PlacesOK
<1>13. CASE UNCHANGED <<ownerPc, owner, lines, payload, toInit>>
  BY <1>13 DEF LeftUnread
<1> QED
  BY <1>1, <1>2, <1>3, <1>4, <1>5, <1>6, <1>7, <1>8, <1>9, <1>10, <1>11, <1>12, <1>13
     DEF TreeNext, MayKill, OwnerStep, InitStep, Outside, OwnerSide, initVars, Setup, Arm, CheckOwner, SendReady, Fork, ExecAck, FilesClose, Spawn, DescendantExits,
         WriteCommand, CloseControl, Signal, Receive

\* The owner's variables are flags at first.
LEMMA InitialFlags == TreeInit => owner \in [OwnerFlag -> BOOLEAN]
<1> SUFFICES ASSUME TreeInit  PROVE  owner \in [OwnerFlag -> BOOLEAN]
  OBVIOUS
<1>1. /\ DOMAIN owner = OwnerFlag
      /\ owner = [flag \in DOMAIN owner |-> owner[flag]]
  BY DEF TreeInit, OwnerFlag
<1>2. /\ owner.ready_seen \in BOOLEAN /\ owner.exec_seen \in BOOLEAN /\ owner.root_seen \in BOOLEAN
      /\ owner.error_seen \in BOOLEAN /\ owner.cancelled \in BOOLEAN /\ owner.activated \in BOOLEAN
      /\ owner.channel_open \in BOOLEAN /\ owner.control_open \in BOOLEAN
      /\ owner.stop_attempted \in BOOLEAN
  BY DEF TreeInit
<1>3. \A flag \in OwnerFlag : owner[flag] \in BOOLEAN
  BY <1>2 DEF OwnerFlag
<1> QED
  BY <1>1, <1>3

\* The invariant holds at first, and every step keeps it.
THEOREM TreeInvariant == TreeSpec => []TreeInv
<1>1. TreeInit => TreeInv
  <2> SUFFICES ASSUME TreeInit  PROVE  TreeInv
    OBVIOUS
  <2> USE DEF TreeInit
  <2>1. TreeTypeOK
    <3>1. PlaceTypes /\ BooleanTypes
      BY DEF PlaceTypes, BooleanTypes, OwnerPlace, InitPlace, ProcessPlace
    <3>2. ControlTypes
      BY DEF ControlTypes
    <3>3. FlagTypes
      BY InitialFlags DEF FlagTypes
    <3>4. ChannelTypes
      BY DEF ChannelTypes, Nobody
    <3> QED
      BY <3>1, <3>2, <3>3, <3>4 DEF TreeTypeOK
  <2>2. ToSet(<<>>) = {}
    BY DEF ToSet
  <2>3. ToldOK
    BY <2>2 DEF ToldOK, Told, LinesOK, Distinct, Precedes
  <2>4. ChannelOK
    BY <2>2 DEF ChannelOK, Waits, Heard, Flag, Distinct, Precedes
  <2>5. SaidOK
    BY <2>2 DEF SaidOK, Sent, Waits, Heard, Flag, Announced
  <2>6. LaunchOK /\ PlacesOK /\ EndOK
    BY <2>2 DEF LaunchOK, PlacesOK, EndOK, Bound, Announced, Launched, Alive, OwnerAlive, Nobody
  <2> QED
    BY <2>1, <2>3, <2>4, <2>5, <2>6 DEF TreeInv
<1>2. TreeInv /\ [TreeNext]_treeVars => TreeInv'
  <2>1. ASSUME TreeInv, TreeNext  PROVE  TreeInv'
    BY <2>1, TreeTypesStep, ToldStep, ChannelStep, SaidStep, LaunchStep, PlacesStep,
       EndStep DEF TreeInv
  <2>2. ASSUME TreeInv, UNCHANGED treeVars  PROVE  TreeInv'
    BY <2>2 DEF treeVars, TreeInv, TreeTypeOK, PlaceTypes, ControlTypes, FlagTypes,
       BooleanTypes,
                ChannelTypes, ToldOK, Told, ChannelOK, Waits, Heard, InitClosed, SaidOK, Sent,
                OwnerAlive,
                LaunchOK, Alive, PlacesOK, LeftUnread, EndOK
  <2> QED
    BY <2>1, <2>2
<1> QED
  BY <1>1, <1>2, PTL DEF TreeSpec

\* A sequence without repetitions is as long as it has members.
LEMMA DistinctLength ==
  ASSUME NEW S, NEW s \in Seq(S), Distinct(s)
  PROVE  Cardinality(ToSet(s)) = Len(s)
<1> DEFINE f == [i \in 1 .. Len(s) |-> s[i]]
<1>1. f \in Bijection(1 .. Len(s), ToSet(s))
  <2>1. f \in [1 .. Len(s) -> ToSet(s)]
    BY DEF ToSet
  <2>2. \A i, j \in 1 .. Len(s) : f[i] = f[j] => i = j
    BY DEF Distinct
  <2>3. \A y \in ToSet(s) : \E i \in 1 .. Len(s) : f[i] = y
    BY DEF ToSet
  <2> QED
    BY <2>1, <2>2, <2>3 DEF Bijection, Injection, Surjection, IsInjective
<1> QED
  BY <1>1, FS_CountingElements DEF ExistsBijection

\* No payload runs but under a PID1 whose life is bound to the owner's, once the
\* controller could read READY, and what the lines tell of the tree is true: TREE is
\* last and nothing of the tree is left then, each other line comes once and after its
\* cause, and an exit that PID1 reported is told unless PID1 left a command unread, which
\* the owner took for a reason to kill (linux_owner.c).
THEOREM TreeStaysOwned == TreeSpec => []TreeIsOwned
<1>1. TreeInv => TreeIsOwned
  <2> SUFFICES ASSUME TreeInv  PROVE  PayloadIsOwned /\ LinesAreTrue
    BY DEF TreeIsOwned
  <2> USE DEF TreeInv
  <2>1. PayloadIsOwned
    BY DEF PayloadIsOwned, LaunchOK, PlacesOK, ToldOK, Told, Alive, Ends, Announced, InitRuns
  <2>2. Cardinality(ToSet(lines)) = Len(lines)
    BY DistinctLength DEF TreeTypeOK, ChannelTypes, ToldOK, LinesOK
  <2>3. \A i \in DOMAIN lines : lines[i] = "TREE" => i = Len(lines)
    BY DEF ToldOK, LinesOK
  <2>4. "TREE" \in ToSet(lines) => ~Alive /\ initPc \in {"none", "reaped"}
    BY DEF ToldOK, Told, PlacesOK, LaunchOK, Alive, Ends
  <2>5. Before("READY", "EXEC") /\ (Before("EXEC", "ROOT") \/ Before("ERROR", "ROOT"))
    BY DEF ToldOK, LinesOK, Before, Precedes
  <2>6. "EXEC" \in ToSet(lines) => payload \notin {"none", "forked"} /\ ~errors
    BY DEF ToldOK, Told, SaidOK, Sent, Heard, Flag
  <2>7. ownerPc = "ended" =>
          /\ "TREE" \in ToSet(lines)
          /\ owner.cancelled \/ {"ROOT", "ERROR"} \cap ToSet(lines) # {}
          /\ payload = "reaped" =>
               "ROOT" \in ToSet(lines) \/ (toInit # <<>> /\ owner.stop_attempted)
    BY DEF EndOK, ToldOK, Told, LeftUnread
  <2> QED
    BY <2>2, <2>3, <2>4, <2>5, <2>6, <2>7, <2>1 DEF LinesAreTrue
<1> QED
  BY <1>1, TreeInvariant, PTL
=============================================================================
