-------------------------------- MODULE Owner --------------------------------
(***************************************************************************)
(* The owner of a test's process tree, linux_owner.c.  The owner makes a   *)
(* PID namespace and forks its first process, PID1, which never becomes    *)
(* the payload: it waits for 'A', binds its life to the owner's, reports   *)
(* READY, waits for 'G', and then forks the payload and reaps until no     *)
(* child is left.  The owner takes the commands of its controller, passes  *)
(* on the reports of PID1 as lines, and kills the namespace on a signal, a *)
(* closed control pipe, or anything unexpected.  TREE is its last line:    *)
(* the whole tree is gone.                                                 *)
(*                                                                         *)
(* The kernel is external: the death of PID1 kills every process of its    *)
(* namespace before PID1 can be waited for; PR_SET_PDEATHSIG kills PID1    *)
(* when the owner dies; a pidfd is readable once its process has ended; a  *)
(* channel whose other end was closed with messages unread fails once,     *)
(* with ECONNRESET, before it yields what is queued.                       *)
(***************************************************************************)
EXTENDS Naturals, Sequences, SequencesExt

CONSTANTS MaxCommand,     \* bound: the commands the controller writes
          MaxUnread,      \* bound: those of them that wait at a time
          KillMayFail     \* whether the kernel may refuse to kill

VARIABLES
  control,      \* the control pipe: its unread commands, how many were written,
                \* and whether the controller has closed it
  ownerPc,      \* the owner: the part of its loop it is at
  owner,        \* the variables of main
  stopping, wake,
  ready,        \* what poll found
  lines,        \* the lines on its standard output
  toInit,       \* the channel, one sequence of messages each way, and whether the
  toOwner,      \* owner is still to be told that PID1 closed it with a command unread
  reset,
  initPc,       \* PID1: where it is, or how it ended
  armed,        \* whether the owner's death kills it
  payload,      \* the payload, and one process that it leaves behind
  descendant,
  errors        \* what the payload wrote to the exec-error pipe

treeVars == <<control, ownerPc, owner, stopping, wake, ready, lines, toInit, toOwner,
          reset, initPc, armed, payload, descendant, errors>>
initVars == <<initPc, armed, payload, descendant, errors>>

Nobody == {}
OwnerAlive == ownerPc \notin {"killed", "ended"}
InitRuns == initPc \notin {"none", "dying", "closed", "zombie", "reaped"}
Gone == initPc \in {"none", "zombie", "reaped"}

-----------------------------------------------------------------------------
(***************************************************************************)
(* The owner.                                                              *)
(***************************************************************************)
Put(line) == lines' = Append(lines, line)

\* kill_namespace, tried once: ESRCH is no failure, for then the pidfd tells.
Kill(o) ==
  IF o.stop_attempted THEN owner' = o /\ UNCHANGED <<initPc, lines>>
  ELSE \/ /\ owner' = [o EXCEPT !.stop_attempted = TRUE, !.cancelled = TRUE]
          /\ initPc' = IF InitRuns THEN "dying" ELSE initPc
          /\ UNCHANGED lines
       \/ /\ KillMayFail
          /\ owner' = [o EXCEPT !.stop_attempted = TRUE]
          /\ Put("FAULT") /\ UNCHANGED initPc

\* The owner creates PID1.  It fails before there is a child, or it kills and joins
\* the child whose pidfd it could not open.
Create ==
  /\ ownerPc = "create"
  /\ \/ /\ ownerPc' = "top" /\ initPc' = "setup" /\ Put("CREATED")
     \/ /\ ownerPc' = "ended" /\ lines' = lines \o <<"ERROR", "TREE">>
        /\ initPc' \in {"none", "reaped"}
  /\ UNCHANGED <<control, owner, stopping, wake, ready, toInit, toOwner, reset, armed,
                 payload, descendant, errors>>

\* The signal may come after the test of stopping: the byte in the wake pipe then
\* ends the poll.
Top ==
  /\ ownerPc = "top" /\ ownerPc' = "poll"
  /\ IF stopping THEN Kill(owner)
     ELSE UNCHANGED <<owner, initPc, lines>>
  /\ UNCHANGED <<control, stopping, wake, ready, toInit, toOwner, reset, armed, payload,
                 descendant, errors>>

\* Mutant: the poll does not look at the wake pipe.
ReadableUnwoken ==
  {fd \in {"control", "channel", "init"} :
     \/ fd = "control" /\ owner.control_open /\ (control.unread # <<>> \/ control.closed)
     \/ fd = "channel" /\ owner.channel_open /\ (toOwner # <<>> \/ initPc \in {"closed", "zombie", "reaped"})
     \/ fd = "init" /\ initPc = "zombie"}

InitClosed == initPc \in {"closed", "zombie", "reaped"}
Readable ==
  {fd \in {"control", "channel", "init", "wake"} :
     \/ fd = "control" /\ owner.control_open /\ (control.unread # <<>> \/ control.closed)
     \/ fd = "channel" /\ owner.channel_open /\ (toOwner # <<>> \/ InitClosed)
     \/ fd = "init" /\ initPc = "zombie"
     \/ fd = "wake" /\ wake}

Poll ==
  /\ ownerPc = "poll" /\ Readable # Nobody
  /\ IF "wake" \in Readable
     THEN wake' = FALSE /\ ready' = Nobody /\ ownerPc' = "top"
     ELSE wake' = wake /\ ready' = Readable /\ ownerPc' = "control"
  /\ UNCHANGED <<control, owner, stopping, lines, toInit, toOwner, reset, initVars>>

\* A poll that fails kills the namespace; one that fails after that changes nothing.
PollFails ==
  /\ ownerPc = "poll" /\ ~owner.stop_attempted /\ ownerPc' = "top"
  /\ Kill(owner)
  /\ UNCHANGED <<control, stopping, wake, ready, toInit, toOwner, reset, armed, payload,
                 descendant, errors>>

\* One command is read.  'A' and 'G' are passed on, if PID1 is there to take them (if
\* not, it is the send that is told of the reset); whatever else there is to read kills
\* the namespace.
ReadControl ==
  LET closes == control.unread = <<>>
      command == Head(control.unread)
      passes == /\ ~closes /\ ~owner.stop_attempted
                /\ \/ command = "A" /\ ~owner.activated
                   \/ command = "G" /\ owner.activated /\ owner.ready_seen
      sent == passes /\ ~InitClosed
      open == [owner EXCEPT !.control_open = ~closes /\ command \in {"A", "G"}]
  IN  /\ ownerPc = "control" /\ ownerPc' = "drain"
      /\ IF "control" \notin ready
         THEN UNCHANGED <<control, owner, toInit, reset, initPc, lines>>
         ELSE /\ control' = IF closes THEN control ELSE [control EXCEPT !.unread = Tail(@)]
              /\ IF sent
                 THEN /\ toInit' = Append(toInit, command)
                      /\ owner' = IF command = "A" THEN [open EXCEPT !.activated = TRUE] ELSE open
                      /\ UNCHANGED <<reset, initPc, lines>>
                 ELSE Kill(open) /\ reset' = (reset /\ ~passes) /\ UNCHANGED toInit
      /\ UNCHANGED <<stopping, wake, ready, toOwner, armed, payload, descendant, errors>>

\* The events, one at a time until there is none, once PID1 has spoken or ended.  An
\* event that is out of order kills the namespace.
Line == [READY |-> "READY", EXECUTED |-> "EXEC", ROOT_EXIT |-> "ROOT", LAUNCH_ERROR |-> "ERROR"]
Flag == [READY |-> "ready_seen", EXECUTED |-> "exec_seen", ROOT_EXIT |-> "root_seen",
         LAUNCH_ERROR |-> "error_seen"]
Expected(kind) == ~owner[Flag[kind]] /\ (kind = "EXECUTED" => owner.ready_seen)
Seen(kind) == [owner EXCEPT ![Flag[kind]] = TRUE]

Drains == owner.channel_open /\ ready \cap {"channel", "init"} # Nobody

DrainEvent ==
  /\ ownerPc = "drain" /\ Drains /\ ~reset /\ toOwner # <<>>
  /\ LET kind == Head(toOwner)
     IN  /\ toOwner' = Tail(toOwner)
         /\ IF Expected(kind)
            THEN owner' = Seen(kind) /\ Put(Line[kind]) /\ UNCHANGED initPc
            ELSE Kill(owner)
  /\ UNCHANGED <<control, ownerPc, stopping, wake, ready, toInit, reset, armed, payload,
                 descendant, errors>>

\* recv is told of the reset before it yields what is queued: the loop ends with the
\* events unread.
RecvFails ==
  /\ ownerPc = "drain" /\ Drains /\ reset
  /\ ownerPc' = "init" /\ reset' = FALSE /\ Kill(owner)
  /\ UNCHANGED <<control, stopping, wake, ready, toInit, toOwner, armed, payload,
                 descendant, errors>>

\* Mutant: what PID1 has not been heard to say is left in the channel.
DrainEndsEarly ==
  /\ ownerPc = "drain" /\ ownerPc' = "init"
  /\ owner' = IF Drains /\ InitClosed THEN [owner EXCEPT !.channel_open = FALSE] ELSE owner
  /\ UNCHANGED <<control, stopping, wake, ready, lines, toInit, toOwner, reset, initVars>>

DrainEnds ==
  /\ ownerPc = "drain" /\ (Drains => ~reset /\ toOwner = <<>>)
  /\ ownerPc' = "init"
  /\ owner' = IF Drains /\ InitClosed THEN [owner EXCEPT !.channel_open = FALSE] ELSE owner
  /\ UNCHANGED <<control, stopping, wake, ready, lines, toInit, toOwner, reset, initVars>>

\* PID1 is reaped, and the last line is written; or the loop goes on with a new poll.
ReapInit ==
  /\ ownerPc = "init" /\ ready' = Nobody
  /\ IF "init" \in ready
     THEN /\ initPc' = "reaped" /\ ownerPc' = "ended"
          /\ lines' = lines \o
               (IF owner.root_seen \/ owner.cancelled \/ owner.error_seen
                THEN <<"TREE">> ELSE <<"ERROR", "TREE">>)
     ELSE ownerPc' = "top" /\ UNCHANGED <<initPc, lines>>
  /\ UNCHANGED <<control, owner, stopping, wake, toInit, toOwner, reset, armed,
                 payload, descendant, errors>>

(***************************************************************************)
(* PID1 and the payload.                                                   *)
(***************************************************************************)
OwnerSide == <<control, ownerPc, owner, stopping, wake, ready, lines, reset>>

\* _exit: from here on the kernel kills the rest of the namespace.
Exit == initPc' = "dying"
\* send_event fails when the owner's end is closed, which for a living PID1 is when
\* the owner has ended.
SendEvent(kind, next) ==
  IF OwnerAlive THEN toOwner' = Append(toOwner, kind) /\ initPc' = next
  ELSE Exit /\ UNCHANGED toOwner
\* "failed": the error is reported if it can be.
FailInit == SendEvent("LAUNCH_ERROR", "dying")

\* The descriptors of PID1.
Setup ==
  /\ initPc = "setup"
  /\ \/ initPc' = "activation" /\ UNCHANGED toOwner
     \/ FailInit
  /\ UNCHANGED <<OwnerSide, toInit, armed, payload, descendant, errors>>

\* recv waits for a command or for the end of the owner.
Receive(at, wanted, next) ==
  /\ initPc = at /\ (toInit # <<>> \/ ~OwnerAlive)
  /\ IF toInit # <<>>
     THEN initPc' = (IF Head(toInit) = wanted THEN next ELSE "dying") /\ toInit' = Tail(toInit)
     ELSE Exit /\ UNCHANGED toInit
  /\ UNCHANGED <<OwnerSide, toOwner, armed, payload, descendant, errors>>

Activation == Receive("activation", "A", "arm")
Go == Receive("go", "G", "fork")

\* Mutant: a failure to bind PID1 to the owner is ignored.
ArmInVain ==
  /\ initPc = "arm" /\ initPc' = "checkOwner" /\ armed' \in BOOLEAN
  /\ UNCHANGED <<OwnerSide, toInit, toOwner, payload, descendant, errors>>

\* From here on the owner's death kills PID1.
Arm ==
  /\ initPc = "arm"
  /\ \/ armed' = TRUE /\ initPc' = "checkOwner" /\ UNCHANGED toOwner
     \/ FailInit /\ UNCHANGED armed
  /\ UNCHANGED <<OwnerSide, toInit, payload, descendant, errors>>

\* The owner's pidfd, opened before the fork, tells whether it died before that.
CheckOwner ==
  /\ initPc = "checkOwner"
  /\ IF OwnerAlive THEN initPc' = "sendReady" ELSE Exit
  /\ UNCHANGED <<OwnerSide, toInit, toOwner, armed, payload, descendant, errors>>

SendReady ==
  /\ initPc = "sendReady" /\ SendEvent("READY", "go")
  /\ UNCHANGED <<OwnerSide, toInit, armed, payload, descendant, errors>>

Fork ==
  /\ initPc = "fork"
  /\ \/ payload' = "forked" /\ initPc' = "execAck" /\ UNCHANGED toOwner
     \/ FailInit /\ UNCHANGED payload
  /\ UNCHANGED <<OwnerSide, toInit, armed, descendant, errors>>

\* The payload is executed, which closes the exec-error pipe, or writes why not, or is
\* killed before either, which closes the pipe, too.
Execute ==
  /\ payload = "forked" /\ initPc # "zombie"
  /\ \/ payload' \in {"running", "exited"} /\ UNCHANGED errors
     \/ payload' = "exited" /\ errors' = TRUE
  /\ UNCHANGED <<OwnerSide, toInit, toOwner, initPc, armed, descendant>>

\* PID1 reads the pipe to its end, unless it cannot.  That an error could not be sent is
\* ignored.
ExecAck ==
  /\ initPc = "execAck"
  /\ \/ /\ toOwner' = IF OwnerAlive THEN Append(toOwner, "LAUNCH_ERROR") ELSE toOwner
        /\ initPc' = "reap"
     \/ payload # "forked" /\ ~errors /\ SendEvent("EXECUTED", "reap")
  /\ UNCHANGED <<OwnerSide, toInit, armed, payload, descendant, errors>>

\* The payload starts another process and ends; nothing makes it end.
Spawn ==
  /\ payload = "running" /\ descendant = "none" /\ descendant' = "running"
  /\ UNCHANGED <<OwnerSide, toInit, toOwner, initPc, armed, payload, errors>>
PayloadExits ==
  /\ payload = "running" /\ payload' = "exited"
  /\ UNCHANGED <<OwnerSide, toInit, toOwner, initPc, armed, descendant, errors>>
DescendantExits ==
  /\ descendant = "running" /\ descendant' = "exited"
  /\ UNCHANGED <<OwnerSide, toInit, toOwner, initPc, armed, payload, errors>>

\* waitpid(-1): the payload's end is reported, the other's is not; when no child is
\* left PID1 ends.
Reap ==
  /\ initPc = "reap"
  /\ \/ /\ payload = "exited" /\ payload' = "reaped" /\ SendEvent("ROOT_EXIT", "reap")
        /\ UNCHANGED descendant
     \/ /\ descendant = "exited" /\ payload \in {"exited", "reaped"} /\ descendant' = "reaped"
        /\ UNCHANGED <<initPc, toOwner, payload>>
     \/ /\ payload = "reaped" /\ descendant \in {"none", "reaped"}
        /\ Exit /\ UNCHANGED <<toOwner, payload, descendant>>
  /\ UNCHANGED <<OwnerSide, toInit, armed, errors>>

\* The kernel: a dying PID1 closes its files, then its namespace ends, and only then
\* can it be waited for.
FilesClose ==
  /\ initPc = "dying" /\ initPc' = "closed" /\ reset' = (toInit # <<>>)
  /\ UNCHANGED <<control, ownerPc, owner, stopping, wake, ready, lines, toInit, toOwner, armed, payload, descendant, errors>>
NamespaceDies ==
  /\ initPc = "closed" /\ initPc' = "zombie"
  /\ payload' = IF payload \in {"forked", "running", "exited"} THEN "dead" ELSE payload
  /\ descendant' = IF descendant \in {"running", "exited"} THEN "dead" ELSE descendant
  /\ UNCHANGED <<OwnerSide, toInit, toOwner, armed, errors>>

(***************************************************************************)
(* The controller, signals, and the owner's own death.                     *)
(***************************************************************************)
\* The owner reads one command a turn, so that one that waits behind another is as one
\* that is written later: MaxUnread costs no behaviour of the owner.
WriteCommand ==
  /\ ~control.closed /\ ownerPc # "create" /\ OwnerAlive
  /\ control.written < MaxCommand /\ Len(control.unread) < MaxUnread
  /\ \E command \in {"A", "G", "X"} :
       control' = [control EXCEPT !.unread = Append(@, command), !.written = @ + 1]
  /\ UNCHANGED <<ownerPc, owner, stopping, wake, ready, lines, toInit, toOwner, reset, initVars>>

CloseControl ==
  /\ ~control.closed /\ control' = [control EXCEPT !.closed = TRUE]
  /\ UNCHANGED <<ownerPc, owner, stopping, wake, ready, lines, toInit, toOwner, reset, initVars>>

\* stop_signal, once its handler is there.
Signal ==
  /\ OwnerAlive /\ ownerPc # "create" /\ ~stopping
  /\ stopping' = TRUE /\ wake' = TRUE
  /\ UNCHANGED <<control, ownerPc, owner, ready, lines, toInit, toOwner, reset, initVars>>

\* What the controller and the signals left for it goes with it.
OwnerDies ==
  /\ OwnerAlive /\ ownerPc # "create" /\ ownerPc' = "killed"
  /\ control' = [control EXCEPT !.unread = <<>>]
  /\ stopping' = FALSE /\ wake' = FALSE /\ ready' = Nobody
  /\ initPc' = IF armed /\ InitRuns THEN "dying" ELSE initPc
  /\ UNCHANGED <<owner, lines, toInit, toOwner, reset, armed,
                 payload, descendant, errors>>

TreeInit ==
  /\ control = [unread |-> <<>>, written |-> 0, closed |-> FALSE]
  /\ ownerPc = "create"
  /\ owner = [ready_seen |-> FALSE, exec_seen |-> FALSE, root_seen |-> FALSE,
              error_seen |-> FALSE, cancelled |-> FALSE, activated |-> FALSE,
              channel_open |-> TRUE, control_open |-> TRUE, stop_attempted |-> FALSE]
  /\ stopping = FALSE /\ wake = FALSE /\ ready = Nobody /\ lines = <<>>
  /\ toInit = <<>> /\ toOwner = <<>> /\ reset = FALSE
  /\ initPc = "none" /\ armed = FALSE
  /\ payload = "none" /\ descendant = "none" /\ errors = FALSE

OwnerStep ==
  Create \/ Top \/ Poll \/ ReadControl \/ DrainEvent \/ RecvFails \/ DrainEnds \/ ReapInit
InitStep == Setup \/ Activation \/ Arm \/ CheckOwner \/ SendReady \/ Go \/ Fork \/ ExecAck \/ Reap
Outside == WriteCommand \/ CloseControl \/ Signal \/ PollFails \/ OwnerDies

TreeNext ==
  \/ OwnerStep \/ InitStep \/ Execute \/ FilesClose \/ NamespaceDies
  \/ Spawn \/ PayloadExits \/ DescendantExits
  \/ Outside

TreeSpec == TreeInit /\ [][TreeNext]_treeVars

\* The owner, PID1, the exec and the kernel get on, so no poll fails again and again; the
\* payload need never end, nor the controller write or the signal come.
TreeFairness ==
  WF_treeVars(OwnerStep) /\ WF_treeVars(InitStep) /\ WF_treeVars(Execute)
  /\ WF_treeVars(FilesClose) /\ WF_treeVars(NamespaceDies)
TreeFairSpec == TreeSpec /\ TreeFairness

-----------------------------------------------------------------------------
(***************************************************************************)
(* Properties.                                                             *)
(***************************************************************************)
Alive == payload \in {"forked", "running"} \/ descendant = "running"
Before(a, b) == \A j \in DOMAIN lines : lines[j] = b => \E i \in 1 .. j - 1 : lines[i] = a

\* No payload is forked but by a PID1 whose life is bound to the owner's, after the
\* controller could read READY; and it does not outlive the namespace's first process.
PayloadIsOwned ==
  /\ payload # "none" => armed /\ "READY" \in ToSet(lines)
  /\ Alive => initPc \notin {"none", "zombie", "reaped"}
  /\ Alive /\ ~OwnerAlive => ~InitRuns

\* What the lines tell.  TREE is the last of them, and when it is there no process of
\* the tree is; the others come once, in order; a tree that was not cancelled ends
\* with the payload's exit code or an error; and an exit that PID1 reported is told,
\* but for one case: PID1 ended with a command unread, and the owner, who took that for
\* a reason to kill, gave up its reports (linux_owner.c:201).
LinesAreTrue ==
  /\ Cardinality(ToSet(lines)) = Len(lines)
  /\ \A i \in DOMAIN lines : lines[i] = "TREE" => i = Len(lines)
  /\ "TREE" \in ToSet(lines) => ~Alive /\ initPc \in {"none", "reaped"}
  /\ Before("READY", "EXEC")
  /\ "EXEC" \in ToSet(lines) => payload \notin {"none", "forked"} /\ ~errors
  /\ "ROOT" \in ToSet(lines) => Before("EXEC", "ROOT") \/ Before("ERROR", "ROOT")
  /\ ownerPc = "ended" =>
       /\ "TREE" \in ToSet(lines)
       /\ owner.cancelled \/ {"ROOT", "ERROR"} \cap ToSet(lines) # {}
       /\ payload = "reaped" =>
            "ROOT" \in ToSet(lines) \/ (toInit # <<>> /\ owner.stop_attempted)

\* No payload runs but under a PID1 whose life is bound to the owner's, and it does not
\* outlive it; and what the owner's lines tell of the tree is true.
TreeIsOwned == PayloadIsOwned /\ LinesAreTrue

\* A signal and a closed control pipe end in TREE, whatever the payload does, and so
\* does the end of the payload and of what it left behind; unless the owner is killed
\* or may not kill.
StopEndsInTree ==
  (stopping \/ control.closed \/ (payload # "none" /\ ~Alive))
     ~> (ownerPc \in {"ended", "killed"} \/ "FAULT" \in ToSet(lines))

\* The owner's death ends the tree, whatever PID1 was at.
NobodyOutlivesTheOwner == ownerPc = "killed" ~> Gone
=============================================================================
