---------------------------- MODULE ExclusiveLock ----------------------------
(***************************************************************************)
(* What the repository mutation lock promises to its callers and nothing   *)
(* about how: at most one thread, over all processes, is inside the action *)
(* that withGitLock protects.  A thread leaves when its action ends or     *)
(* when its process dies.  GitLock is shown to implement this module.      *)
(***************************************************************************)
CONSTANT Thread

VARIABLE inside       \* the threads that are running a protected action

Init == inside = {}

Enter(t) == /\ inside = {}
            /\ inside' = {t}

Leave == /\ inside # {}
         /\ inside' = {}

Next == (\E t \in Thread : Enter(t)) \/ Leave

Spec == Init /\ [][Next]_inside
=============================================================================
