------------------------------ MODULE MCGitLock ------------------------------
EXTENDS GitLock, TLC

CONSTANTS p1, p2, t1, t2, t3

MCThread == {t1, t2, t3}

\* Two processes: t1 and t2 share one, t3 lives in the other.
TwoProcesses == {p1, p2}
TwoHomes == t1 :> p1 @@ t2 :> p1 @@ t3 :> p2
Symmetry == Permutations({t1, t2})

\* One process whose admission queue is shorter than its threads are many.
OneProcess == {p1}
OneHome == t1 :> p1 @@ t2 :> p1 @@ t3 :> p1
=============================================================================
