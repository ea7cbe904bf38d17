----------------------------- MODULE MCCacheLease -----------------------------
(***************************************************************************)
(* Two components that have nothing to do with each other, side by side:   *)
(* the cache lease, and the owner of a test's process tree under fair      *)
(* scheduling.  The rigid variable part says which of them a behaviour is  *)
(* of; the other one waits in an initial state.                            *)
(***************************************************************************)
EXTENDS CacheLease, Owner

VARIABLE part

ASSUME PartsAssumption == CacheLeaseConstants

partVars == <<part, vars, treeVars>>

PartsInit ==
  /\ part \in {"lease", "tree"} /\ Init /\ TreeInit
  /\ part = "tree" => public = [c \in Candidate |-> None]

LeaseStep == part = "lease" /\ Next /\ UNCHANGED <<part, treeVars>>
TreeStep == part = "tree" /\ TreeNext /\ UNCHANGED <<part, vars>>
PartsNext == LeaseStep \/ TreeStep

FairSpec == PartsInit /\ [][PartsNext]_partVars /\ (part = "tree" => TreeFairness)

(***************************************************************************)
(* The properties are those of the two components; this one joins two.     *)
(***************************************************************************)

\* A signal, a closed control pipe, the end of the payload and the owner's own death
\* all end the tree, unless the kernel refuses to kill.
TreeEnds == StopEndsInTree /\ NobodyOutlivesTheOwner
=============================================================================
