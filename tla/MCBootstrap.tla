----------------------------- MODULE MCBootstrap -----------------------------
(***************************************************************************)
(* Two components that have nothing to do with each other, side by side:   *)
(* the bootstrap of a repository and the live feed of a browser.  The      *)
(* rigid variable part says which of them a behaviour is of; the other one *)
(* waits in an initial state, the feed with its watcher stopped.           *)
(***************************************************************************)
EXTENDS Bootstrap, LiveFeed, TLC

CONSTANTS
  w1, w2, config, ignore, main, side,
  c1, f1                      \* the client of the feed and the file it looks at

VARIABLE part

InitFiles == <<config, ignore>>
OneFile == <<config>>

ASSUME FeedAssumption == FeedConstants

partVars == <<part, vars, feedVars>>

BootstrapInit == part = "bootstrap" /\ Init /\ Unconnected("stopped")
BootstrapNext == part = "bootstrap" /\ Next /\ UNCHANGED <<part, feedVars>>
BootstrapSpec == BootstrapInit /\ [][BootstrapNext]_partVars

ServeInit ==
  /\ part = "feed" /\ FeedInit
  /\ Init /\ head = main /\ commits = <<>> /\ worktree = Nothing
ServeNext == part = "feed" /\ FeedNext /\ UNCHANGED <<part, vars>>

PartsInit == BootstrapInit \/ ServeInit
PartsNext == BootstrapNext \/ ServeNext
PartsSpec == PartsInit /\ [][PartsNext]_partVars

Symmetry == Permutations({w1, w2})
=============================================================================
