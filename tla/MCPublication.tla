----------------------------- MODULE MCPublication -----------------------------
(***************************************************************************)
(* Two components that have nothing to do with each other, side by side:   *)
(* the publication of an index, and the live feed of a browser under fair  *)
(* scheduling.  The rigid variable part says which of them a behaviour is  *)
(* of; the other one waits in an initial state.                            *)
(***************************************************************************)
EXTENDS Publication

CONSTANTS
  p1, p2, p3,
  c1, f1,                     \* the client of the feed and the file they look at
  MaxGeneration, QueueLimit, SubscriberLimit, ActiveLimit, LeaseLimit, MaxVersion, MaxEpoch

VARIABLES
  part,
  generation, terminal, subscribers, queue, overflow, published, told,
  version, lock, seen, epoch, active, interest, watcher, previous, observed,
  session, sample, before, attempts, dirty, known, stamped

Feed == INSTANCE LiveFeed WITH Client <- {c1}, File <- {f1}, Nobody <- None

ASSUME PartsAssumption == PublicationConstants /\ Feed!FeedConstants

feedVars == <<generation, terminal, subscribers, queue, overflow, published, told,
              version, lock, seen, epoch, active, interest, watcher, previous, observed,
              session, sample, before, attempts, dirty, known, stamped>>
partVars == <<part, vars, feedVars>>

\* Nothing of a stopped watcher, with nobody connected, is enabled.
PartsInit ==
  \/ part = "publication" /\ Init /\ Feed!Unconnected("stopped")
  \/ part = "feed" /\ Feed!FeedInit /\ Init /\ target = None

\* p1 beside another rename, or beside an install through the backup path.
OneBeside == pc[p2] = "idle" \/ pc[p3] = "idle"
PublicationNext == part = "publication" /\ Next /\ OneBeside' /\ UNCHANGED <<part, feedVars>>
FeedNext == part = "feed" /\ Feed!Undisturbed /\ UNCHANGED <<part, vars>>
PartsNext == PublicationNext \/ FeedNext

FairSpec == PartsInit /\ [][PartsNext]_partVars /\ Feed!FeedFairness

(***************************************************************************)
(* The property of the feed; those of the publication are Publication's.   *)
(***************************************************************************)

\* A browser that shows an older version is told and fetches, and a session that has
\* to be closed is.
Converges == Feed!Converges
=============================================================================
