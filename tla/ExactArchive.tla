---------------------------- MODULE ExactArchive ----------------------------
(***************************************************************************)
(* The immutable archive of a revision (.adrai/cache/<oid>.sqlite), the    *)
(* shared alias (.adrai/index.sqlite) and the requests that use them: a    *)
(* command-line doctor and compile go through the alias, a web read reads   *)
(* the archive (src/src/Adrai/Service/Runtime.hs, CliRunner.hs and          *)
(* Compiler/CacheSelection/Internal.hs).  A request may be of any process;  *)
(* nothing orders two of them but the reservation SQLite gives on an        *)
(* archive.                                                                 *)
(***************************************************************************)
EXTENDS Naturals, FiniteSets

CONSTANTS
  Request,       \* requests of any process
  Kind,          \* what they ask: "doctor", "compile" or "web"
  Rev,           \* revisions
  MaxCompiles,   \* bound on compilations
  None

ASSUME KindAssumption == Kind \subseteq {"doctor", "compile", "web"}
ASSUME BoundAssumption == MaxCompiles \in Nat

\* A database: for which revision, by which compilation (0: it was there), valid?
Database == [rev : Rev, build : 0..MaxCompiles, valid : BOOLEAN]
Valid(database) == database # None /\ database.valid

ASSUME NoneAssumption == None \notin Database /\ None \notin [kind : Kind, rev : Rev]

VARIABLES
  archive,    \* per revision, the database at its path
  alias,      \* the database at the alias's path
  compiles,   \* compilations so far
  asked,      \* per request, its kind and revision
  pc,         \* per request, the step it is at
  again,      \* per request, has it compiled?
  held,       \* per request, the archive it validated and keeps open
  reserved,   \* requests whose transaction still reserves what they hold
  candidate,  \* per request, the private copy it is about to publish
  seen,       \* per request, the alias it validated last
  excused,    \* history: requests that lost their alias, or their connection
  result      \* per request, its outcome and the database it answered from

files == <<archive, alias, compiles>>
vars == <<files, asked, pc, again, held, reserved, candidate, seen, excused, result>>

PC == {"idle", "ensure", "hold", "probe", "check", "copy", "publish", "recheck",
       "hit", "cold", "done"}

TypeOK ==
  /\ archive \in [Rev -> Database \cup {None}]
  /\ alias \in Database \cup {None}
  /\ compiles \in 0..MaxCompiles
  /\ asked \in [Request -> [kind : Kind, rev : Rev] \cup {None}]
  /\ pc \in [Request -> PC]
  /\ again \in [Request -> BOOLEAN]
  /\ held \in [Request -> Database \cup {None}]
  /\ reserved \in SUBSET {p \in Request : held[p] # None}
  /\ candidate \in [Request -> Database \cup {None}]
  /\ seen \in [Request -> Database \cup {None}]
  /\ excused \in SUBSET Request
  /\ result \in [Request -> [how : {"none", "ok", "failed", "busy"}, from : Database \cup {None}]]

Init ==
  /\ archive \in [Rev -> {None}] \cup
       {a \in [Rev -> Database] : \A r \in Rev : a[r].rev = r /\ a[r].build = 0}
  /\ alias \in {None} \cup {d \in Database : d.build = 0}
  /\ compiles = 0
  /\ asked = [p \in Request |-> None]
  /\ pc = [p \in Request |-> "idle"]
  /\ again = [p \in Request |-> FALSE]
  /\ held = [p \in Request |-> None]
  /\ reserved = {}
  /\ candidate = [p \in Request |-> None]
  /\ seen = [p \in Request |-> None]
  /\ excused = {}
  /\ result = [p \in Request |-> [how |-> "none", from |-> None]]

Goto(p, step) == pc' = [pc EXCEPT ![p] = step]
rev(p) == asked[p].rev
Kinds(p) == asked[p].kind

\* Mutant: the connection of a request that ends is not released.
EndLeaking(p, how, from) ==
  /\ Goto(p, "done")
  /\ result' = [result EXCEPT ![p] = [how |-> how, from |-> from]]
  /\ held' = [held EXCEPT ![p] = None]
  /\ candidate' = [candidate EXCEPT ![p] = None]
  /\ UNCHANGED reserved

\* A request ends, and with it its transaction and connections.
End(p, how, from) ==
  /\ Goto(p, "done")
  /\ result' = [result EXCEPT ![p] = [how |-> how, from |-> from]]
  /\ held' = [held EXCEPT ![p] = None]
  /\ candidate' = [candidate EXCEPT ![p] = None]
  /\ reserved' = reserved \ {p}

Start(p) ==
  /\ pc[p] = "idle"
  /\ \E k \in Kind, r \in Rev :
       /\ asked' = [asked EXCEPT ![p] = [kind |-> k, rev |-> r]]
       /\ Goto(p, IF k = "web" THEN "ensure" ELSE "hold")
  /\ UNCHANGED <<files, again, held, reserved, candidate, seen, excused, result>>

Contended(p) == \E q \in reserved \ {p} : held[q] = archive[rev(p)]

(***************************************************************************)
(* Taking the archive: BEGIN IMMEDIATE, then the full validation.  Waiting *)
(* is the step not being enabled; the busy timeout ends it.                 *)
(***************************************************************************)
\* Mutant: a reservation that cannot be had counts as an invalid archive.
HoldBusyCold(p) ==
  /\ pc[p] \in {"ensure", "hold"} /\ Contended(p)
  /\ Goto(p, "cold")
  /\ UNCHANGED <<files, asked, again, held, reserved, candidate, seen, excused, result>>

HoldBusy(p) ==
  /\ pc[p] \in {"ensure", "hold"} /\ Contended(p)
  /\ End(p, "busy", None)
  /\ UNCHANGED <<files, asked, again, seen, excused>>

\* A missing or invalid archive is compiled, once.
Miss(p) ==
  /\ IF again[p]
     THEN End(p, "failed", None)
     ELSE /\ Goto(p, "cold")
          /\ held' = [held EXCEPT ![p] = None] /\ reserved' = reserved \ {p}
          /\ UNCHANGED <<candidate, result>>
  /\ UNCHANGED <<files, asked, again>>

HoldMiss(p) ==
  /\ pc[p] \in {"ensure", "hold"} /\ ~Valid(archive[rev(p)])
  /\ Miss(p)
  /\ UNCHANGED <<seen, excused>>

Hold(p) ==
  /\ pc[p] = "hold" /\ Kinds(p) # "web" /\ Valid(archive[rev(p)]) /\ ~Contended(p)
  /\ held' = [held EXCEPT ![p] = archive[rev(p)]]
  /\ reserved' = reserved \cup {p}
  /\ Goto(p, "probe")
  /\ UNCHANGED <<files, asked, again, candidate, seen, excused, result>>

\* ensureExactArchive validates and lets go, runDoctorFromExactArchive
\* validates once more and answers in the same transaction.
WebEnsure(p) ==
  /\ pc[p] = "ensure" /\ Valid(archive[rev(p)]) /\ ~Contended(p)
  /\ Goto(p, "hold")
  /\ UNCHANGED <<files, asked, again, held, reserved, candidate, seen, excused, result>>

WebAnswer(p) ==
  /\ pc[p] = "hold" /\ Kinds(p) = "web" /\ Valid(archive[rev(p)]) /\ ~Contended(p)
  /\ End(p, "ok", archive[rev(p)])
  /\ UNCHANGED <<files, asked, again, seen, excused>>

(***************************************************************************)
(* withExactArchiveAliasRepair, with the archive held throughout.          *)
(***************************************************************************)
\* Only a hint: an alias that names the revision is validated, any other repaired.
Probe(p) ==
  /\ pc[p] = "probe"
  /\ Goto(p, IF alias # None /\ alias.rev = rev(p) THEN "check" ELSE "copy")
  /\ UNCHANGED <<files, asked, again, held, reserved, candidate, seen, excused, result>>

Check(p) ==
  /\ pc[p] = "check"
  /\ seen' = [seen EXCEPT ![p] = alias]
  /\ Goto(p, IF alias = held[p] THEN "hit" ELSE "copy")
  /\ UNCHANGED <<files, asked, again, held, reserved, candidate, excused, result>>

\* The archive is copied by its path, which may hold a newer build by now.
\* Closing that copy's descriptor also drops the process's locks on the file.
Copy(p) ==
  /\ pc[p] = "copy"
  /\ \/ /\ archive[rev(p)] # None
        /\ candidate' = [candidate EXCEPT ![p] = archive[rev(p)]]
        /\ reserved' = IF archive[rev(p)] = held[p] THEN reserved \ {p} ELSE reserved
        /\ Goto(p, "publish")
        /\ UNCHANGED <<held, result>>
     \/ End(p, "failed", None)
  /\ UNCHANGED <<files, asked, again, seen, excused>>

Publish(p) ==
  /\ pc[p] = "publish"
  /\ \/ /\ alias' = candidate[p]
        /\ candidate' = [candidate EXCEPT ![p] = None]
        /\ Goto(p, "recheck")
        /\ UNCHANGED <<held, reserved, result>>
     \/ End(p, "failed", None) /\ UNCHANGED alias
  /\ UNCHANGED <<archive, compiles, asked, again, seen, excused>>

\* Mutant: a repair that reports success is not validated.
RecheckTrusting(p) ==
  /\ pc[p] = "recheck"
  /\ Goto(p, "hit")
  /\ UNCHANGED <<files, asked, again, held, reserved, candidate, seen, excused, result>>

\* Mutant: an alias lost to another publisher is repaired again.
RecheckRetrying(p) ==
  /\ pc[p] = "recheck"
  /\ seen' = [seen EXCEPT ![p] = alias]
  /\ Goto(p, IF alias = held[p] THEN "hit" ELSE "copy")
  /\ UNCHANGED <<files, asked, again, held, reserved, candidate, excused, result>>

\* Validated once, against the held archive; a mismatch is a miss.
Recheck(p) ==
  /\ pc[p] = "recheck"
  /\ seen' = [seen EXCEPT ![p] = alias]
  /\ IF alias = held[p]
     THEN /\ Goto(p, "hit")
          /\ UNCHANGED <<files, asked, again, held, reserved, candidate, excused, result>>
     ELSE excused' = excused \cup {p} /\ Miss(p)

\* A rollback or close that fails turns a hit into a miss, too.
ReleaseFails(p) ==
  /\ pc[p] = "hit"
  /\ excused' = excused \cup {p} /\ Miss(p)
  /\ UNCHANGED seen

\* Another reader's reservation on the alias outlasts the timeout.
AliasBusy(p) ==
  /\ pc[p] \in {"check", "recheck"}
  /\ \E q \in Request \ {p} : pc[q] \in {"check", "recheck"}
  /\ End(p, "busy", None)
  /\ UNCHANGED <<files, asked, again, seen, excused>>

(***************************************************************************)
(* The answers.                                                            *)
(***************************************************************************)
\* Mutant: doctor trusts that the alias is still the one it published.
AnswerUnchecked(p) ==
  /\ pc[p] = "hit"
  /\ End(p, "ok", alias)
  /\ UNCHANGED <<files, asked, again, seen, excused>>

\* A compile answers from the facts it holds, or from the archive it has just
\* built; doctor opens the alias again and checks the revision it names.
Answer(p) ==
  /\ pc[p] = "hit"
  /\ LET source == IF Kinds(p) = "doctor" THEN alias
                   ELSE IF again[p] THEN archive[rev(p)] ELSE held[p]
     IN IF source # None /\ source.rev = rev(p) THEN End(p, "ok", source) ELSE End(p, "failed", None)
  /\ UNCHANGED <<files, asked, again, seen, excused>>

\* A compilation publishes a new archive, or fails.
Compile(p) ==
  /\ pc[p] = "cold"
  /\ \/ /\ compiles < MaxCompiles
        /\ compiles' = compiles + 1
        /\ archive' = [archive EXCEPT ![rev(p)] = [rev |-> rev(p), build |-> compiles', valid |-> TRUE]]
        /\ again' = [again EXCEPT ![p] = TRUE]
        /\ Goto(p, IF Kinds(p) = "web" THEN "ensure" ELSE "hold")
        /\ UNCHANGED <<held, reserved, candidate, result>>
     \/ End(p, "failed", None) /\ UNCHANGED <<compiles, archive, again>>
  /\ UNCHANGED <<alias, asked, seen, excused>>

\* The process dies, or the request is cancelled: what it held is released.
Cancel(p) ==
  /\ pc[p] \notin {"idle", "done"}
  /\ End(p, "failed", None)
  /\ UNCHANGED <<files, asked, again, seen, excused>>

Step(p) ==
  \/ HoldBusy(p) \/ HoldMiss(p) \/ Hold(p) \/ WebEnsure(p) \/ WebAnswer(p)
  \/ Probe(p) \/ Check(p) \/ Copy(p) \/ Publish(p) \/ Recheck(p) \/ ReleaseFails(p)
  \/ AliasBusy(p) \/ Answer(p) \/ Compile(p)

Next == \E p \in Request : Start(p) \/ Step(p) \/ Cancel(p)

Spec == Init /\ [][Next]_vars
FairSpec == Spec /\ \A p \in Request : WF_vars(Step(p))

(***************************************************************************)
(* Properties.                                                             *)
(***************************************************************************)

\* Whoever replaces the alias or the archive in the meantime, an answer is about
\* the revision that was asked for and comes from a valid database.
AnswersWhatWasAsked ==
  \A p \in Request : result[p].how = "ok" =>
    Valid(result[p].from) /\ result[p].from.rev = rev(p)

(***************************************************************************)
(* Why the answers are right, by induction.                                *)
(***************************************************************************)
\* An archive is about the revision it is filed under.
ArchivesOK == \A r \in Rev : archive[r] # None => archive[r].rev = r

\* What a request holds is a valid archive of its revision, and the archive at
\* the path, which may be a newer one, stays valid; so is what it will publish.
HoldingOK(p) ==
  /\ pc[p] = "idle" => held[p] = None /\ result[p].how = "none"
  /\ pc[p] # "idle" => asked[p] # None
  /\ pc[p] \in {"probe", "check", "copy", "publish", "recheck", "hit"} => held[p] # None
  /\ held[p] # None =>
       Valid(held[p]) /\ held[p].rev = rev(p) /\ Valid(archive[rev(p)])
  /\ pc[p] = "publish" => candidate[p] # None
  /\ candidate[p] # None => Valid(candidate[p])

\* A hit was established by a full validation of the alias that was found equal
\* to the archive held, never by the probe and never by the repair's report; and
\* since then nobody has put anything but a valid database there.
HitOK(p) == pc[p] = "hit" => seen[p] = held[p] /\ Valid(alias)

HoldingsOK == \A p \in Request : HoldingOK(p)
HitsOK == \A p \in Request : HitOK(p)

IInv == TypeOK /\ ArchivesOK /\ HoldingsOK /\ HitsOK /\ AnswersWhatWasAsked

\* Who is about to compile found the archive missing or invalid, if it was not put
\* out by another publisher; what a compilation leaves behind has a build of its own.
ColdOK(p) ==
  (pc[p] = "cold" /\ p \notin excused) =>
    ~(Valid(archive[rev(p)]) /\ archive[rev(p)].build = 0)
ColdsOK == \A p \in Request : ColdOK(p)

\* An archive that was good from the start is only compiled again by a request
\* that lost its alias to another publisher or failed to release what it held,
\* never because it was busy.
GoodArchiveStays ==
  [][\A r \in Rev :
       (Valid(archive[r]) /\ archive[r].build = 0 /\ archive'[r] # archive[r]) =>
         \E p \in excused : rev(p) = r]_vars

\* Requests that take the alias from each other still all end.
EveryRequestEnds == \A p \in Request : (asked[p] # None) ~> (pc[p] = "done")
=============================================================================
