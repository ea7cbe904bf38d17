------------------------- MODULE ExactArchiveProofs -------------------------
(***************************************************************************)
(* Proofs about ExactArchive for any requests, revisions and number of     *)
(* compilations: every answer comes from a valid database of the revision  *)
(* that was asked for.                                                     *)
(***************************************************************************)
EXTENDS ExactArchive, TLAPS

\* The stages in which a request holds an archive.
Holding == {"probe", "check", "copy", "publish", "recheck", "hit"}

LEMMA Initially == Init => IInv
<1> SUFFICES ASSUME Init PROVE IInv
  OBVIOUS
<1>1. TypeOK
  BY BoundAssumption DEF Init, TypeOK, PC, Database
<1>2. ArchivesOK
  BY NoneAssumption DEF Init, ArchivesOK
<1>3. HoldingsOK /\ HitsOK /\ AnswersWhatWasAsked
  BY DEF Init, HoldingsOK, HoldingOK, HitsOK, HitOK, AnswersWhatWasAsked
<1> QED
  BY <1>1, <1>2, <1>3 DEF IInv

\* A request that ends gives up what it held; its answer is all that counts.
LEMMA Ending ==
  ASSUME IInv, NEW p \in Request, pc[p] # "idle",
         NEW how \in {"ok", "failed", "busy"}, NEW from \in Database \cup {None},
         End(p, how, from),
         how = "ok" => Valid(from) /\ from.rev = rev(p),
         UNCHANGED <<files, asked, again>>,
         \/ UNCHANGED seen
         \/ /\ seen' \in [Request -> Database \cup {None}]
            /\ \A q \in Request \ {p} : seen'[q] = seen[q],
         excused' = excused \/ excused' = excused \cup {p}
  PROVE  IInv'
<1> USE DEF IInv, End, Goto, files
<1>1. TypeOK'
  BY DEF TypeOK, PC
<1>2. ArchivesOK'
  BY DEF ArchivesOK
<1>3. HoldingsOK'
  BY DEF TypeOK, HoldingsOK, HoldingOK, rev
<1>4. HitsOK'
  BY DEF TypeOK, HitsOK, HitOK
<1>5. AnswersWhatWasAsked'
  BY DEF TypeOK, AnswersWhatWasAsked, rev
<1> QED
  BY <1>1, <1>2, <1>3, <1>4, <1>5

\* A request that moves on: neither an archive nor the alias changes, no answer
\* is given, and what it holds and is about to publish agrees with its stage.
LEMMA Moving ==
  ASSUME IInv, TypeOK', NEW p \in Request, pc[p] \notin {"idle", "done"},
         pc'[p] \notin {"idle", "publish"},
         \A q \in Request \ {p} :
           pc'[q] = pc[q] /\ held'[q] = held[q] /\ seen'[q] = seen[q],
         UNCHANGED <<files, asked, candidate, result>>,
         pc'[p] \in Holding => held'[p] # None,
         held'[p] # None => Valid(held'[p]) /\ held'[p].rev = rev(p) /\ Valid(archive[rev(p)]),
         pc'[p] = "hit" => seen'[p] = held'[p] /\ Valid(alias)
  PROVE  IInv'
<1> USE DEF IInv, files
<1>1. ArchivesOK'
  BY DEF ArchivesOK
<1>2. HoldingsOK'
  <2> SUFFICES ASSUME NEW q \in Request PROVE HoldingOK(q)'
    BY DEF HoldingsOK
  <2>1. HoldingOK(q)
    BY DEF HoldingsOK
  <2>2. CASE q = p
    BY <2>1, <2>2 DEF HoldingOK, rev, Holding
  <2>3. CASE q # p
    BY <2>1, <2>3 DEF HoldingOK, rev
  <2> QED
    BY <2>2, <2>3
<1>3. HitsOK'
  BY DEF HitsOK, HitOK
<1>4. AnswersWhatWasAsked'
  BY DEF AnswersWhatWasAsked, rev
<1> QED
  BY <1>1, <1>2, <1>3, <1>4

\* A miss ends the request, or has the archive compiled.
LEMMA Missing ==
  ASSUME IInv, NEW p \in Request, pc[p] \notin {"idle", "done"},
         Miss(p), seen' \in [Request -> Database \cup {None}],
         \A q \in Request \ {p} : seen'[q] = seen[q],
         excused' = excused \/ excused' = excused \cup {p}
  PROVE  IInv'
<1>1. CASE again[p]
  BY <1>1, Ending DEF Miss, IInv, TypeOK, files
<1>2. CASE ~again[p]
  <2>1. /\ pc' = [pc EXCEPT ![p] = "cold"]
        /\ held' = [held EXCEPT ![p] = None]
        /\ reserved' = reserved \ {p}
        /\ UNCHANGED <<candidate, result, archive, alias, compiles, asked, again>>
    BY <1>2 DEF Miss, Goto, files
  <2>2. reserved' \in SUBSET {q \in Request : held'[q] # None}
    BY <2>1 DEF IInv, TypeOK
  <2>3. TypeOK'
    BY <2>1, <2>2 DEF IInv, TypeOK, PC
  <2>4. /\ pc'[p] = "cold" /\ held'[p] = None
        /\ \A q \in Request \ {p} : pc'[q] = pc[q] /\ held'[q] = held[q]
    BY <2>1 DEF IInv, TypeOK
  <2> QED
    BY <2>1, <2>3, <2>4, Moving DEF Holding, files
<1> QED
  BY <1>1, <1>2

LEMMA Started ==
  ASSUME IInv, NEW p \in Request, Start(p)
  PROVE  IInv'
<1> PICK k \in Kind, r \in Rev :
      /\ asked' = [asked EXCEPT ![p] = [kind |-> k, rev |-> r]]
      /\ Goto(p, IF k = "web" THEN "ensure" ELSE "hold")
  BY DEF Start
<1>1. UNCHANGED <<archive, alias, compiles, again, held, reserved, candidate, seen, excused, result>>
  BY DEF Start, files
<1>2. TypeOK'
  BY <1>1 DEF IInv, TypeOK, Goto, PC
<1>3. ArchivesOK'
  BY <1>1 DEF IInv, ArchivesOK
<1>4. HoldingsOK'
  <2> SUFFICES ASSUME NEW q \in Request PROVE HoldingOK(q)'
    BY DEF HoldingsOK
  <2>1. HoldingOK(q)
    BY DEF IInv, HoldingsOK
  <2>2. CASE q = p
    BY <1>1, <2>1, <2>2, NoneAssumption DEF IInv, TypeOK, Start, Goto, HoldingOK
  <2>3. CASE q # p
    BY <1>1, <2>1, <2>3 DEF IInv, TypeOK, Goto, HoldingOK, rev
  <2> QED
    BY <2>2, <2>3
<1>5. HitsOK'
  BY <1>1 DEF IInv, TypeOK, HitsOK, HitOK, Goto
<1>6. AnswersWhatWasAsked'
  BY <1>1 DEF IInv, TypeOK, Start, AnswersWhatWasAsked, HoldingsOK, HoldingOK, rev
<1> QED
  BY <1>2, <1>3, <1>4, <1>5, <1>6 DEF IInv

\* The copy of an archive at a path whose content was valid is valid.
LEMMA Copied ==
  ASSUME IInv, NEW p \in Request, Copy(p)
  PROVE  IInv'
<1>1. CASE End(p, "failed", None)
  BY <1>1, Ending DEF Copy
<1>2. CASE ~End(p, "failed", None)
  <2>1. /\ archive[rev(p)] # None /\ pc[p] = "copy"
        /\ candidate' = [candidate EXCEPT ![p] = archive[rev(p)]]
        /\ reserved' \subseteq reserved
        /\ Goto(p, "publish")
        /\ UNCHANGED <<held, result, archive, alias, compiles, asked, again, seen, excused>>
    BY <1>2 DEF Copy, files
  <2>2. HoldingOK(p) /\ rev(p) \in Rev /\ archive[rev(p)] \in Database
    BY <2>1 DEF IInv, HoldingsOK, HoldingOK, TypeOK, rev
  <2>3. Valid(archive[rev(p)])
    BY <2>1, <2>2 DEF HoldingOK
  <2>4. TypeOK'
    BY <2>1, <2>2 DEF IInv, TypeOK, Goto, PC
  <2>5. HoldingsOK'
    <3> SUFFICES ASSUME NEW q \in Request PROVE HoldingOK(q)'
      BY DEF HoldingsOK
    <3>1. HoldingOK(q)
      BY DEF IInv, HoldingsOK
    <3>2. CASE q = p
      BY <2>1, <2>3, <3>1, <3>2 DEF IInv, TypeOK, Goto, HoldingOK, rev
    <3>3. CASE q # p
      BY <2>1, <3>1, <3>3 DEF IInv, TypeOK, Goto, HoldingOK, rev
    <3> QED
      BY <3>2, <3>3
  <2>6. ArchivesOK' /\ HitsOK' /\ AnswersWhatWasAsked'
    BY <2>1 DEF IInv, TypeOK, ArchivesOK, HitsOK, HitOK, AnswersWhatWasAsked, Goto, rev
  <2> QED
    BY <2>4, <2>5, <2>6 DEF IInv
<1> QED
  BY <1>1, <1>2

\* Whatever is published under the alias is a valid database.
LEMMA Published ==
  ASSUME IInv, NEW p \in Request, Publish(p)
  PROVE  IInv'
<1>1. CASE End(p, "failed", None) /\ UNCHANGED alias
  BY <1>1, Ending DEF Publish, files
<1>2. CASE ~(End(p, "failed", None) /\ UNCHANGED alias)
  <2>1. /\ pc[p] = "publish" /\ alias' = candidate[p]
        /\ candidate' = [candidate EXCEPT ![p] = None]
        /\ Goto(p, "recheck")
        /\ UNCHANGED <<held, reserved, result, archive, compiles, asked, again, seen, excused>>
    BY <1>2 DEF Publish
  <2>2. HoldingOK(p)
    BY DEF IInv, HoldingsOK
  <2>3. Valid(alias') /\ alias' \in Database \cup {None}
    BY <2>1, <2>2 DEF IInv, TypeOK, HoldingOK, Valid
  <2>4. TypeOK'
    BY <2>1, <2>3 DEF IInv, TypeOK, Goto, PC
  <2>5. HoldingsOK'
    <3> SUFFICES ASSUME NEW q \in Request PROVE HoldingOK(q)'
      BY DEF HoldingsOK
    <3>1. HoldingOK(q)
      BY DEF IInv, HoldingsOK
    <3>2. CASE q = p
      BY <2>1, <3>1, <3>2 DEF IInv, TypeOK, Goto, HoldingOK, rev
    <3>3. CASE q # p
      BY <2>1, <3>1, <3>3 DEF IInv, TypeOK, Goto, HoldingOK, rev
    <3> QED
      BY <3>2, <3>3
  <2>6. ArchivesOK' /\ AnswersWhatWasAsked'
    BY <2>1 DEF IInv, TypeOK, ArchivesOK, AnswersWhatWasAsked, rev
  <2>7. HitsOK'
    BY <2>1, <2>3 DEF IInv, TypeOK, HitsOK, HitOK, Goto
  <2> QED
    BY <2>4, <2>5, <2>6, <2>7 DEF IInv
<1> QED
  BY <1>1, <1>2

\* A compilation puts a valid archive of its revision in place of another one.
LEMMA Compiled ==
  ASSUME IInv, NEW p \in Request, Compile(p)
  PROVE  IInv'
<1>1. CASE End(p, "failed", None) /\ UNCHANGED <<compiles, archive, again>>
  BY <1>1, Ending DEF Compile, files
<1>2. CASE ~(End(p, "failed", None) /\ UNCHANGED <<compiles, archive, again>>)
  <2> DEFINE built == [rev |-> rev(p), build |-> compiles', valid |-> TRUE]
             next == IF Kinds(p) = "web" THEN "ensure" ELSE "hold"
  <2>1. /\ pc[p] = "cold" /\ compiles < MaxCompiles /\ compiles' = compiles + 1
        /\ archive' = [archive EXCEPT ![rev(p)] = built]
        /\ again' = [again EXCEPT ![p] = TRUE]
        /\ Goto(p, next)
        /\ UNCHANGED <<held, reserved, candidate, result, alias, asked, seen, excused>>
    BY <1>2 DEF Compile
  <2>2. rev(p) \in Rev
    BY <2>1 DEF IInv, HoldingsOK, HoldingOK, TypeOK, rev
  <2>3. compiles' \in 0..MaxCompiles
    BY <2>1, BoundAssumption DEF IInv, TypeOK
  <2>4. built \in Database
    BY <2>2, <2>3 DEF Database
  <2>5. Valid(built) /\ built.rev = rev(p) /\ built # None
    BY <2>4, NoneAssumption DEF Valid
  <2> HIDE DEF built
  <2>6. TypeOK'
    BY <2>1, <2>2, <2>3, <2>4 DEF IInv, TypeOK, Goto, PC
  <2>7. ArchivesOK'
    BY <2>1, <2>2, <2>5 DEF IInv, TypeOK, ArchivesOK
  <2>8. HoldingsOK'
    <3> SUFFICES ASSUME NEW q \in Request PROVE HoldingOK(q)'
      BY DEF HoldingsOK
    <3>1. HoldingOK(q)
      BY DEF IInv, HoldingsOK
    <3>2. rev(q)' = rev(q) /\ (Valid(archive[rev(q)]) => Valid(archive'[rev(q)]))
      <4>1. CASE rev(q) \in Rev
        BY <2>1, <2>2, <2>5, <4>1 DEF IInv, TypeOK, rev
      <4>2. CASE asked[q] # None
        BY <4>1, <4>2 DEF IInv, TypeOK, rev
      <4>3. CASE asked[q] = None /\ rev(q) \notin Rev
        BY <2>1, <2>2, <4>3 DEF IInv, TypeOK, rev, Valid
      <4> QED
        BY <4>1, <4>2, <4>3
    <3>3. CASE q = p
      BY <2>1, <3>1, <3>2, <3>3 DEF IInv, TypeOK, Goto, HoldingOK
    <3>4. CASE q # p
      BY <2>1, <3>1, <3>2, <3>4 DEF IInv, TypeOK, Goto, HoldingOK
    <3> QED
      BY <3>3, <3>4
  <2>9. HitsOK' /\ AnswersWhatWasAsked'
    BY <2>1 DEF IInv, TypeOK, HitsOK, HitOK, AnswersWhatWasAsked, Goto, rev
  <2> QED
    BY <2>6, <2>7, <2>8, <2>9 DEF IInv
<1> QED
  BY <1>1, <1>2

\* The steps that look and go on, or end.
LEMMA Looked ==
  ASSUME IInv, NEW p \in Request,
         \/ HoldBusy(p) \/ HoldMiss(p) \/ Hold(p) \/ WebEnsure(p) \/ WebAnswer(p)
         \/ Probe(p) \/ Check(p) \/ Recheck(p) \/ ReleaseFails(p)
         \/ AliasBusy(p) \/ Answer(p) \/ Cancel(p)
  PROVE  IInv'
<1>0. HoldingOK(p) /\ HitOK(p)
  BY DEF IInv, HoldingsOK, HitsOK
<1>a. pc[p] # "idle" => rev(p) \in Rev /\ archive[rev(p)] \in Database \cup {None}
  BY <1>0 DEF IInv, TypeOK, HoldingOK, rev
<1>1. CASE HoldBusy(p)
  BY <1>1, Ending DEF HoldBusy
<1>2. CASE HoldMiss(p)
  BY <1>2, Missing DEF HoldMiss, IInv, TypeOK
<1>3. CASE Hold(p)
  <2>1. TypeOK'
    BY <1>3, <1>a DEF Hold, IInv, TypeOK, Goto, PC, files, Valid
  <2>2. archive[rev(p)].rev = rev(p)
    BY <1>3, <1>a DEF Hold, IInv, ArchivesOK, Valid
  <2> QED
    BY <1>3, <1>a, <2>1, <2>2, Moving DEF Hold, IInv, TypeOK, Goto, Holding, Valid
<1>4. CASE WebEnsure(p)
  <2>1. TypeOK'
    BY <1>4 DEF WebEnsure, IInv, TypeOK, Goto, PC, files
  <2> QED
    BY <1>0, <1>4, <2>1, Moving DEF WebEnsure, HoldingOK, IInv, TypeOK, Goto, Holding
<1>5. CASE WebAnswer(p)
  <2>1. archive[rev(p)].rev = rev(p)
    BY <1>5, <1>a DEF WebAnswer, IInv, ArchivesOK, Valid
  <2> QED
    BY <1>5, <1>a, <2>1, Ending DEF WebAnswer
<1>6. CASE Probe(p)
  <2>1. TypeOK'
    BY <1>6 DEF Probe, IInv, TypeOK, Goto, PC, files
  <2> QED
    BY <1>0, <1>6, <2>1, Moving DEF Probe, HoldingOK, IInv, TypeOK, Goto, Holding
<1>7. CASE Check(p)
  <2>1. TypeOK'
    BY <1>7 DEF Check, IInv, TypeOK, Goto, PC, files
  <2> QED
    BY <1>0, <1>7, <2>1, Moving DEF Check, HoldingOK, IInv, TypeOK, Goto, Holding
<1>8. CASE Recheck(p)
  <2>1. CASE alias = held[p]
    <3>1. TypeOK'
      BY <1>8, <2>1 DEF Recheck, IInv, TypeOK, Goto, PC, files
    <3> QED
      BY <1>0, <1>8, <2>1, <3>1, Moving DEF Recheck, HoldingOK, IInv, TypeOK, Goto, Holding
  <2>2. CASE alias # held[p]
    BY <1>8, <2>2, Missing DEF Recheck, IInv, TypeOK
  <2> QED
    BY <2>1, <2>2
<1>9. CASE ReleaseFails(p)
  BY <1>9, Missing DEF ReleaseFails, IInv, TypeOK
<1>10. CASE AliasBusy(p)
  BY <1>10, Ending DEF AliasBusy
<1>11. CASE Answer(p)
  <2> DEFINE source == IF Kinds(p) = "doctor" THEN alias
                       ELSE IF again[p] THEN archive[rev(p)] ELSE held[p]
  <2>1. Valid(source) /\ source \in Database \cup {None} /\ pc[p] = "hit"
    BY <1>0, <1>11, <1>a DEF Answer, HoldingOK, HitOK, IInv, TypeOK
  <2> HIDE DEF source
  <2>2. IF source # None /\ source.rev = rev(p) THEN End(p, "ok", source) ELSE End(p, "failed", None)
    BY <1>11 DEF Answer, source
  <2> QED
    BY <1>11, <2>1, <2>2, Ending DEF Answer
<1>12. CASE Cancel(p)
  BY <1>12, Ending DEF Cancel
<1> QED
  BY <1>1, <1>2, <1>3, <1>4, <1>5, <1>6, <1>7, <1>8, <1>9, <1>10, <1>11, <1>12

LEMMA Inductive == IInv /\ [Next]_vars => IInv'
<1> SUFFICES ASSUME IInv, [Next]_vars PROVE IInv'
  OBVIOUS
<1>1. CASE UNCHANGED vars
  BY <1>1 DEF vars, files, IInv, TypeOK, ArchivesOK, HoldingsOK, HoldingOK, HitsOK, HitOK,
              AnswersWhatWasAsked, Valid, rev
<1>2. ASSUME NEW p \in Request, Start(p) \/ Step(p) \/ Cancel(p) PROVE IInv'
  BY <1>2, Started, Copied, Published, Compiled, Looked DEF Step
<1> QED
  BY <1>1, <1>2 DEF Next

\* The inductive invariant holds in every behaviour: what a request holds, copies
\* and publishes is a valid archive, whoever compiles and publishes beside it.
THEOREM Invariance == Spec => []IInv
<1> QED
  BY Initially, Inductive, PTL DEF Spec

\* Every answer of doctor, compile and the web is about the revision that was asked
\* for and comes from a valid database.
THEOREM AnswersAreRight == Spec => []AnswersWhatWasAsked
<1>1. IInv => AnswersWhatWasAsked
  BY DEF IInv
<1> QED
  BY <1>1, Invariance, PTL

(***************************************************************************)
(* Good archives stay.                                                     *)
(***************************************************************************)
\* A request that is not sent to compile, and replaces no archive, keeps ColdsOK.
LEMMA NotCold ==
  ASSUME IInv, ColdsOK, NEW p \in Request,
         \A q \in Request \ {p} : pc'[q] = pc[q] /\ rev(q)' = rev(q),
         pc'[p] # "cold",
         excused \subseteq excused', UNCHANGED archive
  PROVE  ColdsOK'
BY DEF ColdsOK, ColdOK

\* A request is sent to compile because the archive is no good, or because it lost
\* its alias or its connection.
LEMMA MissedCold ==
  ASSUME IInv, ColdsOK, NEW p \in Request, Miss(p),
         \/ ~Valid(archive[rev(p)]) /\ UNCHANGED excused
         \/ excused' = excused \cup {p}
  PROVE  ColdsOK'
<1>1. /\ \A q \in Request \ {p} : pc'[q] = pc[q]
      /\ \A q \in Request : rev(q)' = rev(q)
      /\ excused \subseteq excused' /\ UNCHANGED archive
  BY DEF Miss, End, Goto, files, IInv, TypeOK, rev
<1> QED
  BY <1>1 DEF ColdsOK, ColdOK

\* A compilation replaces an archive by one with a build of its own.
LEMMA CompiledCold ==
  ASSUME IInv, ColdsOK, NEW p \in Request, Compile(p)
  PROVE  ColdsOK'
<1>1. /\ \A q \in Request \ {p} : pc'[q] = pc[q]
      /\ \A q \in Request : rev(q)' = rev(q)
      /\ pc'[p] # "cold" /\ UNCHANGED excused
  BY DEF Compile, End, Goto, IInv, TypeOK, rev
<1>2. CASE UNCHANGED archive
  BY <1>1, <1>2, NotCold
<1>3. CASE ~UNCHANGED archive
  <2>1. /\ compiles' = compiles + 1
        /\ archive' = [archive EXCEPT ![rev(p)] =
                        [rev |-> rev(p), build |-> compiles', valid |-> TRUE]]
    BY <1>3 DEF Compile
  <2>2. compiles' # 0
    BY <2>1, BoundAssumption DEF IInv, TypeOK
  <2>3. \A r \in Rev : archive'[r] = archive[r] \/ archive'[r].build # 0
    BY <2>1, <2>2 DEF IInv, TypeOK
  <2>4. \A q \in Request : pc[q] = "cold" => rev(q) \in Rev
    BY DEF IInv, HoldingsOK, HoldingOK, TypeOK, rev
  <2> QED
    BY <1>1, <2>3, <2>4 DEF ColdsOK, ColdOK
<1> QED
  BY <1>2, <1>3

\* What the reasons to compile rest on survives every step.
LEMMA ColdInductive == IInv /\ ColdsOK /\ [Next]_vars => ColdsOK'
<1> SUFFICES ASSUME IInv, ColdsOK, [Next]_vars PROVE ColdsOK'
  OBVIOUS
<1>1. CASE UNCHANGED vars
  BY <1>1 DEF vars, files, ColdsOK, ColdOK, Valid, rev
<1>2. ASSUME NEW p \in Request, Start(p) PROVE ColdsOK'
  BY <1>2, NotCold DEF Start, Goto, files, IInv, TypeOK, rev
<1>3. ASSUME NEW p \in Request,
             HoldBusy(p) \/ WebAnswer(p) \/ AliasBusy(p) \/ Answer(p) \/ Cancel(p)
      PROVE  ColdsOK'
  <2>1. /\ \E how \in {"ok", "failed", "busy"} : \E from : End(p, how, from)
        /\ UNCHANGED <<archive, asked, excused>>
    <3>1. CASE Answer(p)
      BY <3>1 DEF Answer, files
    <3> QED
      BY <1>3, <3>1 DEF HoldBusy, WebAnswer, AliasBusy, Cancel, files
  <2> QED
    BY <2>1, NotCold DEF End, Goto, IInv, TypeOK, rev
<1>4. ASSUME NEW p \in Request,
             Hold(p) \/ WebEnsure(p) \/ Probe(p) \/ Check(p) \/ Copy(p) \/ Publish(p)
      PROVE  ColdsOK'
  <2>1. /\ \E step \in PC \ {"cold"} : Goto(p, step)
        /\ UNCHANGED <<archive, asked, excused>>
    <3>1. CASE Hold(p) \/ WebEnsure(p) \/ Probe(p) \/ Check(p)
      BY <1>4, <3>1 DEF Hold, WebEnsure, Probe, Check, PC, files
    <3>2. CASE Copy(p) \/ Publish(p)
      BY <1>4, <3>2 DEF Copy, Publish, End, PC, files
    <3> QED
      BY <1>4, <3>1, <3>2
  <2> QED
    BY <2>1, NotCold DEF Goto, IInv, TypeOK, rev
<1>5. ASSUME NEW p \in Request, HoldMiss(p) \/ ReleaseFails(p) PROVE ColdsOK'
  BY <1>5, MissedCold DEF HoldMiss, ReleaseFails
<1>6. ASSUME NEW p \in Request, Recheck(p) PROVE ColdsOK'
  <2>1. CASE alias = held[p]
    BY <1>6, <2>1, NotCold DEF Recheck, Goto, files, IInv, TypeOK, rev
  <2>2. CASE alias # held[p]
    BY <1>6, <2>2, MissedCold DEF Recheck
  <2> QED
    BY <2>1, <2>2
<1> QED
  BY <1>1, <1>2, <1>3, <1>4, <1>5, <1>6, CompiledCold DEF Next, Step

\* Only a compilation replaces an archive, and only its own.
LEMMA Replaced ==
  ASSUME IInv, ColdsOK, [Next]_vars, NEW r \in Rev,
         Valid(archive[r]), archive[r].build = 0, archive'[r] # archive[r]
  PROVE  \E p \in excused : rev(p) = r
<1>1. CASE UNCHANGED archive
  BY <1>1
<1>2. ASSUME NEW p \in Request, Compile(p) PROVE p \in excused /\ rev(p) = r
  <2>1. pc[p] = "cold" /\ rev(p) = r
    BY <1>2 DEF Compile, IInv, TypeOK
  <2> QED
    BY <2>1 DEF ColdsOK, ColdOK
<1>3. ASSUME NEW p \in Request, Start(p) \/ (Step(p) /\ ~Compile(p)) \/ Cancel(p)
      PROVE  UNCHANGED archive
  BY <1>3 DEF Step, Start, HoldBusy, HoldMiss, Miss, Hold, WebEnsure, WebAnswer, Probe, Check,
              Copy, Publish, Recheck, ReleaseFails, AliasBusy, Answer, Cancel, files
<1> QED
  BY <1>1, <1>2, <1>3 DEF Next, Step, vars, files

\* An archive that was good from the start is never compiled again because it was
\* busy, whoever holds, publishes and compiles: only by a request that was put out.
THEOREM GoodStays == Spec => GoodArchiveStays
<1>1. Init => ColdsOK
  BY DEF Init, ColdsOK, ColdOK
<1>2. IInv /\ ColdsOK /\ [Next]_vars =>
        [\A r \in Rev :
           (Valid(archive[r]) /\ archive[r].build = 0 /\ archive'[r] # archive[r]) =>
             \E p \in excused : rev(p) = r]_vars
  BY Replaced
<1> QED
  BY <1>1, <1>2, ColdInductive, Invariance, PTL DEF Spec, GoodArchiveStays
=============================================================================
