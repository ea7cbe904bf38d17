------------------------------- MODULE VecPlan -------------------------------
(***************************************************************************)
(* The plan of a query of a vec0 table of sqlite-vec.c.  vec0BestIndex     *)
(* sees the constraints of the WHERE clause without their values, chooses  *)
(* a plan and writes idxStr: one entry of four characters for every        *)
(* constraint it takes upon itself, while it numbers those constraints by  *)
(* argvIndex; which of the table's vectors a KNN query is about goes into  *)
(* idxNum.  SQLite (external) then calls vec0Filter with idxNum, idxStr    *)
(* and the values in the order of those numbers, and checks again only the *)
(* constraints that were not taken: in a KNN query that is after the k     *)
(* nearest have been chosen.  The two ends agree on nothing else.          *)
(***************************************************************************)
EXTENDS Naturals, Sequences, SequencesExt

CONSTANT Inputs   \* the constraints and the ORDER BY clauses of the queries

VARIABLES
  constraints,  \* aConstraint: column, its index, op, usable, value
  orderBy,      \* aOrderBy: column, desc
  pc,
  plan,         \* the first character of idxStr, its entries, and idxNum
  usage,        \* aConstraintUsage: the argvIndex of each constraint, or 0
  found,        \* what vec0Filter makes of idxStr and argv
  answer

vars == <<constraints, orderBy, pc, plan, usage, found, answer>>

Partition == {"partition"}
Metadata == {"integer", "float", "boolean", "text"}
Bounds == {"LIMIT", "OFFSET"}
Operators == {"EQ", "GT", "LE", "LT", "GE", "NE"}

\* "x in (...)" is an EQ of which sqlite3_vtab_in says that it can be handled at once.
IsEq(c) == c.op \in {"EQ", "IN"}

Terms(Test(_)) == {i \in DOMAIN constraints : constraints[i].usable /\ Test(constraints[i])}
\* The last one of a set, as of a loop that overwrites; 0 for none.
LastOf(set) == CHOOSE i \in set \cup {0} : \A x \in set : x <= i

\* The first loop.  k = ? and a partition key do not tell = from IN.
MatchTerms == Terms(LAMBDA c : c.op = "MATCH" /\ c.column = "vector")
RowidInTerms == Terms(LAMBDA c : c.op = "IN" /\ c.column = "id")
MatchTerm == LastOf(MatchTerms)
RowidInTerm == LastOf(RowidInTerms)
LimitTerm == LastOf(Terms(LAMBDA c : c.op = "LIMIT"))
RowidTerm == LastOf(Terms(LAMBDA c : c.op = "EQ" /\ c.column = "id"))
KTerm == LastOf(Terms(LAMBDA c : IsEq(c) /\ c.column = "k"))
HasAuxConstraint == Terms(LAMBDA c : c.op \notin Bounds /\ c.column = "aux") # {}
On(columns) == Terms(LAMBDA c : c.op \notin Bounds /\ c.column \in columns)

Twice == \E terms \in {MatchTerms, RowidInTerms} : \E i, j \in terms : i # j

IllegalMetadata(c) ==
  \/ c.op \notin Operators \cup {"IN"}
  \/ c.op = "IN" /\ c.column \in {"float", "boolean"}
  \/ c.column = "boolean" /\ c.op \notin {"EQ", "NE"}

KnnRefused ==
  \/ (LimitTerm = 0) = (KTerm = 0)
  \/ Len(orderBy) > 1
  \/ \E o \in ToSet(orderBy) : o.column # "distance" \/ o.desc
  \/ HasAuxConstraint
  \/ \E i \in On(Metadata) : IllegalMetadata(constraints[i])

\* One constraint taken: its argvIndex, and its entry of idxStr.
Consume(s, i, entry) ==
  [argvIndex |-> s.argvIndex + 1,
   usage |-> [s.usage EXCEPT ![i] = s.argvIndex],
   idxStr |-> Append(s.idxStr, entry)]
ConsumeIf(s, i, entry) == IF i = 0 THEN s ELSE Consume(s, i, entry)
Entry(kind, index, op) == [kind |-> kind, index |-> index, op |-> op]
Kind(kind) == Entry(kind, 0, "_")

NoEntries == [argvIndex |-> 1, usage |-> [i \in DOMAIN constraints |-> 0], idxStr |-> <<>>]
InOrder == [i \in DOMAIN constraints |-> i]

\* Mutant: a partition key takes any operator.
TakePartitionAnyhow(s, i) ==
  LET c == constraints[i]
  IN  IF i \in On(Partition) THEN Consume(s, i, Entry("partition", c.index, c.op)) ELSE s

\* A partition key takes six operators and leaves the others.
TakePartition(s, i) ==
  LET c == constraints[i]  op == IF c.op = "IN" THEN "EQ" ELSE c.op
  IN  IF i \in On(Partition) /\ op \in Operators
      THEN Consume(s, i, Entry("partition", c.index, op)) ELSE s
TakeMetadata(s, i) ==
  LET c == constraints[i]
  IN  IF i \in On(Metadata) THEN Consume(s, i, Entry("metadata", c.index, c.op)) ELSE s

KnnEntries ==
  LET match == Consume(NoEntries, MatchTerm, Kind("match"))
      k == Consume(match, IF LimitTerm # 0 THEN LimitTerm ELSE KTerm, Kind("k"))
      rowidIn == ConsumeIf(k, RowidInTerm, Kind("rowidIn"))
      partitions == FoldLeft(TakePartition, rowidIn, InOrder)
  IN  FoldLeft(TakeMetadata, partitions, InOrder)

\* idxNum is the column of the query vector in a KNN plan, and not read in others.
Planned(name, idxNum, s) ==
  /\ plan' = [name |-> name, idxNum |-> idxNum, idxStr |-> s.idxStr] /\ usage' = s.usage
  /\ pc' = "planned" /\ UNCHANGED answer
Failed == pc' = "done" /\ answer' = "error"

-----------------------------------------------------------------------------
BestIndex ==
  /\ pc = "plan"
  /\ IF Twice \/ (MatchTerm # 0 /\ KnnRefused) THEN Failed /\ UNCHANGED <<plan, usage>>
     ELSE IF MatchTerm # 0 THEN Planned("knn", constraints[MatchTerm].index, KnnEntries)
     ELSE IF RowidTerm # 0 THEN Planned("point", 0, Consume(NoEntries, RowidTerm, Kind("id")))
     ELSE Planned("fullscan", 0, NoEntries)
  /\ UNCHANGED <<constraints, orderBy, found>>

\* The values SQLite passes: those of the numbered constraints.
Argc == Cardinality({i \in DOMAIN usage : usage[i] # 0})
Argv == [n \in 1 .. Argc |-> constraints[CHOOSE i \in DOMAIN usage : usage[i] = n].value]

\* vec0Filter and the loops of vec0Filter_knn, vec0_chunks_iter and
\* vec0Filter_knn_chunks_iter over idxStr.
Of(kind) == {i \in DOMAIN plan.idxStr : plan.idxStr[i].kind = kind}
ValueOf(kind) == IF Of(kind) = {} THEN "none" ELSE Argv[LastOf(Of(kind))]
Filters(kind) ==
  {[index |-> plan.idxStr[i].index, op |-> plan.idxStr[i].op, value |-> Argv[i]] : i \in Of(kind)}

Filter ==
  /\ pc = "planned"
  /\ IF Len(plan.idxStr) # Argc THEN Failed /\ UNCHANGED found
     ELSE /\ found' = [vector |-> IF plan.name = "knn" THEN plan.idxNum ELSE 0,
                       match |-> ValueOf("match"), k |-> ValueOf("k"),
                       keys |-> ValueOf("rowidIn"), id |-> ValueOf("id"),
                       partition |-> Filters("partition"), metadata |-> Filters("metadata")]
          /\ pc' = "done" /\ answer' = "ok"
  /\ UNCHANGED <<constraints, orderBy, plan, usage>>

Unfound == [vector |-> 0, match |-> "none", k |-> "none", keys |-> "none", id |-> "none",
            partition |-> {}, metadata |-> {}]

Init ==
  /\ \E input \in Inputs : constraints = input.constraints /\ orderBy = input.orderBy
  /\ pc = "plan" /\ plan = [name |-> "none", idxNum |-> 0, idxStr |-> <<>>]
  /\ usage = [i \in DOMAIN constraints |-> 0]
  /\ found = Unfound /\ answer = "none"

Next == BestIndex \/ Filter

Spec == Init /\ [][Next]_vars

-----------------------------------------------------------------------------
(***************************************************************************)
(* Properties.                                                             *)
(***************************************************************************)
ValueAt(i) == IF i = 0 THEN "none" ELSE constraints[i].value

\* The constraints on columns of a kind that are to be applied before the k nearest
\* are chosen.
ToApply(columns, ops) ==
  {[index |-> constraints[i].index,
    op |-> IF constraints[i].column = "partition" /\ constraints[i].op = "IN" THEN "EQ" ELSE constraints[i].op,
    value |-> constraints[i].value] :
     i \in {x \in On(columns) : constraints[x].op \in ops}}

\* vec0Filter reads from idxNum, idxStr and argv just what the query says: the vector
\* is looked for in the column it was matched with, each value goes to the column and
\* the operator it was written for, and every constraint on a
\* metadata column, and every comparison of a partition key, is applied before the k
\* nearest are chosen and not to them afterwards.  It never meets an idxStr of
\* another length than argv.
PlanIsCarriedOut ==
  pc = "done" /\ plan.name # "none" =>
    /\ answer = "ok"
    /\ CASE plan.name = "knn" ->
           found = [vector |-> constraints[MatchTerm].index,
                    match |-> ValueAt(MatchTerm), k |-> ValueAt(LimitTerm + KTerm),
                    keys |-> ValueAt(RowidInTerm), id |-> "none",
                    partition |-> ToApply(Partition, Operators \cup {"IN"}),
                    metadata |-> ToApply(Metadata, Operators \cup {"IN", "LIKE"})]
      [] plan.name = "point" -> found = [Unfound EXCEPT !.id = ValueAt(RowidTerm)]
      [] OTHER -> found = Unfound
=============================================================================
