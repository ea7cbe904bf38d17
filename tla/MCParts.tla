------------------------------- MODULE MCParts -------------------------------
(***************************************************************************)
(* Components that have nothing to do with each other, side by side: the   *)
(* compilation coordinator, the overlay file, and the storage, the queries *)
(* and the query plans of a vector table.  The rigid variable part says    *)
(* which of them a behaviour is of.  The coordinator, the overlay and the  *)
(* storage wait in an initial state while another part runs; the variables *)
(* of queries and of plans, which share some, are None then.               *)
(***************************************************************************)
EXTENDS MCVec, Compilation, Overlay, Vec0

CONSTANTS
  r1, r2, h1, h2,            \* refreshers and hydrators of the overlay
  c1, c2, c3, k1, k2, k3,    \* callers and keys of the coordinator
  ViewLength, IntRange, MaxK,
  \* two text keys, partition keys, vectors and auxiliary values, a short text and
  \* two long ones
  id1, id2, part1, part2, vec1, vec2, aux1, aux2, short, long1, long2

VARIABLES
  part, phase, outcome, rows, current, chunks, query, at,
  constraints, orderBy, plan, usage, found

Row(id, partition, vector, aux, text) ==
  [key |-> id, part |-> partition, vector |-> vector, aux |-> aux, text |-> text]

Rows ==
  {Row(id1, part1, vec1, aux1, long1), Row(id2, part1, vec2, aux1, short),
   Row(NoValue, part1, vec1, aux1, long1), Row(1, part2, vec2, Null, long1),
   Row(id1, Null, vec1, Null, short), Row(2, part1, vec1, aux1, short),
   Row(id2, part1, vec1, BadType, short), Row(NoValue, part1, vec1, aux1, BadType),
   Row(id1, BadType, vec1, aux1, short)}

Values ==
  {Row(NoValue, NoValue, vec2, NoValue, long2), Row(NoValue, NoValue, NoValue, aux2, short),
   Row(id2, NoValue, NoValue, aux2, NoValue), Row(NoValue, part2, vec1, NoValue, NoValue),
   Row(NoValue, NoValue, BadType, aux2, long2)}

Query == INSTANCE VecQuery WITH Inputs <- QueryInputs, pc <- phase, answer <- outcome
Plan == INSTANCE VecPlan WITH Inputs <- PlanInputs, pc <- phase, answer <- outcome

ASSUME PartsAssumption == CompilationConstants /\ OverlayConstants /\ VecConstants

\* The variables only queries have, and only plans.
ofQuery == <<rows, current, chunks, query, at>>
ofPlan == <<constraints, orderBy, plan, usage, found>>
ofBoth == <<phase, outcome, ofQuery, ofPlan>>
partVars == <<part, vars, overlayVars, storageVars, ofBoth>>

NoQuery ==
  rows = None /\ current = None /\ chunks = None /\ query = None /\ at = None
NoPlan ==
  constraints = None /\ orderBy = None /\ plan = None /\ usage = None /\ found = None

PartsInit ==
  /\ Init /\ OverlayInit /\ StorageInit
  /\ part = "overlay" \/ shape = "absent"
  /\ part = "storage" \/ ~textKey
  /\ \/ /\ part \in {"coordinator", "overlay", "storage"}
        /\ phase = None /\ outcome = None /\ NoQuery /\ NoPlan
     \/ part = "query" /\ Query!Init /\ NoPlan
     \/ part = "plan" /\ Plan!Init /\ NoQuery

Coordinate ==
  part = "coordinator" /\ Next /\ UNCHANGED <<part, overlayVars, storageVars, ofBoth>>

UseOverlay ==
  part = "overlay" /\ OverlayNext /\ UNCHANGED <<part, vars, storageVars, ofBoth>>

UseTable ==
  part = "storage" /\ StorageNext /\ UNCHANGED <<part, vars, overlayVars, ofBoth>>

AskTable ==
  /\ \/ part = "query" /\ Query!Next /\ UNCHANGED ofPlan
     \/ part = "plan" /\ Plan!Next /\ UNCHANGED ofQuery
  /\ UNCHANGED <<part, vars, overlayVars, storageVars>>

PartsNext == Coordinate \/ UseOverlay \/ UseTable \/ AskTable

PartsSpec == PartsInit /\ [][PartsNext]_partVars

\* Callers and keys of the coordinator are alike.
Symmetry == Permutations({c1, c2, c3}) \cup Permutations({k1, k2, k3})

(***************************************************************************)
(* The properties of queries and plans, each where it applies; those of    *)
(* the coordinator, the overlay and the storage are their own.             *)
(***************************************************************************)

\* A KNN query gives the k nearest of the rows it is about, the other plans all rows.
QueriesAreExact == part = "query" => Query!QueriesAreExact

\* What vec0Filter reads from idxStr is what vec0BestIndex was asked for.
PlanIsCarriedOut == part = "plan" => Plan!PlanIsCarriedOut
=============================================================================
