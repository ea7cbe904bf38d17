-------------------------------- MODULE MCVec --------------------------------
(***************************************************************************)
(* The tables, constraints and queries the modules of the queries of a     *)
(* vector table are checked with.                                          *)
(***************************************************************************)
EXTENDS Naturals, Sequences, TLC

CONSTANTS NaN, Unknown, NoInteger

(***************************************************************************)
(* VecQuery: two chunks of two rows, deleted ones among them, at distances *)
(* that are equal, different or not a number; and one row of every text up *)
(* to one character more than a view holds.                                *)
(***************************************************************************)
Slot(r, d, number, text) == [rowid |-> r, distance |-> d, number |-> number, text |-> text]
Chunk(part, validity, first, second) ==
  [part |-> part, validity |-> validity, rows |-> 0 :> first @@ 1 :> second]
Distances == {0, 1, NaN}

Tables ==
  {<<Chunk(1, v1, Slot(1, d1, 0, <<>>), Slot(2, d2, 1, <<>>)),
     Chunk(2, v2, Slot(3, d3, n3, <<>>), Slot(4, d4, 1, <<>>))>> :
     v1 \in {{1}, {0, 1}}, v2 \in SUBSET {0, 1}, n3 \in {0, 2},
     d1 \in Distances, d2 \in Distances, d3 \in Distances, d4 \in {1, NaN}}

Constraint(kind, op, numbers, texts) ==
  [kind |-> kind, op |-> op, numbers |-> numbers, texts |-> texts]
Knn(k, keys, where) ==
  [plan |-> "knn", k |-> k, fits |-> TRUE, keys |-> keys, where |-> where]

Wheres ==
  {{Constraint("partition", "EQ", {1}, {})}, {Constraint("partition", "GT", {1}, {})},
   {Constraint("integer", "NE", {0}, {})}, {Constraint("integer", "IN", {0, 2}, {})},
   {Constraint("boolean", "EQ", {2}, {})}, {Constraint("boolean", "EQ", {8}, {})},
   {Constraint("integer", "GE", {NoInteger}, {})}, {Constraint("boolean", "NE", {NoInteger}, {})}, {Constraint("integer", "LE", {1}, {})},
   {Constraint("boolean", "NE", {1}, {}), Constraint("partition", "LE", {1}, {})}}

Queries ==
  {Knn(k, {}, {}) : k \in {0 - 1, 0, 1, 2, 3, 4, 5}}
  \cup {Knn(2, {}, where) : where \in Wheres}
  \cup {Knn(2, keys, {}) : keys \in {{2, 3}, {1}, {9}, {Unknown, 2}}}
  \cup {[Knn(2, {}, {}) EXCEPT !.fits = FALSE], [Knn(0, {}, {}) EXCEPT !.plan = "fullscan"]}
  \cup {[Knn(0, {r}, {}) EXCEPT !.plan = "point"] : r \in {2, 9}}

Texts == UNION {[1 .. n -> {1, 2}] : n \in 0 .. 3}
TextTables ==
  {<<Chunk(1, {0}, Slot(1, 0, 0, text), Slot(2, 0, 0, <<>>))>> : text \in Texts}
TextQueries ==
  {Knn(1, {}, {Constraint("text", op, {}, {text})}) :
     op \in {"EQ", "NE", "GT", "GE", "LT", "LE"}, text \in Texts}
  \cup {Knn(1, {}, {Constraint("text", "IN", {}, {text, <<1, 1, 2>>, <<2>>})}) : text \in Texts}

QueryInputs ==
  [chunks : Tables, query : Queries] \cup [chunks : TextTables, query : TextQueries]

(***************************************************************************)
(* VecPlan: any two constraints of a pool with any ORDER BY, and three of  *)
(* it beside MATCH and k = ?.                                              *)
(***************************************************************************)
Where(column, index, op, value) ==
  [column |-> column, index |-> index, op |-> op, usable |-> TRUE, value |-> value]
Match == Where("vector", 0, "MATCH", "q")
OtherMatch == Where("vector", 1, "MATCH", "r")
KIs == Where("k", 0, "EQ", "k")

Pool ==
  {Match, OtherMatch, KIs, Where("none", 0, "LIMIT", "limit"),
   Where("id", 0, "IN", "ids"), Where("id", 0, "EQ", "id"),
   Where("partition", 0, "EQ", "p0"), Where("partition", 1, "GT", "p1"),
   Where("partition", 0, "LIKE", "p2"), Where("partition", 1, "IN", "p3"),
   Where("integer", 0, "GE", "n0"), Where("integer", 0, "IN", "n1"),
   Where("boolean", 1, "NE", "b0"), Where("boolean", 1, "LT", "b1"),
   Where("text", 2, "LIKE", "t0"), Where("text", 2, "EQ", "t1"), Where("float", 3, "IN", "f0"),
   Where("aux", 0, "EQ", "a0"), Where("distance", 0, "LT", "d0"),
   [Match EXCEPT !.usable = FALSE],
   [Where("integer", 0, "EQ", "n2") EXCEPT !.usable = FALSE]}

Order(column, desc) == <<[column |-> column, desc |-> desc]>>
Orders == {<<>>, Order("distance", FALSE), Order("distance", TRUE), Order("id", FALSE)}

PlanInputs ==
  [constraints : UNION {[1 .. n -> Pool] : n \in 0 .. 2}, orderBy : Orders]
  \cup [constraints : {<<a, OtherMatch, b, KIs, c>> : a \in Pool, b \in Pool, c \in Pool}, orderBy : {<<>>}]
=============================================================================
