------------------------------ MODULE VecQuery ------------------------------
(***************************************************************************)
(* A query of a vec0 table of sqlite-vec.c: the nearest neighbours of a    *)
(* vector under constraints, all rows, or one row.  The first is what the  *)
(* retrieval asks.  vec0Filter_knn goes through the chunks one by one: it  *)
(* narrows the validity bitmap by the constraints, takes the k least       *)
(* distances of the chunk and merges them into the k least so far; then    *)
(* the cursor hands the rows out one at a time.                            *)
(*                                                                         *)
(* A row is its rowid, its distance to the query vector and its metadata:  *)
(* a number and a text.  A distance may be NaN, which compares with        *)
(* nothing.  Texts are sequences of characters, 0 being the end.           *)
(***************************************************************************)
EXTENDS Integers, Sequences, SequencesExt

CONSTANTS
  ChunkSize,      \* chunk_size
  ViewLength,     \* VEC0_METADATA_TEXT_VIEW_DATA_LENGTH, 12 in the code
  IntRange,       \* how many values a C int has, 2^32
  MaxK,           \* SQLITE_VEC_VEC0_K_MAX, 4096 in the code
  NaN,
  Unknown,        \* a key no row has
  NoInteger,      \* a bound that is no integer: 0.5, NULL or 'x'
  Inputs          \* the tables and the queries asked of them

VARIABLES
  chunks,    \* the chunks of the table
  query,     \* its plan, its values and its constraints
  pc,
  at,        \* the chunk vec0_chunks_iter is at
  rows,      \* topk_rowids and topk_distances, k_used of them; of the other
             \* plans the rows they go through
  current,   \* current_idx
  answer     \* what the statement returns

vars == <<chunks, query, pc, at, rows, current, answer>>

Offset == 0 .. ChunkSize - 1
Offsets == [n \in 1 .. ChunkSize |-> n - 1]
Least(a, b) == IF a <= b THEN a ELSE b

(***************************************************************************)
(* The least k of a chunk, and the merge of two sorted lists.              *)
(***************************************************************************)
\* C's <= on distances
Leq(a, b) == a # NaN /\ b # NaN /\ a <= b

\* One round of min_idx: the first candidate that is not taken, and then, in order,
\* each that is no greater than the last one chosen.
Pick(distances, left) ==
  LET first == CHOOSE o \in left : \A x \in left : o <= x
      better(chosen, o) == IF o \in left /\ Leq(distances[o], distances[chosen]) THEN o ELSE chosen
  IN  FoldLeft(better, first, Offsets)

\* min_idx: the offsets it writes to out.  They are fewer than k when the candidates
\* run out.
MinIdx(distances, candidates, k) ==
  LET round(out, n) ==
        LET left == candidates \ ToSet(out)
        IN  IF left = {} THEN out ELSE Append(out, Pick(distances, left))
  IN  FoldLeft(round, <<>>, [n \in 1 .. k |-> n])

\* merge_sorted_lists: the least of the two heads, the first list's when they are
\* equal, until length entries are out or both lists are at their ends.
Merge(a, b, length) ==
  LET step(m, n) ==
        LET i == m.a + 1  j == m.b + 1
            fromA == /\ i <= Len(a)
                     /\ j > Len(b) \/ Leq(a[i].distance, b[j].distance)
        IN  IF i > Len(a) /\ j > Len(b) THEN m
            ELSE IF fromA THEN [m EXCEPT !.a = i, !.out = Append(@, a[i])]
            ELSE [m EXCEPT !.b = j, !.out = Append(@, b[j])]
  IN  FoldLeft(step, [a |-> 0, b |-> 0, out |-> <<>>], [n \in 1 .. length |-> n]).out

(***************************************************************************)
(* The constraints.                                                        *)
(***************************************************************************)
RangeOps == {"GT", "GE", "LT", "LE"}

Compares(op, a, b) ==
  \/ op = "EQ" /\ a = b
  \/ op = "NE" /\ a # b
  \/ op = "GT" /\ a > b
  \/ op = "GE" /\ a >= b
  \/ op = "LT" /\ a < b
  \/ op = "LE" /\ a <= b

\* strncmp
Char(text, i) == IF i <= Len(text) THEN text[i] ELSE 0
StrNCmp(s, t, n) ==
  LET differ == {i \in 1 .. n : Char(s, i) # Char(t, i)}
  IN  IF differ = {} THEN 0
      ELSE LET i == CHOOSE i \in differ : \A x \in differ : i <= x
           IN  Char(s, i) - Char(t, i)

\* The view of a text in the metadata chunk holds its length and its first
\* characters; _metadatatext holds the whole of a text that is longer than a view.
View(text) == SubSeq(text, 1, Least(Len(text), ViewLength))
HasLongValue(text) == Len(text) > ViewLength

\* vec0_metadata_filter_text for =, != and IN: the lengths, the prefix, and for a long
\* text the whole.
TextEquals(text, target) ==
  /\ Len(text) = Len(target)
  /\ StrNCmp(View(text), target, Least(Len(text), ViewLength)) = 0
  /\ HasLongValue(text) => StrNCmp(text, target, Len(text)) = 0

\* vec0_metadata_filter_text for <, <=, > and >=.  The code tells short from long by <
\* where it stores by <=: a text just as long as a view is looked up in _metadatatext.
LooksUpLongValue(op, text) == op \in RangeOps /\ Len(text) >= ViewLength
TextCompares(op, text, target) ==
  LET n == Len(text)  m == Len(target)
      prefix == StrNCmp(View(text), target, Least(Least(n, ViewLength), m))
  IN  IF ~LooksUpLongValue(op, text)
      THEN IF prefix = 0 THEN Compares(op, n, m) ELSE Compares(op, prefix, 0)
      ELSE Compares(op, StrNCmp(text, target, n), 0)

TextMatches(c, text) ==
  \E target \in c.texts :
    CASE c.op \in {"EQ", "IN"} -> TextEquals(text, target)
      [] c.op = "NE" -> ~TextEquals(text, target)
      [] OTHER -> TextCompares(c.op, text, target)

\* sqlite3_value_int64 of a bound, and sqlite3_value_int, which keeps its low bits.
Int64(bound) == IF bound = NoInteger THEN 0 ELSE bound
CInt(bound) == Int64(bound) % IntRange

\* vec0_set_metadata_filter_bitmap: a boolean column knows = and != only and takes
\* every number but 0 for true.
NumberMatches(c, number) ==
  \E bound \in c.numbers : Compares(IF c.op = "IN" THEN "EQ" ELSE c.op, number, Int64(bound))
BooleanMatches(c, number) ==
  \E bound \in c.numbers :
    LET target == CInt(bound)
    IN  IF (target # 0 /\ c.op = "EQ") \/ (target = 0 /\ c.op = "NE")
        THEN number # 0 ELSE number = 0

Matches(c, row) ==
  CASE c.kind = "text" -> TextMatches(c, row.text)
    [] c.kind = "integer" -> NumberMatches(c, row.number)
    [] c.kind = "boolean" -> BooleanMatches(c, row.number)

\* The bitmap is computed for all offsets, those of deleted rows included, and a
\* long value that is looked up and is not there is an error.
Bitmap(c, chunk) == {o \in Offset : Matches(c, chunk.rows[o])}
BitmapFails(c, chunk) ==
  /\ c.kind = "text"
  /\ \E o \in Offset : LooksUpLongValue(c.op, chunk.rows[o].text) /\ ~HasLongValue(chunk.rows[o].text)

MetadataConstraints == {c \in query.where : c.kind # "partition"}

\* vec0_chunks_iter: the chunks whose partition keys satisfy the constraints on them.
\* It is a statement of SQL, which compares the bounds as they are.
ChunksIter ==
  {n \in DOMAIN chunks : \A c \in query.where :
     c.kind = "partition" => \E bound \in c.numbers : Compares(c.op, chunks[n].part, bound)}
Later == {n \in ChunksIter : n > at}

\* _cmp returns the difference of two rowids as an int.  (bsearch in a list it does
\* not order may miss a rowid as well; the lists of more than one key are narrow.)
Cmp(a, b) == ((a - b + IntRange \div 2) % IntRange) - IntRange \div 2
Found(r) == \E s \in query.keys : Cmp(r, s) = 0

\* Mutant: the offsets of deleted rows stay in.
CandidateRowsUnmasked(chunk) ==
  {o \in Offset : \A c \in MetadataConstraints : o \in Bitmap(c, chunk)}

\* The bits that are left of a chunk's validity.  No keys stand for no "rowid in".
CandidateRows(chunk) ==
  {o \in chunk.validity :
     /\ query.keys # {} => Found(chunk.rows[o].rowid)
     /\ \A c \in MetadataConstraints : o \in Bitmap(c, chunk)}

-----------------------------------------------------------------------------
End(result) == pc' = "done" /\ answer' = result
HandOut(list) == rows' = list /\ current' = 0 /\ pc' = "rows"

\* vec0Filter_knn up to its first chunk.  A key of a text primary key that no row has
\* ends it with the outer rc, which is SQLITE_OK: the cursor has no rows.
FilterKnn ==
  /\ pc = "filter" /\ query.plan = "knn"
  /\ IF ~query.fits \/ query.k < 0 \/ query.k > MaxK
     THEN End("error") /\ UNCHANGED <<rows, current>>
     ELSE IF query.k = 0 \/ Unknown \in query.keys
     THEN HandOut(<<>>) /\ UNCHANGED answer
     ELSE pc' = "chunk" /\ UNCHANGED <<rows, current, answer>>
  /\ UNCHANGED <<chunks, query, at>>

\* vec0Filter_knn_chunks_iter, one chunk.
FilterChunk ==
  /\ pc = "chunk" /\ Later # {}
  /\ LET n == CHOOSE n \in Later : \A m \in Later : n <= m
         chunk == chunks[n]
         distances == [o \in Offset |-> chunk.rows[o].distance]
         entry(o) == [rowid |-> chunk.rows[o].rowid, distance |-> distances[o]]
         out == MinIdx(distances, CandidateRows(chunk), Least(query.k, ChunkSize))
     IN  /\ at' = n
         /\ IF \E c \in MetadataConstraints : BitmapFails(c, chunk)
            THEN End("error") /\ UNCHANGED rows
            ELSE /\ rows' = Merge(rows, [i \in DOMAIN out |-> entry(out[i])], query.k)
                 /\ UNCHANGED <<pc, answer>>
  /\ UNCHANGED <<chunks, query, current>>

EndChunks ==
  /\ pc = "chunk" /\ Later = {}
  /\ HandOut(rows) /\ UNCHANGED <<chunks, query, at, answer>>

\* The rows as _rowids has them, by chunk and offset.
RowsInOrder ==
  LET inChunk(n) == SelectSeq([o \in 1 .. ChunkSize |-> [chunk |-> n, offset |-> o - 1]],
                              LAMBDA p : p.offset \in chunks[n].validity)
      positions == FoldLeft(LAMBDA list, n : list \o inChunk(n), <<>>, [n \in DOMAIN chunks |-> n])
  IN  [i \in DOMAIN positions |-> chunks[positions[i].chunk].rows[positions[i].offset].rowid]

Entry(r) == [rowid |-> r, distance |-> NaN]

\* vec0Filter_fullscan and vec0Filter_point: all rows, or the row of a key.  The
\* constraints on them are SQLite's to apply.
FilterFullscan ==
  /\ pc = "filter" /\ query.plan = "fullscan"
  /\ HandOut([i \in DOMAIN RowsInOrder |-> Entry(RowsInOrder[i])])
  /\ UNCHANGED <<chunks, query, at, answer>>

FilterPoint ==
  /\ pc = "filter" /\ query.plan = "point"
  /\ \E r \in query.keys : HandOut(IF r \in ToSet(RowsInOrder) THEN <<Entry(r)>> ELSE <<>>)
  /\ UNCHANGED <<chunks, query, at, answer>>

\* vec0Next, and vec0Eof that ends the statement.
NextRow ==
  /\ pc = "rows" /\ current < Len(rows)
  /\ current' = current + 1 /\ UNCHANGED <<chunks, query, pc, at, rows, answer>>

Eof ==
  /\ pc = "rows" /\ current >= Len(rows)
  /\ End("ok") /\ UNCHANGED <<chunks, query, at, rows, current>>

Init ==
  /\ \E input \in Inputs : chunks = input.chunks /\ query = input.query
  /\ pc = "filter" /\ at = 0 /\ rows = <<>> /\ current = 0 /\ answer = "none"

Next ==
  \/ FilterKnn \/ FilterChunk \/ EndChunks \/ FilterFullscan \/ FilterPoint
  \/ NextRow \/ Eof

Spec == Init /\ [][Next]_vars

-----------------------------------------------------------------------------
(***************************************************************************)
(* Properties.                                                             *)
(***************************************************************************)
Positions == {p \in (DOMAIN chunks) \X Offset : p[2] \in chunks[p[1]].validity}
RowAt(p) == chunks[p[1]].rows[p[2]]

\* What a constraint means: texts in lexicographic order, truth as a number but 0.
Means(c, part, row) ==
  CASE c.kind = "partition" -> \E t \in c.numbers : Compares(c.op, part, t)
    [] c.kind = "integer" -> \E t \in c.numbers : Compares(IF c.op = "IN" THEN "EQ" ELSE c.op, row.number, t)
    [] c.kind = "boolean" -> \E t \in c.numbers : Compares(c.op, row.number # 0, t # 0)
    [] c.kind = "text" -> \E t \in c.texts :
         Compares(IF c.op = "IN" THEN "EQ" ELSE c.op, StrNCmp(row.text, t, Len(row.text) + Len(t)), 0)

Eligible ==
  {RowAt(p) : p \in {x \in Positions :
     /\ query.keys # {} => RowAt(x).rowid \in query.keys
     /\ \A c \in query.where : Means(c, chunks[x[1]].part, RowAt(x))}}

\* What the code decides otherwise than SQL: a range over a text as long as a view,
\* or over a longer one that is the start of the target; rowids that differ by more
\* than an int; an unknown text key; a bound on an integer or a boolean column that is
\* no integer, or one on a boolean column that is not 0 but has no low bits.
Decided ==
  /\ Unknown \notin query.keys
  /\ \A p \in Positions : \A s \in query.keys : Cmp(RowAt(p).rowid, s) = RowAt(p).rowid - s
  /\ \A c \in query.where : \A bound \in c.numbers :
       /\ bound # NoInteger
       /\ c.kind = "boolean" => (CInt(bound) = 0) = (bound = 0)
  /\ \A n \in DOMAIN chunks, o \in Offset, c \in query.where :
       c.kind = "text" /\ c.op \in RangeOps =>
         LET text == chunks[n].rows[o].text
         IN  /\ Len(text) # ViewLength
             /\ HasLongValue(text) => \A t \in c.texts : text = t \/ ~IsPrefix(text, t)

Refused == ~query.fits \/ query.k < 0 \/ query.k > MaxK
Given == {rows[i].rowid : i \in DOMAIN rows}
Answered == pc = "done" /\ query.plan = "knn" /\ Decided /\ ~Refused

\* A KNN query gives the k nearest of the eligible rows, nearest first, each once,
\* and nothing else; fewer only when there are no more.
NearestFirst ==
  /\ \A i, j \in DOMAIN rows : i < j => rows[i].distance <= rows[j].distance
  /\ \A row \in Eligible : row.rowid \notin Given => \A i \in DOMAIN rows : rows[i].distance <= row.distance

\* It is never an error, and whatever the distances are, no row comes twice or is not
\* eligible, and the merge of the chunks loses none when k has room for all.
KnnIsExact ==
  Answered =>
    /\ answer = "ok"
    /\ Len(rows) = Cardinality(Given)
    /\ Len(rows) = Least(query.k, Cardinality(Eligible))
    /\ \A i \in DOMAIN rows : \E row \in Eligible :
         row.rowid = rows[i].rowid /\ row.distance = rows[i].distance
    /\ (\A row \in Eligible : row.distance # NaN) => NearestFirst

\* The other plans go through every row, or the one asked for, once.
ScansAreComplete ==
  pc = "done" /\ query.plan # "knn" =>
    /\ Len(rows) = Cardinality(Given)
    /\ Given = {RowAt(p).rowid : p \in {x \in Positions : query.keys # {} => RowAt(x).rowid \in query.keys}}

QueriesAreExact == KnnIsExact /\ ScansAreComplete

\* "for each chunk, get top min(k, chunk_size) rowid + distances to query vec. then
\* reconcile all topk_chunks for a true top k": when all distances handed out are
\* numbers, no eligible row is nearer than the last of them.
TrueTopK ==
  Answered /\ (\A i \in DOMAIN rows : rows[i].distance # NaN) =>
    \A row \in Eligible : row.rowid \notin Given =>
      \A i \in DOMAIN rows : row.distance = NaN \/ rows[i].distance <= row.distance
=============================================================================
