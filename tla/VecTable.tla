------------------------------ MODULE VecTable ------------------------------
(***************************************************************************)
(* What a vec0 table promises to the statements that use it: a table of    *)
(* rows under rowids, changed by one row per statement, with transactions. *)
(* A statement is asked for and then either carried out as a whole and     *)
(* answered "ok", or refused as a whole and answered "error".  Nothing is  *)
(* said of chunks, of bitmaps or of the shadow tables that store the rows. *)
(***************************************************************************)
EXTENDS Functions

CONSTANTS
  Rowid,         \* the rowids of the table
  WellTyped(_, _),  \* the statements whose values have the types of their columns,
                 \* in a table with or without a text key
  NoValue,       \* the columns an UPDATE does not name, and the key of an
                 \* INSERT that lets the table choose
  NoRequest

VARIABLES
  table,     \* the rows, by their rowids
  saved,     \* the rows when the transaction began
  open,      \* whether a transaction is open
  request,   \* the statement that was asked for
  answer,    \* the answer to the last one
  textKey    \* whether the table has a text primary key

vars == <<table, saved, open, request, answer, textKey>>

\* The key of a row: its text, or else its rowid.
KeyOf(r) == IF textKey THEN table[r].id ELSE r

Init ==
  /\ table = <<>> /\ saved = <<>> /\ open = FALSE
  /\ request = NoRequest /\ answer = "ok"
  /\ textKey \in BOOLEAN

\* A statement is asked for.  An UPDATE and a DELETE are asked of a row there is.
Ask(q) ==
  /\ request = NoRequest
  /\ q.op \in {"update", "delete"} => q.row \in DOMAIN table
  /\ request' = q
  /\ UNCHANGED <<table, saved, open, answer, textKey>>

\* The row an INSERT stores.
RowOf(q) ==
  [id |-> IF textKey THEN q.key ELSE NoValue, part |-> q.part,
   vector |-> q.vector, aux |-> q.aux, text |-> q.text]

Change(old, new) == IF new = NoValue THEN old ELSE new

\* The row an UPDATE leaves: the named columns and no others are changed.
Changed(row, q) ==
  [row EXCEPT !.vector = Change(@, q.vector),
              !.aux = Change(@, q.aux),
              !.text = Change(@, q.text)]

\* An INSERT adds one row, under a key no other row has.
Inserted(q) ==
  /\ q.op = "insert"
  /\ \E r \in Rowid \ DOMAIN table :
       /\ ~textKey /\ q.key # NoValue => r = q.key
       /\ textKey => \A s \in DOMAIN table : table[s].id # q.key
       /\ table' = [s \in DOMAIN table \cup {r} |-> IF s = r THEN RowOf(q) ELSE table[s]]

\* An UPDATE changes its row; it moves it neither to another partition nor, where
\* the key is a text, to another key.
Updated(q) ==
  /\ q.op = "update"
  /\ q.part = NoValue
  /\ textKey => q.key \in {NoValue, KeyOf(q.row)}
  /\ table' = [table EXCEPT ![q.row] = Changed(@, q)]

Deleted(q) ==
  /\ q.op = "delete"
  /\ table' = Restrict(table, DOMAIN table \ {q.row})

CarryOut ==
  /\ request # NoRequest /\ WellTyped(request, textKey)
  /\ Inserted(request) \/ Updated(request) \/ Deleted(request)
  /\ request' = NoRequest /\ answer' = "ok"
  /\ UNCHANGED <<saved, open, textKey>>

Refuse ==
  /\ request # NoRequest
  /\ request' = NoRequest /\ answer' = "error"
  /\ UNCHANGED <<table, saved, open, textKey>>

Begin ==
  /\ ~open /\ request = NoRequest
  /\ open' = TRUE /\ saved' = table
  /\ UNCHANGED <<table, request, answer, textKey>>

Commit ==
  /\ open /\ request = NoRequest
  /\ open' = FALSE /\ saved' = <<>>
  /\ UNCHANGED <<table, request, answer, textKey>>

Rollback ==
  /\ open /\ request = NoRequest
  /\ open' = FALSE /\ table' = saved /\ saved' = <<>>
  /\ UNCHANGED <<request, answer, textKey>>

\* Any statement may be asked for: the request of the next state is the one.
Next ==
  \/ request' # NoRequest /\ Ask(request')
  \/ CarryOut \/ Refuse \/ Begin \/ Commit \/ Rollback

Spec == Init /\ [][Next]_vars
=============================================================================
