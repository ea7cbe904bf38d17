-------------------------------- MODULE Vec0 --------------------------------
(***************************************************************************)
(* The storage of a vec0 table of sqlite-vec.c, the table the retrieval    *)
(* keeps its candidate vectors in.  A row lives in several shadow tables:  *)
(* _rowids gives its key and its position; the chunk at that position has  *)
(* a validity bit and its rowid, the vector chunk its vector, the metadata *)
(* chunk a view of its text (a long text is in _metadatatext as well), and *)
(* _auxiliary its auxiliary value.  A query by rowid starts from _rowids,  *)
(* a nearest-neighbour query from the validity bits: the two must agree.   *)
(*                                                                         *)
(* A statement is one call of vec0Update, and every write of it to a       *)
(* shadow table is a step, which may fail.  SQLite (external) undoes the   *)
(* writes of a failed statement that runs alone, but not those of one in a *)
(* transaction: there it is up to the application to roll back, as          *)
(* withTransaction does.                                                   *)
(*                                                                         *)
(* The table has one column of each kind.  A table without partition key   *)
(* is one whose rows have all the same.                                    *)
(***************************************************************************)
EXTENDS Naturals, Sequences, FiniteSets, Functions, FiniteSetsExt

CONSTANTS
  ChunkSize, ByteBits,       \* rows of a chunk (chunk_size), bits of a byte
  Id,                        \* the texts of a text primary key
  Long,                      \* the texts too long for a view
  NewRow, NewValues,         \* the values the INSERTs and UPDATEs give
  NoValue, Null, Blank, Cut, BadType,
  Nothing,
  MaxRowid, MaxChunk, MaxStatement, MaxFault  \* bounds

VARIABLES
  db,         \* the shadow tables
  saved,      \* the shadow tables when the transaction began
  before,     \* the shadow tables when the statement began
  open,       \* whether a transaction is open
  textKey,    \* pkIsText
  step,       \* the step the statement is at
  stmt,       \* the statement and its values
  place,      \* its rowid and position, and whether the text there was long
  buffer,     \* bufferChunksValidity: the validity bits as it read them
  told,       \* what the last statement returned
  statements, faults         \* counters for the bounds

storageVars == <<db, saved, before, open, textKey, step, stmt, place, buffer, told,
                 statements, faults>>

\* The statements.  vec0Update tells them apart by its arguments.
Asked(op, r, q) ==
  [op |-> op, row |-> r, key |-> q.key, part |-> q.part, vector |-> q.vector,
   aux |-> q.aux, text |-> q.text]
Insertion(q) == Asked("insert", 0, q)
Deletion(r) == [op |-> "delete", key |-> NoValue, row |-> r]
Revision(r, q) == Asked("update", r, q)
Statement ==
  {Insertion(q) : q \in NewRow} \cup {Deletion(r) : r \in 1 .. MaxRowid}
  \cup {Revision(r, q) : r \in 1 .. MaxRowid, q \in NewValues}

VecConstants ==
  /\ ByteBits \in Nat \ {0} /\ ChunkSize \in Nat \ {0} /\ ChunkSize % ByteBits = 0
  /\ {MaxRowid, MaxChunk, MaxStatement, MaxFault} \subseteq Nat
  /\ Cut \notin Long /\ Blank \notin Long /\ NoValue \notin Id \cup {BadType, Null}
  /\ \A q \in NewRow \cup NewValues : q.text # Cut
  /\ \A q \in NewRow : q.key \in Id \cup {NoValue} \cup 1 .. MaxRowid
  /\ Nothing \notin Statement

Offset == 0 .. ChunkSize - 1

\* The offsets whose bits are in the byte of the bitmap that holds o's.
ByteOf(o) == {x \in Offset : x \div ByteBits = o \div ByteBits}

(***************************************************************************)
(* The shadow tables.  Chunks, vector chunks and metadata chunks are never *)
(* deleted, so their rowids count from 1: sqlite3_blob_open takes those    *)
(* rowids.  (The column named rowid that the code fills is another one.)   *)
(***************************************************************************)
EmptyTables ==
  [rowids |-> <<>>, lastRowid |-> 0, chunks |-> <<>>, vectors |-> <<>>,
   views |-> <<>>, texts |-> <<>>, aux |-> <<>>]

\* vec0_get_chunk_position: the key and position of a row.  A row that has none
\* yet is at chunk 0, which does not exist.
ChunkPosition(d, r) == d.rowids[r]
NoPosition(id) == [id |-> id, chunk |-> 0, offset |-> 0]

\* vec0_rowid_from_id
RowidsOf(d, id) == {r \in DOMAIN d.rowids : d.rowids[r].id = id}

\* The row at a position, part by part.
PartitionValue(d, r) == d.chunks[ChunkPosition(d, r).chunk].part
VectorData(d, r) == LET p == ChunkPosition(d, r) IN d.vectors[p.chunk][p.offset]
AuxiliaryValue(d, r) == d.aux[r]
MetadataValue(d, r) ==
  LET p == ChunkPosition(d, r)  view == d.views[p.chunk][p.offset]
  IN  IF view # Cut THEN view ELSE IF r \in DOMAIN d.texts THEN d.texts[r] ELSE Nothing

\* The row as a query by rowid reads it.
RowOf(d, r) ==
  [id |-> d.rowids[r].id, part |-> PartitionValue(d, r), vector |-> VectorData(d, r),
   aux |-> AuxiliaryValue(d, r), text |-> MetadataValue(d, r)]

\* What the view stores of a text.
ViewOf(text) == IF text \in Long THEN Cut ELSE text

(***************************************************************************)
(* The writes to the shadow tables.                                        *)
(***************************************************************************)
\* f with a value at x.
With(f, x, v) == [y \in DOMAIN f \cup {x} |-> IF y = x THEN v ELSE f[y]]

\* vec0_rowids_insert_rowid and vec0_rowids_insert_id: a new row of _rowids, under
\* a supplied rowid or under the next one, which AUTOINCREMENT never reuses.
RowidsInsertRowid(d, r) ==
  [d EXCEPT !.rowids = With(@, r, NoPosition(NoValue)),
            !.lastRowid = IF r > @ THEN r ELSE @]
RowidsInsertId(d, id) ==
  [d EXCEPT !.rowids = With(@, d.lastRowid + 1, NoPosition(id)),
            !.lastRowid = @ + 1]

\* Mutant: the offset is not stored.
RowidsUpdateChunk(d, r, c, o) == [d EXCEPT !.rowids[r].chunk = c]

\* vec0_rowids_update_position
RowidsUpdatePosition(d, r, c, o) ==
  [d EXCEPT !.rowids[r].chunk = c, !.rowids[r].offset = o]

\* vec0_get_latest_chunk_rowid: the latest chunk of the partition; no chunk equals
\* a NULL key.
ChunksOfPart(d, part) ==
  {c \in DOMAIN d.chunks : part # Null /\ d.chunks[c].part = part}

\* vec0_new_chunk, its three inserts
NewChunk(d, part) ==
  [d EXCEPT !.chunks = Append(@,
     [part |-> part, validity |-> {}, rowids |-> [o \in Offset |-> 0]])]
NewVectorChunk(d) == [d EXCEPT !.vectors = Append(@, [o \in Offset |-> Blank])]
NewMetadataChunk(d) == [d EXCEPT !.views = Append(@, [o \in Offset |-> Blank])]

\* Mutant: bits are set and never cleared.
BitsSet(validity, o, bits) == validity \cup bits

\* The one byte that a statement writes back to a bitmap, with bits of its own.
ByteWritten(validity, o, bits) == (validity \ ByteOf(o)) \cup bits

-----------------------------------------------------------------------------
(***************************************************************************)
(* A statement: how it begins, moves on, and ends.                         *)
(***************************************************************************)
Rest == <<saved, open, textKey, statements>>
Kept == <<stmt, before>>

\* One write that succeeds, and the step that follows it.
Write(d, next) == db' = d /\ step' = next /\ UNCHANGED told

Forget ==
  /\ stmt' = Nothing /\ before' = EmptyTables /\ place' = Nothing /\ buffer' = {}

Succeed(d) ==
  /\ db' = d /\ step' = "idle" /\ told' = "ok" /\ Forget /\ UNCHANGED <<Rest, faults>>

\* vec0Update returns an error.  SQLite opens no statement journal for a single
\* row: alone, the statement is a transaction of its own and is undone; in a
\* transaction what it wrote stays.
Fail ==
  /\ told' = "error"
  /\ IF open THEN /\ step' = "failed" /\ UNCHANGED <<db, stmt, before, place, buffer>>
             ELSE /\ db' = before /\ step' = "idle" /\ Forget
  /\ UNCHANGED Rest

Start(q, first) ==
  /\ step = "idle" /\ statements < MaxStatement
  /\ stmt' = q /\ before' = db /\ step' = first
  /\ place' = [rowid |-> 0, chunk |-> 0, offset |-> 0, long |-> FALSE]
  /\ statements' = statements + 1
  /\ UNCHANGED <<db, saved, open, textKey, buffer, told, faults>>

\* The checks of vec0Update_Insert before it writes anything.
ChecksBeforeInsert(q) == q.part # BadType /\ q.vector # BadType

\* Bounds: the rowids and the chunks an INSERT may come to need.
WithinBounds(q) ==
  /\ textKey \/ q.key = NoValue => db.lastRowid < MaxRowid
  /\ \/ Len(db.chunks) < MaxChunk
     \/ \E c \in ChunksOfPart(db, q.part) : db.chunks[c].validity # Offset

\* The three statements, asked of rows there are.
StartInsert ==
  \E q \in NewRow :
    /\ WithinBounds(q)
    /\ Start(Insertion(q), IF ChecksBeforeInsert(q) THEN "insertRowid" ELSE "refuse")

StartDelete ==
  \E r \in DOMAIN db.rowids : Start(Deletion(r), "clearValidity")

StartUpdate ==
  \E r \in DOMAIN db.rowids, q \in NewValues : Start(Revision(r, q), "update")

\* A statement whose values are refused at once.
Refuse == step = "refuse" /\ Fail /\ UNCHANGED faults

(***************************************************************************)
(* INSERT                                                                  *)
(***************************************************************************)
\* A text key must be a text; otherwise the key is an integer or left to the table.
TypedKey(key, isText) == isText <=> key \in Id

\* vec0Update_InsertRowidStep: a text key, a supplied rowid, or the next rowid.
InsertRowidStep ==
  /\ step = "insertRowid"
  /\ IF \/ ~TypedKey(stmt.key, textKey)
        \/ textKey /\ RowidsOf(db, stmt.key) # {}
        \/ ~textKey /\ stmt.key \in DOMAIN db.rowids
     THEN Fail
     ELSE /\ IF textKey \/ stmt.key = NoValue
             THEN /\ Write(RowidsInsertId(db, stmt.key), "nextAvailable")
                  /\ place' = [place EXCEPT !.rowid = db.lastRowid + 1]
             ELSE /\ Write(RowidsInsertRowid(db, stmt.key), "nextAvailable")
                  /\ place' = [place EXCEPT !.rowid = stmt.key]
          /\ UNCHANGED <<Rest, Kept, buffer>>
  /\ UNCHANGED faults

\* vec0Update_InsertNextAvailableStep: the first free offset of the latest chunk of
\* the partition, or the first of a new chunk.  Older chunks are not looked at.
InsertNextAvailableStep ==
  LET found == ChunksOfPart(db, stmt.part)
      latest == Max(found)
      free == Offset \ db.chunks[latest].validity
  IN  /\ step = "nextAvailable"
      /\ IF found # {} /\ free # {}
         THEN /\ place' = [place EXCEPT !.chunk = latest, !.offset = Min(free)]
              /\ buffer' = db.chunks[latest].validity
              /\ Write(db, "validity")
         ELSE /\ Len(db.chunks) < MaxChunk
              /\ place' = [place EXCEPT !.chunk = Len(db.chunks) + 1, !.offset = 0]
              /\ buffer' = {}
              /\ Write(NewChunk(db, stmt.part), "newVectorChunk")
      /\ UNCHANGED <<Rest, Kept, faults>>

NewChunkStep ==
  /\ \/ step = "newVectorChunk" /\ Write(NewVectorChunk(db), "newMetadataChunk")
     \/ step = "newMetadataChunk" /\ Write(NewMetadataChunk(db), "validity")
  /\ UNCHANGED <<Rest, Kept, place, buffer, faults>>

\* vec0Update_InsertWriteFinalStep, its four writes.
InsertValidity ==
  /\ step = "validity"
  /\ Write([db EXCEPT !.chunks[place.chunk].validity =
              ByteWritten(@, place.offset, (buffer \cap ByteOf(place.offset)) \cup {place.offset})],
           "vector")
  /\ UNCHANGED <<Rest, Kept, place, buffer, faults>>

\* A blob that is not there cannot be opened.
InsertVector ==
  /\ step = "vector"
  /\ IF place.chunk \notin DOMAIN db.vectors THEN Fail
     ELSE /\ Write([db EXCEPT !.vectors[place.chunk][place.offset] = stmt.vector], "chunkRowids")
          /\ UNCHANGED <<Rest, Kept, place, buffer>>
  /\ UNCHANGED faults

InsertChunkRowids ==
  /\ step = "chunkRowids"
  /\ Write([db EXCEPT !.chunks[place.chunk].rowids[place.offset] = place.rowid], "position")
  /\ UNCHANGED <<Rest, Kept, place, buffer, faults>>

InsertPosition ==
  /\ step = "position"
  /\ Write(RowidsUpdatePosition(db, place.rowid, place.chunk, place.offset), "aux")
  /\ UNCHANGED <<Rest, Kept, place, buffer, faults>>

\* The auxiliary value, whose type is looked at only now.
InsertAux ==
  /\ step = "aux"
  /\ IF stmt.aux = BadType THEN Fail
     ELSE /\ Write([db EXCEPT !.aux = With(@, place.rowid, stmt.aux)], "metadata")
          /\ UNCHANGED <<Rest, Kept, place, buffer>>
  /\ UNCHANGED faults

\* vec0_write_metadata_value for a text: the view, and then the long text, which is
\* inserted, replaced or deleted by what was there before.
WriteView ==
  LET c == place.chunk  o == place.offset
  IN  /\ step = "metadata"
      /\ IF stmt.text \in {BadType, Null} \/ c \notin DOMAIN db.views THEN Fail
         ELSE /\ place' = [place EXCEPT !.long = db.views[c][o] = Cut]
              /\ Write([db EXCEPT !.views[c][o] = ViewOf(stmt.text)], "text")
              /\ UNCHANGED <<Rest, Kept, buffer>>
      /\ UNCHANGED faults

\* What follows the metadata: an INSERT is over, an UPDATE goes on to its vectors.
AfterText(d) ==
  IF stmt.op = "insert" THEN Succeed(d)
  ELSE Write(d, "updateVector") /\ UNCHANGED <<Rest, Kept, place, buffer, faults>>

WriteText ==
  LET r == place.rowid
      replaces == stmt.op = "update" /\ place.long
  IN  /\ step = "text"
      /\ IF stmt.text \in Long
         THEN IF replaces \* an UPDATE that may find no row to update
              THEN AfterText([db EXCEPT !.texts =
                     [x \in DOMAIN @ |-> IF x = r THEN stmt.text ELSE @[x]]])
              ELSE IF r \in DOMAIN db.texts THEN Fail /\ UNCHANGED faults
              ELSE AfterText([db EXCEPT !.texts = With(@, r, stmt.text)])
         ELSE AfterText(IF place.long THEN [db EXCEPT !.texts = Restrict(@, DOMAIN @ \ {r})]
                        ELSE db)

(***************************************************************************)
(* DELETE                                                                  *)
(***************************************************************************)
\* The row an UPDATE or a DELETE is about, found again by its key.
Target ==
  IF textKey THEN CHOOSE r \in RowidsOf(db, db.rowids[stmt.row].id) : TRUE ELSE stmt.row

Located(r) == [rowid |-> r, chunk |-> ChunkPosition(db, r).chunk,
               offset |-> ChunkPosition(db, r).offset, long |-> FALSE]

\* vec0Update_Delete_ClearValidity.  It refuses a position whose bit and all the bits
\* above it in the byte are clear: it shifts the byte and does not mask it.
DeleteClearValidity ==
  LET c == Located(Target).chunk  o == Located(Target).offset
  IN  /\ step = "clearValidity"
      /\ IF \/ c \notin DOMAIN db.chunks
            \/ \A x \in db.chunks[c].validity \cap ByteOf(o) : x < o
         THEN Fail
         ELSE /\ place' = Located(Target)
              /\ Write([db EXCEPT !.chunks[c].validity =
                          ByteWritten(@, o, (@ \cap ByteOf(o)) \ {o})],
                       "deleteRowids")
              /\ UNCHANGED <<Rest, Kept, buffer>>
      /\ UNCHANGED faults

\* The rowid and the vector stay in the chunk.
DeleteRowids ==
  /\ step = "deleteRowids"
  /\ Write([db EXCEPT !.rowids = Restrict(@, DOMAIN @ \ {place.rowid})], "deleteAux")
  /\ UNCHANGED <<Rest, Kept, place, buffer, faults>>

DeleteAux ==
  /\ step = "deleteAux"
  /\ Write([db EXCEPT !.aux = Restrict(@, DOMAIN @ \ {place.rowid})], "clearView")
  /\ UNCHANGED <<Rest, Kept, place, buffer, faults>>

\* vec0Update_Delete_ClearMetadata: the view, and the long text if there was one.
\* The DELETE does not look at its result.
ClearView ==
  LET c == place.chunk  o == place.offset
  IN  /\ step = "clearView"
      /\ IF c \notin DOMAIN db.views THEN Succeed(db)
         ELSE /\ place' = [place EXCEPT !.long = db.views[c][o] = Cut]
              /\ Write([db EXCEPT !.views[c][o] = Blank], "clearText")
              /\ UNCHANGED <<Rest, Kept, buffer, faults>>

ClearText ==
  /\ step = "clearText"
  /\ Succeed(IF place.long THEN [db EXCEPT !.texts = Restrict(@, DOMAIN @ \ {place.rowid})] ELSE db)

(***************************************************************************)
(* UPDATE                                                                  *)
(***************************************************************************)
\* vec0Update_Update up to its first write.  A text key may not change; a change of
\* an integer key is not looked at.
UpdateChecks ==
  LET changesKey == textKey /\ stmt.key \notin {NoValue, db.rowids[stmt.row].id}
  IN  /\ step = "update"
      /\ IF changesKey \/ stmt.part # NoValue THEN Fail
         ELSE /\ place' = Located(Target) /\ step' = "updateAux"
              /\ UNCHANGED <<db, told, Rest, Kept, buffer>>
      /\ UNCHANGED faults

\* Mutant: the column is written whether the UPDATE names it or not.
UpdateAuxAlways ==
  /\ step = "updateAux"
  /\ Write([db EXCEPT !.aux[place.rowid] = stmt.aux],
           IF stmt.text = NoValue THEN "updateVector" ELSE "metadata")
  /\ UNCHANGED <<Rest, Kept, place, buffer, faults>>

\* vec0Update_UpdateAuxColumn: the type of the value is not looked at.
UpdateAux ==
  LET r == place.rowid  aux == stmt.aux
  IN  /\ step = "updateAux"
      /\ Write(IF aux = NoValue \/ r \notin DOMAIN db.aux THEN db ELSE [db EXCEPT !.aux[r] = aux],
               IF stmt.text = NoValue THEN "updateVector" ELSE "metadata")
      /\ UNCHANGED <<Rest, Kept, place, buffer, faults>>

\* vec0Update_UpdateVectorColumn: a vector of another type or size is found after
\* the other columns have been written.
UpdateVector ==
  LET c == place.chunk
  IN  /\ step = "updateVector"
      /\ IF stmt.vector = NoValue THEN Succeed(db)
         ELSE IF stmt.vector = BadType \/ c \notin DOMAIN db.vectors THEN Fail /\ UNCHANGED faults
         ELSE Succeed([db EXCEPT !.vectors[c][place.offset] = stmt.vector])

-----------------------------------------------------------------------------
\* A write that fails: no memory, a full disk, an interrupt.
Fault ==
  /\ step \notin {"idle", "failed", "refuse", "update"} /\ faults < MaxFault
  /\ faults' = faults + 1
  /\ IF step \in {"clearView", "clearText"}
     THEN step' = "idle" /\ told' = "ok" /\ Forget /\ UNCHANGED <<db, Rest>>
     ELSE Fail

\* Transactions are SQLite's.  The functions the table has for them (vec0Begin,
\* vec0Sync, vec0Commit, vec0Rollback) drop prepared statements and nothing else.
Begin ==
  /\ step = "idle" /\ ~open
  /\ open' = TRUE /\ saved' = db
  /\ UNCHANGED <<db, before, textKey, step, stmt, place, buffer, told, statements, faults>>

Commit ==
  /\ step = "idle" /\ open
  /\ open' = FALSE /\ saved' = EmptyTables
  /\ UNCHANGED <<db, before, textKey, step, stmt, place, buffer, told, statements, faults>>

Rollback ==
  /\ step \in {"idle", "failed"} /\ open
  /\ db' = saved /\ open' = FALSE /\ saved' = EmptyTables /\ step' = "idle" /\ Forget
  /\ UNCHANGED <<textKey, told, statements, faults>>

StorageInit ==
  /\ db = EmptyTables /\ saved = EmptyTables /\ before = EmptyTables
  /\ open = FALSE /\ textKey \in BOOLEAN
  /\ step = "idle" /\ stmt = Nothing /\ place = Nothing /\ buffer = {}
  /\ told = "ok" /\ statements = 0 /\ faults = 0

Insert ==
  \/ StartInsert \/ InsertRowidStep \/ InsertNextAvailableStep \/ NewChunkStep
  \/ InsertValidity \/ InsertVector \/ InsertChunkRowids \/ InsertPosition \/ InsertAux

Delete ==
  \/ StartDelete \/ DeleteClearValidity \/ DeleteRowids \/ DeleteAux
  \/ ClearView \/ ClearText

Update == StartUpdate \/ UpdateChecks \/ UpdateAux \/ UpdateVector

StorageNext ==
  \/ Insert \/ Delete \/ Update \/ WriteView \/ WriteText
  \/ Refuse \/ Fault \/ Begin \/ Commit \/ Rollback

StorageSpec == StorageInit /\ [][StorageNext]_storageVars

-----------------------------------------------------------------------------
(***************************************************************************)
(* Properties.                                                             *)
(***************************************************************************)
Position == [id : Id \cup {NoValue}, chunk : 0 .. MaxChunk, offset : Offset]

StorageTypeOK ==
  /\ \A r \in DOMAIN db.rowids : r \in 1 .. MaxRowid /\ db.rowids[r] \in Position
  /\ db.lastRowid \in 0 .. MaxRowid
  /\ \A c \in DOMAIN db.chunks :
       /\ db.chunks[c].validity \subseteq Offset
       /\ db.chunks[c].rowids \in [Offset -> 0 .. MaxRowid]
  /\ DOMAIN db.aux \cup DOMAIN db.texts \subseteq 1 .. MaxRowid
  /\ open \in BOOLEAN /\ textKey \in BOOLEAN /\ told \in {"ok", "error"}
  /\ ~open => saved = EmptyTables
  /\ stmt \in Statement \cup {Nothing} /\ (step = "idle" <=> stmt = Nothing)

\* Every chunk has its vector chunk and its metadata chunk under the same rowid; each
\* row is at the position _rowids gives, with its auxiliary value and its long text,
\* and no other position has its bit.
RowsAgree(d) ==
  /\ Len(d.vectors) = Len(d.chunks) /\ Len(d.views) = Len(d.chunks)
  /\ \A r \in DOMAIN d.rowids :
       LET p == ChunkPosition(d, r)
       IN  /\ p.chunk \in DOMAIN d.chunks
           /\ p.offset \in d.chunks[p.chunk].validity
           /\ d.chunks[p.chunk].rowids[p.offset] = r
           /\ d.views[p.chunk][p.offset] = Cut => r \in DOMAIN d.texts
  /\ \A c \in DOMAIN d.chunks : \A o \in d.chunks[c].validity :
       LET r == d.chunks[c].rowids[o]
       IN  /\ r \in DOMAIN d.rowids
           /\ d.rowids[r].chunk = c /\ d.rowids[r].offset = o
  /\ DOMAIN d.aux = DOMAIN d.rowids

\* A long text is there for no other row.
NoTextIsLeft(d) ==
  \A r \in DOMAIN d.texts :
    r \in DOMAIN d.rowids /\ d.views[d.rowids[r].chunk][d.rowids[r].offset] = Cut

\* Between statements a scan of the validity bits meets each row that _rowids has,
\* once and at the position _rowids gives, and nothing else; a long text is there for
\* just the rows whose view is cut.  (A failure to clear the metadata of a deleted
\* row, which the code ignores, leaves a text nobody reads.)
ScansAgree ==
  /\ StorageTypeOK
  /\ step = "idle" => RowsAgree(db) /\ (faults = 0 => NoTextIsLeft(db))

\* The statements whose values the table accepts.  The type of an auxiliary value is
\* looked at by INSERT and not by UPDATE.
WellTyped(q, isText) ==
  /\ q.op = "insert" => TypedKey(q.key, isText) /\ BadType \notin {q.part, q.aux}
  /\ q.op # "delete" => q.vector # BadType /\ q.text \notin {BadType, Null}

TableOf(d) == [r \in DOMAIN d.rowids |-> RowOf(d, r)]

\* The shadow tables are a table of rows: each statement is carried out as a whole
\* and answered "ok", or leaves every row as it was and is answered "error",
\* whatever write of it fails; a rollback brings back the rows there were.
Promise == INSTANCE VecTable WITH
  table <- TableOf(IF step = "idle" THEN db ELSE before),
  saved <- TableOf(saved),
  answer <- told,
  request <- IF step \in {"idle", "failed"} THEN Nothing ELSE stmt,
  Rowid <- 1 .. MaxRowid, NoRequest <- Nothing
ImplementsVecTable == Promise!Spec
=============================================================================
