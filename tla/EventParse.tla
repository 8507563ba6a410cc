---------------------------- MODULE EventParse ----------------------------
(***************************************************************************)
(* The parser of src/src/logevent.c between the events of a master, byte   *)
(* by byte, and the client that takes the rows: parseFDE,                  *)
(* parseTableMapEvent, parseRowsEvent one row at a time, then the hand-over *)
(* to the client's buffer and the freeing of what was allocated.           *)
(***************************************************************************)
EXTENDS MasterEvent

CONSTANTS
    Tables,     \* the tables of the master, sequences of columns
    Partial,    \* those of them whose images may leave columns out
    Posthdrs,   \* how many types of events masters know
    InitRows,   \* totalrows at first: 8 in the code
    MaxRows     \* bound: rows in an event

ASSUME SizesAssumption  == InitRows \in Nat \ {0} /\ MaxRows \in Nat \ {0}
\* The null bits of an image are read as if every column were there.
ASSUME PartialAssumption ==
    /\ Partial \subseteq Tables
    /\ \A c \in Partial : Len(c) <= 8 /\ \A i \in DOMAIN c : ~c[i].null
ASSUME PosthdrsAssumption == Posthdrs \subseteq 0 .. 255
ASSUME TablesAssumption == \A c \in Tables : TableOK(c)

\* The DECIMAL values of the tables are read as they were written, each alone.
DecimalsRead ==
    \A c \in Tables : \A i \in DOMAIN c : c[i].type = T.NEWDECIMAL =>
        \A v \in c[i].vals : DecimalRead(c[i], v)

MaxPacket == 1073741824     \* the most a master's max_allowed_packet can be

NoTable == [tableid |-> 0, types |-> <<>>, meta |-> <<>>, canbenull |-> <<>>]
NoRev   == [type |-> "none", tableid |-> 0, isused |-> 0, isused_u |-> 0, evlen |-> 0,
            totalrows |-> 0, rows |-> <<>>, rowsold |-> <<>>]

VARIABLES
    cols,       \* the table of the last table map, as the master knows it
    sent,       \* the rows event the master sent: [used, rows], both old and new
    ev, cur,    \* the event's bytes, the cursor
    hdrlen, table,  \* struct Binlog
    rev,        \* struct RowsEvent and the locals of parseRowsEvent
    taken,      \* rows the client has taken out of its buffer and freed
    heap,       \* blocks on the heap, how many: [table, arrays, images, values]
    pc          \* where the parser and its client are

vars == <<cols, sent, ev, cur, hdrlen, table, rev, taken, heap, pc>>

NoSent == [used |-> [old |-> <<>>, new |-> <<>>], rows |-> <<>>]
PCs == {"idle", "rows", "parsed", "buffered", "abort", "closed"}

IsUpdate == rev.type = "UPDATE_ROWS"
-----------------------------------------------------------------------------
(* What the master may send. *)
AllOf(c) == [i \in DOMAIN c |-> TRUE]
Usages(type, c) ==
    LET some == IF c \in Partial THEN {u \in [DOMAIN c -> BOOLEAN] : \E i \in DOMAIN c : u[i]}
                                 ELSE {AllOf(c)}
    IN [old : IF type = "UPDATE_ROWS" THEN some ELSE {AllOf(c)}, new : some]

RowsOf(c) ==
    LET Cells(i) == c[i].vals \union (IF c[i].null THEN {Null} ELSE {})
        first[n \in 0 .. Len(c)] ==
          IF n = 0 THEN {<<>>} ELSE {Append(r, v) : r \in first[n - 1], v \in Cells(n)}
    IN first[Len(c)]

RowSeqs(type, c) ==
    LET old == IF type = "UPDATE_ROWS" THEN RowsOf(c) ELSE {<<>>} IN
      UNION {[1 .. n -> [old : old, new : RowsOf(c)]] : n \in 1 .. MaxRows}
-----------------------------------------------------------------------------
Init ==
    /\ cols = <<>> /\ sent = NoSent
    /\ ev = <<>> /\ cur = 0
    /\ hdrlen = 0 /\ table = NoTable /\ rev = NoRev
    /\ taken = 0
    /\ heap = [table |-> 0, arrays |-> 0, images |-> 0, values |-> 0]
    /\ pc = "idle"

\* parseFDE: the assertion counts in size_t; byte 75 is the header length.
ParseFDE ==
    /\ pc = "idle" /\ hdrlen = 0
    /\ \E n \in Posthdrs :
         LET fde   == FormatDescription(n)
             evlen == ReadUint(fde, 9, 4)
         IN IF evlen - 76 \in 0 .. 29 THEN hdrlen' = Byte(fde, 75) /\ UNCHANGED pc
                                      ELSE pc' = "abort" /\ UNCHANGED hdrlen
    /\ UNCHANGED <<cols, sent, ev, cur, table, rev, taken, heap>>

\* parseTableMapEvent, behind the names.  The null bits are taken nfields bytes
\* behind the metadata, whatever its length.
ParsedTable(e) ==
    LET db     == hdrlen + 8
        tbl    == db + Byte(e, db) + 2
        count  == decodeint(e, tbl + Byte(e, tbl) + 2)
        types  == Bytes(e, count.cur, count.v)
        metalen == decodeint(e, count.cur + count.v)
        canbenull == metalen.cur + count.v
    IN [tableid   |-> ReadUint(e, hdrlen, 6),
        types     |-> types,
        meta      |-> decodeMetadata(types, e, metalen.cur),
        canbenull |-> Bytes(e, canbenull, count.v)]

KeepTableRes == heap.table
\* tblevFreeTableRes: the arrays of the last table go first.
tblevFreeTableRes == heap.table - IF table = NoTable THEN 0 ELSE 3

ParseTableMap ==
    /\ pc = "idle" /\ hdrlen # 0
    /\ cols' \in Tables
    /\ \E id \in {1, 2} \ {table.tableid} : table' = ParsedTable(TableMap(id, cols'))
    /\ heap' = [heap EXCEPT !.table = tblevFreeTableRes + 3]
    /\ UNCHANGED <<sent, ev, cur, hdrlen, rev, taken, pc>>

\* parseRowsEvent up to its loop.
BitmapBytes(type, nfields) ==
    IF type = "UPDATE_ROWS" THEN 2 * BitmapLen(nfields) ELSE BitmapLen(nfields)

ParseRowsHead ==
    /\ pc = "idle" /\ cols # <<>>
    /\ \E type \in {"WRITE_ROWS", "UPDATE_ROWS", "DELETE_ROWS"}, id \in {1, 2} :
       \E used \in Usages(type, cols), rows \in RowSeqs(type, cols) :
         /\ id # table.tableid => used.new = AllOf(cols) /\ Len(rows) = 1
         /\ sent' = [used |-> used, rows |-> rows]
         /\ ev' = RowsEvent(type, id, cols, used, rows) /\ Len(ev') <= MaxPacket
         /\ LET count == decodeint(ev', hdrlen + 8)
                len   == BitmapLen(count.v)
            IN IF ReadUint(ev', hdrlen, 6) = table.tableid /\ count.v = Len(table.types)
                 THEN /\ pc' = "rows"
                      /\ cur' = count.cur + BitmapBytes(type, count.v)
                      /\ rev' = [NoRev EXCEPT !.type = type, !.tableid = table.tableid,
                                   !.isused = count.cur, !.isused_u = count.cur + len,
                                   !.evlen = ReadUint(ev', 9, 4), !.totalrows = InitRows]
                      /\ heap' = [heap EXCEPT !.arrays = @ + IF type = "UPDATE_ROWS" THEN 2 ELSE 1]
                 ELSE pc' = "abort" /\ UNCHANGED <<cur, rev, heap>>
    /\ UNCHANGED <<cols, hdrlen, table, taken>>

\* One round of the loop: one image, for an update the second one after it.
ImageAt(o, isused) == DecodeImage(ev, o, table.types, table.meta, isused)
NotNull(cells) == {i \in DOMAIN cells : cells[i].value # Null}
Values(cells) == Cardinality(NotNull(cells))
\* The values of some of the rows.
ValuesOf(rows, some) == Cardinality(UNION {{k} \X NotNull(rows[k]) : k \in some})

GrownWhenOver(rows, total) == IF rows > total THEN 2 * total ELSE total
\* Both arrays are doubled together when they are full.
Grown(rows, total) == IF rows >= total THEN 2 * total ELSE total
KeepRow(rows, old, new) ==
    /\ cur' = new.cur
    /\ rev' = [rev EXCEPT
         !.totalrows = Grown(rows, @),
         !.rows      = Append(@, new.cells),
         !.rowsold   = IF IsUpdate THEN Append(@, old.cells) ELSE @]
    /\ heap' = [heap EXCEPT
         !.images = @ + IF IsUpdate THEN 2 ELSE 1,
         !.values = @ + Values(new.cells) + IF IsUpdate THEN Values(old.cells) ELSE 0]

DecodeSecond(first) == KeepRow(Len(rev.rows), first, ImageAt(first.cur, rev.isused_u))

DecodeRow ==
    /\ pc = "rows" /\ cur < rev.evlen
    /\ IF IsUpdate THEN DecodeSecond(ImageAt(cur, rev.isused))
                   ELSE KeepRow(Len(rev.rows), NoCell, ImageAt(cur, rev.isused))
    /\ UNCHANGED <<cols, sent, ev, hdrlen, table, taken, pc>>

RowsParsed ==
    /\ pc = "rows" /\ cur >= rev.evlen
    /\ pc' = "parsed"
    /\ UNCHANGED <<cols, sent, ev, cur, hdrlen, table, rev, taken, heap>>
-----------------------------------------------------------------------------
(* The client. *)

\* The event and struct RowsEvent end with the call that read them.
Forget ==
    /\ sent' = NoSent /\ ev' = <<>> /\ cur' = 0 /\ rev' = NoRev
    /\ taken' = 0 /\ pc' = "idle"

\* setRowsEventBuffer copies the pointers to the images and frees the arrays.
SetRowsEventBuffer ==
    /\ pc = "parsed"
    /\ heap' = [heap EXCEPT !.arrays = @ - IF IsUpdate THEN 2 ELSE 1]
    /\ pc' = "buffered"
    /\ UNCHANGED <<cols, sent, ev, cur, hdrlen, table, rev, taken>>

\* freeBinlogRow, after the row was delivered or skipped.
FreedOfEvent(r) == ValuesOf(r.rows, DOMAIN r.rows) + ValuesOf(r.rowsold, DOMAIN r.rowsold)
FreedOfRow(r) ==
    Values(r.rows[taken + 1]) + IF r.type = "UPDATE_ROWS" THEN Values(r.rowsold[taken + 1]) ELSE 0
FreeBinlogRow ==
    /\ pc = "buffered" /\ taken < Len(rev.rows)
    /\ heap' = [heap EXCEPT !.images = @ - IF IsUpdate THEN 2 ELSE 1,
                            !.values = @ - FreedOfRow(rev)]
    /\ IF taken + 1 < Len(rev.rows)
         THEN taken' = taken + 1 /\ UNCHANGED <<sent, ev, cur, rev, pc>>
         ELSE Forget
    /\ UNCHANGED <<cols, hdrlen, table>>

\* rowsevFreeRows, for a user of the parser who has no buffer.
RowsevFreeRows ==
    /\ pc = "parsed"
    /\ heap' = [heap EXCEPT
         !.arrays = @ - IF IsUpdate THEN 2 ELSE 1,
         !.images = @ - Len(rev.rows) - Len(rev.rowsold),
         !.values = @ - ValuesOf(rev.rows, DOMAIN rev.rows)
                     - ValuesOf(rev.rowsold, DOMAIN rev.rowsold)]
    /\ Forget
    /\ UNCHANGED <<cols, hdrlen, table>>

\* freeBinlogClient frees the buffer's slots; neither the images they point to
\* nor the current table.
FreeBinlogClient ==
    /\ pc \in {"idle", "buffered"}
    /\ pc' = "closed"
    /\ UNCHANGED <<cols, sent, ev, cur, hdrlen, table, rev, taken, heap>>

Next == \/ ParseFDE \/ ParseTableMap \/ ParseRowsHead \/ DecodeRow \/ RowsParsed
        \/ SetRowsEventBuffer \/ FreeBinlogRow \/ RowsevFreeRows \/ FreeBinlogClient
Spec == Init /\ [][Next]_vars
-----------------------------------------------------------------------------
(* Properties. *)
TypeOK ==
    /\ cols \in Tables \union {<<>>}
    /\ cur \in Nat /\ hdrlen \in {0, 19} /\ taken \in Nat
    /\ table.tableid \in 0 .. 2
    /\ Len(table.meta) = Len(table.types) /\ Len(table.canbenull) = Len(table.types)
    /\ \A k \in DOMAIN heap : heap[k] \in Nat
    /\ pc \in PCs

\* parseTableMapEvent, decodeMetadata: the types and the metadata of the fields
\* are those of the master's columns, however many bytes each of them takes.
TableAsWritten ==
    cols # <<>> => /\ table.types = [i \in DOMAIN cols |-> FieldType(cols[i])]
                   /\ table.meta = [i \in DOMAIN cols |-> DeclaredMeta(cols[i])]

\* parseRowsEvent: rows are stored within their arrays, which grow together, and
\* an update has an old image for every new one.
ArraysFit ==
    /\ Len(rev.rows) <= rev.totalrows
    /\ Len(rev.rowsold) = IF IsUpdate THEN Len(rev.rows) ELSE 0

\* parseRowsEvent, value2Cell: before each round of the loop the cursor is where
\* the master put the next row, and after the last row the loop ends.
CursorOnRow ==
    pc = "rows" =>
        /\ Len(rev.rows) <= Len(sent.rows)
        /\ cur = RowStart(rev.type, rev.tableid, cols, sent.used, sent.rows, Len(rev.rows) + 1)

\* The cells of an image hold what the master wrote into it.
HoldsColumns(cells, row, used, types) ==
    /\ Len(cells) = Len(cols)
    /\ \A i \in DOMAIN cols : cols[i].type \in types =>
         cells[i].value = IF used[i] THEN Shown(cols[i], row[i]) ELSE Null

AllTypes == {cols[i].type : i \in DOMAIN cols}
RowsHold(types) ==
    pc \in {"rows", "parsed", "buffered"} =>
        \A k \in DOMAIN rev.rows :
            /\ HoldsColumns(rev.rows[k], sent.rows[k].new, sent.used.new, types)
            /\ IsUpdate => HoldsColumns(rev.rowsold[k], sent.rows[k].old, sent.used.old, types)

\* parseRowsEvent, value2Cell: the rows handed to the client are those the
\* master wrote, old images with old and new with new, null where the column
\* is null or absent.  The exceptions are a SET column (SetCell) and the year
\* 0000, which is shown as 1900 (YearShown).
RowsAsWritten == RowsHold(AllTypes \ {T.SET})

\* Lengths on both sides of each width.
Lengths == {0, 250, 251, 255, 256, 65535, 65536, 16777216}

\* decodeint: a length of any width is read as the master coded it, and the
\* cursor moves behind it, wherever it stands in an event.
LengthsDecoded ==
    cols # <<>> => \A n \in Lengths :
        LET coded == CodedLength(n) IN
          decodeint(ev \o coded \o ev, Len(ev)) = [v |-> n, cur |-> Len(ev) + Len(coded)]

\* value2Cell, "Get a cell of one row": this goes for a SET column, too.
EveryRowAsWritten == RowsHold(AllTypes)

\* parseTableMapEvent, parseRowsEvent, setRowsEventBuffer, freeBinlogRow: while
\* the client is open the heap holds the arrays of the current table and what
\* belongs to rows that were not freed yet, no block twice and none for ever.
HeldValues == ValuesOf(rev.rows, taken + 1 .. Len(rev.rows))
              + ValuesOf(rev.rowsold, taken + 1 .. Len(rev.rowsold))
HeapExact ==
    pc \notin {"abort", "closed"} =>
        LET per  == IF IsUpdate THEN 2 ELSE 1
            held == IF pc = "idle" THEN 0 ELSE Len(rev.rows) - taken
        IN heap = [table  |-> IF table = NoTable THEN 0 ELSE 3,
                   arrays |-> IF pc \in {"rows", "parsed"} THEN per ELSE 0,
                   images |-> per * held,
                   values |-> IF pc = "idle" THEN 0 ELSE HeldValues]
=============================================================================
