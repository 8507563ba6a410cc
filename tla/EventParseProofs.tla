------------------------- MODULE EventParseProofs -------------------------
(***************************************************************************)
(* What parseTableMapEvent and parseRowsEvent allocate and free, and what  *)
(* they read, for every table, every rows event and every number of rows.  *)
(***************************************************************************)
EXTENDS EventParse, CodecProofs, LeastElement, FiniteSetTheorems, SequenceTheorems

-----------------------------------------------------------------------------
(* Rows, images and their values. *)

\* The values of an image can be counted.
LEMMA ValuesAreFinite ==
    ASSUME NEW cells, IsSequence(cells)
    PROVE  IsFiniteSet(NotNull(cells)) /\ Values(cells) \in Nat
<1>1. Len(cells) \in Nat /\ DOMAIN cells = 1 .. Len(cells)
  BY Appended
<1>2. IsFiniteSet(1 .. Len(cells))
  <2>1. 1 \in Int /\ Len(cells) \in Int
    BY <1>1
  <2> QED BY <2>1, FS_Interval
<1>3. NotNull(cells) \subseteq 1 .. Len(cells)
  BY <1>1 DEF NotNull
<1>4. IsFiniteSet(NotNull(cells))
  BY <1>2, <1>3, FS_Subset
<1> QED BY <1>4, FS_CardinalityType DEF Values

\* Rows of an event, each an image.
AreRows(rows) == IsSequence(rows) /\ \A k \in DOMAIN rows : IsSequence(rows[k])

Blocks(rows, some) == UNION {{k} \X NotNull(rows[k]) : k \in some}

\* Some rows have finitely many values, and no rows have none.
LEMMA BlocksAreFinite ==
    ASSUME NEW rows, AreRows(rows), NEW some \in SUBSET DOMAIN rows
    PROVE  /\ IsFiniteSet(Blocks(rows, some)) /\ ValuesOf(rows, some) \in Nat
           /\ some = {} => ValuesOf(rows, some) = 0
<1>1. Len(rows) \in Nat /\ DOMAIN rows = 1 .. Len(rows)
  BY Appended DEF AreRows
<1>2. IsFiniteSet(some)
  <2>1. 1 \in Int /\ Len(rows) \in Int
    BY <1>1
  <2>2. IsFiniteSet(1 .. Len(rows))
    BY <2>1, FS_Interval
  <2> QED BY <1>1, <2>2, FS_Subset
<1>3. IsFiniteSet({{k} \X NotNull(rows[k]) : k \in some})
  <2> DEFINE parts == {{k} \X NotNull(rows[k]) : k \in some}
             f == [k \in some |-> {k} \X NotNull(rows[k])]
  <2>1. f \in [some -> parts] /\ \A p \in parts : \E k \in some : f[k] = p
    OBVIOUS
  <2>2. f \in Surjection(some, parts)
    <3> HIDE DEF f, parts
    <3> QED BY <2>1 DEF Surjection
  <2> HIDE DEF f, parts
  <2>3. IsFiniteSet(parts)
    BY <1>2, <2>2, FS_Surjection
  <2> QED BY <2>3 DEF parts
<1>4. \A b \in {{k} \X NotNull(rows[k]) : k \in some} : IsFiniteSet(b)
  <2>1. ASSUME NEW k \in some PROVE IsFiniteSet({k} \X NotNull(rows[k]))
    <3>1. IsFiniteSet(NotNull(rows[k]))
      BY ValuesAreFinite DEF AreRows
    <3>2. IsFiniteSet({k})
      BY FS_Singleton
    <3> QED BY <3>1, <3>2, FS_Product
  <2> QED BY <2>1
<1>5. IsFiniteSet(Blocks(rows, some))
  BY <1>3, <1>4, FS_UNION DEF Blocks
<1>6. ValuesOf(rows, some) = Cardinality(Blocks(rows, some))
  BY DEF ValuesOf, Blocks
<1>7. some = {} => Blocks(rows, some) = {}
  BY DEF Blocks
<1> QED BY <1>5, <1>6, <1>7, FS_CardinalityType, FS_EmptySet

\* One row more.
LEMMA OneRowMore ==
    ASSUME NEW rows, AreRows(rows), NEW some \in SUBSET DOMAIN rows,
           NEW k \in DOMAIN rows, k \notin some
    PROVE  ValuesOf(rows, some \union {k}) = ValuesOf(rows, some) + Values(rows[k])
<1> DEFINE a == Blocks(rows, some)
           b == {k} \X NotNull(rows[k])
<1>1. IsFiniteSet(a)
  BY BlocksAreFinite
<1>2. IsFiniteSet({k}) /\ Cardinality({k}) = 1
  BY FS_Singleton
<1>3. IsFiniteSet(NotNull(rows[k])) /\ Values(rows[k]) \in Nat
  BY ValuesAreFinite DEF AreRows
<1>4. IsFiniteSet(b) /\ Cardinality(b) = Values(rows[k])
  <2>1. IsFiniteSet(b) /\ Cardinality(b) = 1 * Cardinality(NotNull(rows[k]))
    BY <1>2, <1>3, FS_Product
  <2> QED BY <1>3, <2>1 DEF Values
<1>5. Blocks(rows, some \union {k}) = a \union b
  BY DEF Blocks
<1>6. a \cap b = {}
  <2>1. \A x \in a : \E j \in some : x \in {j} \X NotNull(rows[j])
    BY DEF Blocks
  <2>2. \A x \in a : x[1] \in some
    BY <2>1
  <2>3. \A x \in b : x[1] = k
    OBVIOUS
  <2> QED BY <2>2, <2>3
<1>7. Cardinality(a \union b) = Cardinality(a) + Cardinality(b) - Cardinality({})
  <2> HIDE DEF a, b
  <2> QED BY <1>1, <1>4, <1>6, FS_Union
<1>8. Cardinality({}) = 0 /\ Cardinality(a) \in Nat
  BY <1>1, FS_EmptySet, FS_CardinalityType
<1>9. /\ ValuesOf(rows, some) = Cardinality(a)
      /\ ValuesOf(rows, some \union {k}) = Cardinality(Blocks(rows, some \union {k}))
  BY DEF ValuesOf, Blocks
<1> HIDE DEF a, b
<1>10. Cardinality(a) + Cardinality(b) - 0 = Cardinality(a) + Cardinality(b)
  BY <1>3, <1>4, <1>8
<1>11. ValuesOf(rows, some \union {k}) = Cardinality(a) + Cardinality(b)
  BY <1>5, <1>7, <1>8, <1>9, <1>10
<1> QED BY <1>4, <1>9, <1>11

\* parseRowsEvent: the array with one row more.
LEMMA RowAppended ==
    ASSUME NEW rows, AreRows(rows), NEW cells, IsSequence(cells)
    PROVE  /\ AreRows(Append(rows, cells)) /\ Len(rows) \in Nat
           /\ Len(Append(rows, cells)) = Len(rows) + 1
           /\ ValuesOf(Append(rows, cells), 1 .. Len(rows) + 1)
                = ValuesOf(rows, 1 .. Len(rows)) + Values(cells)
<1> DEFINE more == Append(rows, cells)
           all == 1 .. Len(rows)
           last == Len(rows) + 1
<1>1. /\ IsSequence(more) /\ Len(rows) \in Nat /\ DOMAIN rows = all
      /\ Len(more) = last /\ DOMAIN more = 1 .. last
      /\ \A i \in all : more[i] = rows[i]
      /\ more[last] = cells
  BY Appended DEF AreRows
<1> HIDE DEF more
<1>2. 1 .. last = all \union {last} /\ last \notin all /\ last \in DOMAIN more
      /\ all \subseteq DOMAIN more
  BY <1>1
<1>3. AreRows(more)
  <2>1. \A k \in all : IsSequence(rows[k])
    BY <1>1 DEF AreRows
  <2>2. ASSUME NEW k \in DOMAIN more PROVE IsSequence(more[k])
    <3>1. CASE k \in all
      BY <1>1, <2>1, <3>1
    <3>2. CASE k = last
      BY <1>1, <3>2
    <3> QED BY <1>1, <1>2, <3>1, <3>2
  <2> QED BY <1>1, <2>2 DEF AreRows
<1>4. ValuesOf(more, all \union {last}) = ValuesOf(more, all) + Values(more[last])
  BY <1>2, <1>3, OneRowMore
<1>5. ValuesOf(more, all) = ValuesOf(rows, all)
  BY <1>1 DEF ValuesOf
<1> QED BY <1>1, <1>2, <1>3, <1>4, <1>5 DEF more

\* freeBinlogRow: the rows still held when the first of them is gone.
LEMMA RowTaken ==
    ASSUME NEW rows, AreRows(rows), NEW n \in Nat, n < Len(rows)
    PROVE  ValuesOf(rows, n + 1 .. Len(rows))
             = ValuesOf(rows, n + 1 + 1 .. Len(rows)) + Values(rows[n + 1])
<1> DEFINE rest == n + 1 + 1 .. Len(rows)
<1>1. Len(rows) \in Nat /\ DOMAIN rows = 1 .. Len(rows)
  BY Appended DEF AreRows
<1>2. /\ n + 1 .. Len(rows) = rest \union {n + 1} /\ n + 1 \notin rest
      /\ n + 1 \in DOMAIN rows /\ rest \in SUBSET DOMAIN rows
  BY <1>1
<1> HIDE DEF rest
<1>3. ValuesOf(rows, rest \union {n + 1}) = ValuesOf(rows, rest) + Values(rows[n + 1])
  BY <1>2, OneRowMore
<1> QED BY <1>2, <1>3 DEF rest
-----------------------------------------------------------------------------
(* The inductive invariant. *)

\* The fields that later steps change.
HasFields(r) == /\ "type" \in DOMAIN r /\ "totalrows" \in DOMAIN r
                /\ "rows" \in DOMAIN r /\ "rowsold" \in DOMAIN r

\* struct RowsEvent and the locals of parseRowsEvent hold rows of images.
RowsInv ==
    /\ AreRows(rev.rows) /\ AreRows(rev.rowsold)
    /\ rev.totalrows \in Nat /\ (pc = "rows" => rev.totalrows > 0)
    /\ taken \in 0 .. Len(rev.rows)
    /\ pc \in {"idle", "rows", "parsed"} => taken = 0
    /\ pc = "idle" => rev = NoRev
    /\ HasFields(rev)

\* Before it is known, the length of a header is 0; a table that was read has a
\* number and a sequence of fields.
ReaderInv ==
    /\ hdrlen \in {0, 19}
    /\ IsSequence(table.types)

PInv == RowsInv /\ ReaderInv /\ ArraysFit /\ HeapExact

Per == IF IsUpdate THEN 2 ELSE 1

\* HeapExact, read field by field.
LEMMA HeapFields ==
    ASSUME PInv, pc \notin {"abort", "closed"}
    PROVE  /\ heap = [table |-> heap.table, arrays |-> heap.arrays,
                      images |-> heap.images, values |-> heap.values]
           /\ heap.table = IF table = NoTable THEN 0 ELSE 3
           /\ heap.arrays = IF pc \in {"rows", "parsed"} THEN Per ELSE 0
           /\ heap.images = Per * (IF pc = "idle" THEN 0 ELSE Len(rev.rows) - taken)
           /\ heap.values = IF pc = "idle" THEN 0 ELSE HeldValues
<1>1. heap = [table  |-> IF table = NoTable THEN 0 ELSE 3,
              arrays |-> IF pc \in {"rows", "parsed"} THEN Per ELSE 0,
              images |-> Per * (IF pc = "idle" THEN 0 ELSE Len(rev.rows) - taken),
              values |-> IF pc = "idle" THEN 0 ELSE HeldValues]
  BY DEF PInv, HeapExact, Per
<1> DEFINE a == IF table = NoTable THEN 0 ELSE 3
           b == IF pc \in {"rows", "parsed"} THEN Per ELSE 0
           c == Per * (IF pc = "idle" THEN 0 ELSE Len(rev.rows) - taken)
           d == IF pc = "idle" THEN 0 ELSE HeldValues
<1>2. heap = [table |-> a, arrays |-> b, images |-> c, values |-> d]
  BY <1>1
<1> HIDE DEF a, b, c, d
<1>3. heap.table = a /\ heap.arrays = b /\ heap.images = c /\ heap.values = d
  BY <1>2
<1> QED BY <1>2, <1>3 DEF a, b, c, d

\* The converse, of the next state: the fields make HeapExact.
LEMMA FieldsPrimed ==
    ASSUME heap' = [table |-> heap'.table, arrays |-> heap'.arrays,
                    images |-> heap'.images, values |-> heap'.values],
           heap'.table = (IF table' = NoTable THEN 0 ELSE 3),
           heap'.arrays = (IF pc' \in {"rows", "parsed"} THEN Per' ELSE 0),
           heap'.images = Per' * (IF pc' = "idle" THEN 0 ELSE Len(rev'.rows) - taken'),
           heap'.values = (IF pc' = "idle" THEN 0 ELSE HeldValues')
    PROVE  HeapExact'
<1>1. heap' = [table  |-> IF table' = NoTable THEN 0 ELSE 3,
               arrays |-> IF pc' \in {"rows", "parsed"} THEN Per' ELSE 0,
               images |-> Per' * (IF pc' = "idle" THEN 0 ELSE Len(rev'.rows) - taken'),
               values |-> IF pc' = "idle" THEN 0 ELSE HeldValues']
  BY Zenon
<1> QED BY <1>1 DEF HeapExact, Per

\* Numbers of the rows that are held.
LEMMA HeldAreNumbers ==
    ASSUME RowsInv
    PROVE  /\ Len(rev.rows) \in Nat /\ Len(rev.rowsold) \in Nat /\ taken \in Nat
           /\ DOMAIN rev.rows = 1 .. Len(rev.rows) /\ DOMAIN rev.rowsold = 1 .. Len(rev.rowsold)
           /\ ValuesOf(rev.rows, taken + 1 .. Len(rev.rows)) \in Nat
           /\ ValuesOf(rev.rowsold, taken + 1 .. Len(rev.rowsold)) \in Nat
           /\ HeldValues \in Nat
<1>1. /\ Len(rev.rows) \in Nat /\ DOMAIN rev.rows = 1 .. Len(rev.rows)
      /\ Len(rev.rowsold) \in Nat /\ DOMAIN rev.rowsold = 1 .. Len(rev.rowsold)
  BY Appended DEF RowsInv, AreRows
<1>2. taken \in Nat
  BY <1>1 DEF RowsInv
<1>3. /\ taken + 1 .. Len(rev.rows) \in SUBSET DOMAIN rev.rows
      /\ taken + 1 .. Len(rev.rowsold) \in SUBSET DOMAIN rev.rowsold
  BY <1>1, <1>2
<1>4. /\ ValuesOf(rev.rows, taken + 1 .. Len(rev.rows)) \in Nat
      /\ ValuesOf(rev.rowsold, taken + 1 .. Len(rev.rowsold)) \in Nat
  BY <1>3, BlocksAreFinite DEF RowsInv
<1>5. HeldValues \in Nat
  BY <1>4 DEF HeldValues
<1> QED BY <1>1, <1>2, <1>4, <1>5

\* An event that was forgotten leaves no rows.
LEMMA NoRows ==
    /\ AreRows(<<>>) /\ Len(<<>>) = 0
    /\ ValuesOf(<<>>, 0 + 1 .. Len(<<>>)) = 0
<1>1. <<>> \in Seq({}) /\ Len(<<>>) = 0 /\ DOMAIN <<>> = {} /\ 0 + 1 .. Len(<<>>) = {}
  OBVIOUS
<1>2. IsSequence(<<>>)
  BY <1>1 DEF IsSequence
<1>3. AreRows(<<>>)
  BY <1>1, <1>2 DEF AreRows
<1> QED BY <1>1, <1>3, BlocksAreFinite

\* Nothing is allocated, no event is read.
LEMMA ParserInit == Init => PInv
<1> SUFFICES ASSUME Init PROVE PInv
  OBVIOUS
<1>1. rev = NoRev /\ taken = 0 /\ pc = "idle" /\ table = NoTable /\ hdrlen = 0
      /\ heap = [table |-> 0, arrays |-> 0, images |-> 0, values |-> 0]
  BY DEF Init
<1>2. rev.rows = <<>> /\ rev.rowsold = <<>> /\ rev.totalrows = 0 /\ ~IsUpdate
      /\ table.types = <<>>
  BY <1>1 DEF NoRev, NoTable, IsUpdate
<1>3. RowsInv /\ ArraysFit
  <2>1. HasFields(rev)
    BY <1>1 DEF NoRev, HasFields
  <2> QED BY <1>1, <1>2, <2>1, NoRows DEF RowsInv, ArraysFit
<1>4. ReaderInv
  BY <1>1, <1>2, NoRows DEF ReaderInv, AreRows
<1>5. HeapExact
  BY <1>1, <1>2 DEF HeapExact
<1> QED BY <1>3, <1>4, <1>5 DEF PInv
-----------------------------------------------------------------------------
(* One action after the other. *)

\* parseFDE: the length of a header is learnt, nothing is allocated.
LEMMA FDEStep ==
    ASSUME PInv, ParseFDE
    PROVE  PInv'
<1>1. pc = "idle" /\ pc' \in {"idle", "abort"} /\ UNCHANGED <<table, rev, taken, heap>>
  BY DEF ParseFDE
<1>2. hdrlen' \in {0, 19}
  <2>1. PICK n \in Posthdrs : hdrlen' \in {hdrlen, Byte(FormatDescription(n), 75)}
    BY Zenon DEF ParseFDE
  <2>2. Byte(FormatDescription(n), 75) = 19
    BY PosthdrsAssumption, HeaderLengthRead
  <2> QED BY <2>1, <2>2 DEF PInv, ReaderInv
<1>3. RowsInv' /\ ArraysFit' /\ ReaderInv'
  BY <1>1, <1>2 DEF PInv, RowsInv, ArraysFit, IsUpdate, ReaderInv
<1>4. HeapExact'
  <2>1. CASE pc' = "abort"
    BY <2>1 DEF HeapExact
  <2>2. CASE pc' = pc
    BY <1>1, <2>2 DEF PInv, HeapExact, HeldValues, IsUpdate
  <2> QED BY <1>1, <2>1, <2>2
<1> QED BY <1>3, <1>4 DEF PInv

\* What is kept of a table: its number, and of its fields the types, the metadata
\* and a null bit or none for each.
TableIs(t, id, c) ==
    /\ t.tableid = id /\ t.types = TypesOf(c) /\ t.types \in Octets
    /\ t.meta = [i \in DOMAIN c |-> DeclaredMeta(c[i])]
    /\ Len(t.canbenull) = Len(c)

\* parseTableMapEvent: the number, the types and the metadata are those the master
\* wrote.
LEMMA TableParsed ==
    ASSUME NEW id \in {1, 2}, NEW c \in Tables, hdrlen = 19
    PROVE  TableIs(ParsedTable(TableMap(id, c)), id, c)
<1> DEFINE e == TableMap(id, c)
<1>1. TableOK(c) /\ Len(c) \in Nat
  BY TablesAssumption DEF TableOK
<1>2. id \in Nat /\ Fits(id, 6)
  BY SMT DEF Fits, FourBytes
<1>3. PICK k, m : TableMapIs(e, id, c, k, m)
  BY <1>1, <1>2, TableMapRead
<1> HIDE DEF e
<1>4. /\ e \in Octets /\ ReadUint(e, 19, 6) = id /\ Byte(e, 27) = 1 /\ Byte(e, 30) = 1
      /\ k \in Nat /\ m \in Nat
      /\ decodeint(e, 33) = [v |-> Len(c), cur |-> k] /\ Bytes(e, k, Len(c)) = TypesOf(c)
      /\ decodeint(e, k + Len(c)).cur = m
      /\ decodeMetadata(TypesOf(c), e, m) = [i \in DOMAIN c |-> DeclaredMeta(c[i])]
  BY <1>3 DEF TableMapIs
<1>5. hdrlen + 8 = 27 /\ 27 + 1 + 2 = 30 /\ 30 + 1 + 2 = 33
  OBVIOUS
<1>6. ParsedTable(e) = [tableid |-> id, types |-> TypesOf(c),
                        meta |-> [i \in DOMAIN c |-> DeclaredMeta(c[i])],
                        canbenull |-> Bytes(e, m + Len(c), Len(c))]
  <2> DEFINE count == decodeint(e, 33)
  <2>1. count.v = Len(c) /\ count.cur = k
    BY <1>4
  <2>2. ParsedTable(e) = [tableid |-> ReadUint(e, 19, 6),
           types |-> Bytes(e, count.cur, count.v),
           meta |-> decodeMetadata(Bytes(e, count.cur, count.v), e,
                                   decodeint(e, count.cur + count.v).cur),
           canbenull |-> Bytes(e, decodeint(e, count.cur + count.v).cur + count.v, count.v)]
    BY <1>4, <1>5 DEF ParsedTable
  <2> HIDE DEF count
  <2> QED BY <1>4, <2>1, <2>2, Zenon
<1>7. Len(Bytes(e, m + Len(c), Len(c))) = Len(c)
  <2>1. m + Len(c) \in Nat
    BY <1>1, <1>4
  <2> QED BY <1>1, <1>4, <2>1, BytesRead
<1>8. TypesOf(c) \in Octets
  BY <1>1, TypesOfAre
<1> QED BY <1>6, <1>7, <1>8 DEF e, TableIs

\* parseTableMapEvent, tblevFreeTableRes: the new arrays take the place of the old.
LEMMA TableMapStep ==
    ASSUME PInv, ParseTableMap
    PROVE  PInv'
<1>1. /\ pc = "idle" /\ hdrlen = 19 /\ UNCHANGED <<hdrlen, rev, taken, pc>>
      /\ cols' \in Tables /\ heap' = [heap EXCEPT !.table = tblevFreeTableRes + 3]
  BY DEF ParseTableMap, PInv, ReaderInv
<1>2. PICK id \in {1, 2} : table' = ParsedTable(TableMap(id, cols'))
  BY DEF ParseTableMap
<1>3. table'.tableid = id /\ IsSequence(table'.types)
  <2>1. TableIs(table', id, cols')
    BY <1>1, <1>2, TableParsed
  <2> QED BY <2>1 DEF TableIs, IsSequence, Octets
<1>4. table' # NoTable
  BY <1>3 DEF NoTable
<1>5. RowsInv' /\ ArraysFit' /\ ReaderInv'
  BY <1>1, <1>3 DEF PInv, RowsInv, ArraysFit, IsUpdate, ReaderInv
<1>6. /\ heap = [table |-> heap.table, arrays |-> heap.arrays,
                 images |-> heap.images, values |-> heap.values]
      /\ heap.table = IF table = NoTable THEN 0 ELSE 3
      /\ heap.arrays = 0 /\ heap.images = Per * 0 /\ heap.values = 0
  BY <1>1, HeapFields
<1>7. tblevFreeTableRes + 3 = 3
  BY <1>6 DEF tblevFreeTableRes
<1>8. heap' = [table |-> 3, arrays |-> heap.arrays, images |-> heap.images,
               values |-> heap.values]
  <2> HIDE DEF tblevFreeTableRes
  <2> QED BY <1>1, <1>6, <1>7
<1>9. Per' = Per
  BY <1>1 DEF Per, IsUpdate
<1>10. HeapExact'
  <2>1. heap' = [table |-> 3, arrays |-> 0, images |-> Per * 0, values |-> 0]
    BY <1>6, <1>8
  <2>2. heap' = [table |-> 3, arrays |-> 0, images |-> Per' * 0, values |-> 0]
    BY <1>9, <2>1
  <2> QED BY <1>1, <1>4, <2>2 DEF HeapExact, Per
<1> QED BY <1>5, <1>10 DEF PInv

\* parseRowsEvent up to its loop: the arrays are there, no row is.
LEMMA RowsHeadStep ==
    ASSUME PInv, ParseRowsHead
    PROVE  PInv'
<1>1. pc = "idle" /\ UNCHANGED <<hdrlen, table, taken>>
  BY DEF ParseRowsHead
<1>2. rev = NoRev /\ taken = 0 /\ ReaderInv'
  BY <1>1 DEF PInv, RowsInv, ReaderInv
<1>3. CASE pc' = "abort" /\ UNCHANGED <<rev, heap>>
  <2>1. RowsInv' /\ ArraysFit'
    BY <1>1, <1>3 DEF PInv, RowsInv, ArraysFit, IsUpdate
  <2>2. HeapExact'
    BY <1>3 DEF HeapExact
  <2> QED BY <1>2, <2>1, <2>2 DEF PInv
<1>4. CASE \E type \in {"WRITE_ROWS", "UPDATE_ROWS", "DELETE_ROWS"} :
             /\ pc' = "rows" /\ DOMAIN rev' = DOMAIN NoRev
             /\ rev'.rows = <<>> /\ rev'.rowsold = <<>>
             /\ rev'.totalrows = InitRows /\ rev'.type = type
             /\ heap' = [heap EXCEPT !.arrays = @ + IF type = "UPDATE_ROWS" THEN 2 ELSE 1]
  <2>1. PICK type \in {"WRITE_ROWS", "UPDATE_ROWS", "DELETE_ROWS"} :
             /\ pc' = "rows" /\ DOMAIN rev' = DOMAIN NoRev
             /\ rev'.rows = <<>> /\ rev'.rowsold = <<>>
             /\ rev'.totalrows = InitRows /\ rev'.type = type
             /\ heap' = [heap EXCEPT !.arrays = @ + IF type = "UPDATE_ROWS" THEN 2 ELSE 1]
    BY <1>4
  <2>2. rev'.rows = <<>> /\ rev'.rowsold = <<>> /\ rev'.totalrows = InitRows /\ rev'.type = type
    BY <2>1
  <2>3. RowsInv' /\ ArraysFit'
    <3>1. HasFields(rev')
      BY <2>1 DEF NoRev, HasFields
    <3>2. InitRows \in Nat /\ InitRows > 0
      BY SizesAssumption
    <3> QED BY <1>1, <1>2, <2>1, <2>2, <3>1, <3>2, NoRows DEF RowsInv, ArraysFit, IsUpdate
  <2>4. /\ heap = [table |-> heap.table, arrays |-> heap.arrays,
                   images |-> heap.images, values |-> heap.values]
        /\ heap.table = IF table = NoTable THEN 0 ELSE 3
        /\ heap.arrays = 0 /\ heap.images = Per * 0 /\ heap.values = 0
    BY <1>1, HeapFields
  <2>5. Per' = IF type = "UPDATE_ROWS" THEN 2 ELSE 1
    BY <2>2 DEF Per, IsUpdate
  <2>6. HeldValues' = 0
    BY <1>1, <1>2, <2>2, NoRows DEF HeldValues
  <2>7. Per * 0 = 0 /\ Per' * 0 = 0
    BY <2>5 DEF Per
  <2>8. heap' = [table |-> heap.table, arrays |-> Per', images |-> 0, values |-> 0]
    BY <2>1, <2>4, <2>5, <2>7
  <2>9. Len(rev'.rows) - taken' = 0
    BY <1>1, <1>2, <2>2
  <2>10. HeapExact'
    BY <1>1, <2>1, <2>4, <2>6, <2>7, <2>8, <2>9 DEF HeapExact, Per
  <2> QED BY <1>2, <2>3, <2>10 DEF PInv
<1>5. \/ pc' = "abort" /\ UNCHANGED <<rev, heap>>
      \/ \E type \in {"WRITE_ROWS", "UPDATE_ROWS", "DELETE_ROWS"} :
             /\ pc' = "rows" /\ DOMAIN rev' = DOMAIN NoRev
             /\ rev'.rows = <<>> /\ rev'.rowsold = <<>>
             /\ rev'.totalrows = InitRows /\ rev'.type = type
             /\ heap' = [heap EXCEPT !.arrays = @ + IF type = "UPDATE_ROWS" THEN 2 ELSE 1]
  <2>1. PICK type \in {"WRITE_ROWS", "UPDATE_ROWS", "DELETE_ROWS"} :
           LET count == decodeint(ev', hdrlen + 8)
               len   == BitmapLen(count.v)
           IN IF ReadUint(ev', hdrlen, 6) = table.tableid /\ count.v = Len(table.types)
                THEN /\ pc' = "rows"
                     /\ cur' = count.cur + BitmapBytes(type, count.v)
                     /\ rev' = [NoRev EXCEPT !.type = type, !.tableid = table.tableid,
                                  !.isused = count.cur, !.isused_u = count.cur + len,
                                  !.evlen = ReadUint(ev', 9, 4), !.totalrows = InitRows]
                     /\ heap' = [heap EXCEPT !.arrays = @ + IF type = "UPDATE_ROWS" THEN 2 ELSE 1]
                ELSE pc' = "abort" /\ UNCHANGED <<cur, rev, heap>>
    BY Zenon DEF ParseRowsHead
  <2> DEFINE count == decodeint(ev', hdrlen + 8)
             known == ReadUint(ev', hdrlen, 6) = table.tableid /\ count.v = Len(table.types)
             a == count.cur
             b == count.cur + BitmapLen(count.v)
             d == ReadUint(ev', 9, 4)
  <2>2. IF known THEN /\ pc' = "rows"
                      /\ rev' = [NoRev EXCEPT !.type = type, !.tableid = table.tableid,
                                   !.isused = a, !.isused_u = b,
                                   !.evlen = d, !.totalrows = InitRows]
                      /\ heap' = [heap EXCEPT !.arrays = @ + IF type = "UPDATE_ROWS" THEN 2 ELSE 1]
                 ELSE pc' = "abort" /\ UNCHANGED <<rev, heap>>
    BY <2>1, Zenon
  <2> HIDE DEF known, a, b, d
  <2>3. CASE ~known
    BY <2>2, <2>3
  <2>4. CASE known
    <3>1. /\ rev'.rows = <<>> /\ rev'.rowsold = <<>> /\ DOMAIN rev' = DOMAIN NoRev
          /\ rev'.totalrows = InitRows /\ rev'.type = type
      BY <2>2, <2>4 DEF NoRev
    <3> QED BY <2>2, <2>4, <3>1, Zenon
  <2> QED BY <2>3, <2>4
<1> QED BY <1>3, <1>4, <1>5

\* parseRowsEvent: the row just decoded is stored behind the others.
LEMMA RowKept ==
    ASSUME PInv, pc = "rows", NEW old, NEW new,
           IsSequence(new.cells), IsUpdate => IsSequence(old.cells),
           KeepRow(Len(rev.rows), old, new), UNCHANGED <<hdrlen, table, taken, pc>>
    PROVE  PInv'
<1> DEFINE n == Len(rev.rows)
           oldvalues == IF IsUpdate THEN Values(old.cells) ELSE 0
<1>1. /\ rev' = [rev EXCEPT !.totalrows = Grown(n, @), !.rows = Append(@, new.cells),
                            !.rowsold = IF IsUpdate THEN Append(@, old.cells) ELSE @]
      /\ heap' = [heap EXCEPT
           !.images = @ + IF IsUpdate THEN 2 ELSE 1,
           !.values = @ + Values(new.cells) + oldvalues]
  BY DEF KeepRow
<1>2. /\ AreRows(rev.rows) /\ AreRows(rev.rowsold) /\ taken = 0 /\ rev.totalrows \in Nat
      /\ rev.totalrows > 0 /\ n \in Nat /\ n <= rev.totalrows
      /\ Len(rev.rowsold) = IF IsUpdate THEN n ELSE 0
      /\ HasFields(rev)
  BY HeldAreNumbers DEF PInv, RowsInv, ArraysFit
<1>3. /\ heap = [table |-> heap.table, arrays |-> heap.arrays,
                 images |-> heap.images, values |-> heap.values]
      /\ heap.table = IF table = NoTable THEN 0 ELSE 3
      /\ heap.arrays = Per /\ heap.images = Per * (n - taken) /\ heap.values = HeldValues
  BY HeapFields
<1>4. /\ rev'.rows = Append(rev.rows, new.cells)
      /\ rev'.rowsold = IF IsUpdate THEN Append(rev.rowsold, old.cells) ELSE rev.rowsold
      /\ rev'.totalrows = Grown(n, rev.totalrows) /\ rev'.type = rev.type
      /\ DOMAIN rev' = DOMAIN rev
  <2> HIDE DEF n
  <2> QED BY <1>1, <1>2 DEF HasFields
<1>5. IsUpdate' = IsUpdate /\ Per' = Per
  BY <1>4 DEF IsUpdate, Per
<1>6. /\ AreRows(rev'.rows) /\ Len(rev'.rows) = n + 1
      /\ ValuesOf(rev'.rows, 1 .. n + 1) = ValuesOf(rev.rows, 1 .. n) + Values(new.cells)
  BY <1>2, <1>4, RowAppended
<1>7. /\ AreRows(rev'.rowsold) /\ Len(rev'.rowsold) = IF IsUpdate THEN n + 1 ELSE 0
      /\ ValuesOf(rev'.rowsold, 1 .. Len(rev'.rowsold))
           = ValuesOf(rev.rowsold, 1 .. Len(rev.rowsold)) + oldvalues
  <2>1. CASE IsUpdate
    <3> DEFINE all == rev.rowsold
    <3>1. AreRows(all) /\ IsSequence(old.cells) /\ Len(all) = n
      BY <1>2, <2>1
    <3>2. rev'.rowsold = Append(all, old.cells) /\ oldvalues = Values(old.cells)
      BY <1>4, <2>1
    <3> HIDE DEF all, n, oldvalues
    <3>3. /\ AreRows(Append(all, old.cells)) /\ Len(Append(all, old.cells)) = Len(all) + 1
          /\ ValuesOf(Append(all, old.cells), 1 .. Len(all) + 1)
               = ValuesOf(all, 1 .. Len(all)) + Values(old.cells)
      BY <3>1, RowAppended
    <3>4. IF IsUpdate THEN n + 1 = Len(all) + 1 ELSE FALSE
      BY <2>1, <3>1
    <3> QED BY <2>1, <3>1, <3>2, <3>3, <3>4 DEF all
  <2>2. CASE ~IsUpdate
    <3>1. ValuesOf(rev.rowsold, 1 .. Len(rev.rowsold)) \in Nat
      <4>1. ValuesOf(rev.rowsold, taken + 1 .. Len(rev.rowsold)) \in Nat
        BY HeldAreNumbers DEF PInv
      <4>2. taken + 1 = 1
        BY <1>2
      <4> QED BY <4>1, <4>2
    <3> QED BY <1>2, <1>4, <2>2, <3>1
  <2> QED BY <2>1, <2>2
<1>8. oldvalues \in Nat /\ Values(new.cells) \in Nat
  BY ValuesAreFinite
<1>9. Grown(n, rev.totalrows) \in Nat /\ Grown(n, rev.totalrows) >= n + 1
  <2> HIDE DEF n
  <2> QED BY <1>2 DEF Grown
<1>10. RowsInv' /\ ArraysFit' /\ ReaderInv'
  <2>1. taken' = 0 /\ pc' = "rows"
    BY <1>2
  <2>2. ArraysFit'
    <3> HIDE DEF n
    <3> QED BY <1>4, <1>5, <1>6, <1>7, <1>9 DEF ArraysFit
  <2>3. RowsInv'
    <3>1. 0 \in 0 .. Len(rev'.rows) /\ rev'.totalrows \in Nat /\ rev'.totalrows > 0
      <4> HIDE DEF n
      <4> QED BY <1>2, <1>4, <1>6, <1>9
    <3>2. HasFields(rev')
      BY <1>2, <1>4 DEF HasFields
    <3> QED BY <1>2, <1>4, <1>6, <1>7, <2>1, <3>1, <3>2 DEF RowsInv
  <2>4. ReaderInv'
    BY DEF PInv, ReaderInv
  <2> QED BY <2>2, <2>3, <2>4
<1>11. n \in Nat /\ taken = 0 /\ taken' = 0
  BY <1>2
<1>12. HeldValues' = HeldValues + Values(new.cells) + oldvalues
  <2>0. taken + 1 = 1 /\ taken' + 1 = 1
    BY <1>11
  <2>1. /\ HeldValues = ValuesOf(rev.rows, 1 .. n) + ValuesOf(rev.rowsold, 1 .. Len(rev.rowsold))
        /\ ValuesOf(rev.rows, 1 .. n) \in Nat
        /\ ValuesOf(rev.rowsold, 1 .. Len(rev.rowsold)) \in Nat
    <3>1. /\ ValuesOf(rev.rows, taken + 1 .. n) \in Nat
          /\ ValuesOf(rev.rowsold, taken + 1 .. Len(rev.rowsold)) \in Nat
      BY HeldAreNumbers DEF PInv
    <3> QED BY <2>0, <3>1 DEF HeldValues
  <2>2. HeldValues' = ValuesOf(rev'.rows, 1 .. n + 1)
                      + ValuesOf(rev'.rowsold, 1 .. Len(rev'.rowsold))
    <3>1. HeldValues' = ValuesOf(rev'.rows, taken' + 1 .. Len(rev'.rows))
                      + ValuesOf(rev'.rowsold, taken' + 1 .. Len(rev'.rowsold))
      BY DEF HeldValues
    <3> QED BY <1>6, <2>0, <3>1
  <2> HIDE DEF n, oldvalues
  <2> QED BY <1>6, <1>7, <1>8, <2>1, <2>2
<1>13. HeapExact'
  <2>1. heap' = [table |-> heap.table, arrays |-> heap.arrays, images |-> heap.images + Per,
                 values |-> heap.values + Values(new.cells) + oldvalues]
    <3> HIDE DEF oldvalues
    <3> QED BY <1>1, <1>3 DEF Per
  <2>2. heap.images + Per = Per' * (Len(rev'.rows) - taken')
    <3>1. Len(rev'.rows) - taken' = n + 1 /\ n - taken = n
      <4> HIDE DEF n
      <4> QED BY <1>11, <1>6
    <3>2. heap.images = Per * n /\ Per \in {1, 2}
      BY <1>3, <3>1 DEF Per
    <3>3. Per * n + Per = Per * (n + 1)
      <4> HIDE DEF n
      <4>1. CASE Per = 1
        BY <1>11, <4>1
      <4>2. CASE Per = 2
        BY <1>11, <4>2
      <4> QED BY <3>2, <4>1, <4>2
    <3> QED BY <1>5, <3>1, <3>2, <3>3
  <2>3. HeldValues' = heap.values + Values(new.cells) + oldvalues
    BY <1>3, <1>12
  <2>4. /\ heap' = [table |-> heap'.table, arrays |-> heap'.arrays,
                    images |-> heap'.images, values |-> heap'.values]
        /\ heap'.table = heap.table /\ heap'.arrays = heap.arrays
        /\ heap'.images = heap.images + Per
        /\ heap'.values = heap.values + Values(new.cells) + oldvalues
    <3> DEFINE x == heap.images + Per
               y == heap.values + Values(new.cells) + oldvalues
    <3> HIDE DEF x, y
    <3>1. heap' = [table |-> heap.table, arrays |-> heap.arrays, images |-> x, values |-> y]
      BY <2>1 DEF x, y
    <3>2. heap'.table = heap.table /\ heap'.arrays = heap.arrays /\ heap'.images = x
          /\ heap'.values = y
      BY <3>1
    <3> QED BY <3>1, <3>2 DEF x, y
  <2>5. pc' = "rows" /\ table' = table
    OBVIOUS
  <2>6. /\ heap'.table = IF table' = NoTable THEN 0 ELSE 3
        /\ heap'.arrays = Per'
        /\ heap'.images = Per' * (Len(rev'.rows) - taken')
        /\ heap'.values = HeldValues'
    BY <1>3, <1>5, <2>2, <2>3, <2>4
  <2> QED BY <2>4, <2>5, <2>6, FieldsPrimed
<1> QED BY <1>10, <1>13 DEF PInv

\* value2Cell, parseRowsEvent: one round of the loop.
LEMMA DecodeRowStep ==
    ASSUME PInv, DecodeRow
    PROVE  PInv'
<1>1. pc = "rows" /\ UNCHANGED <<hdrlen, table, taken, pc>>
  BY DEF DecodeRow
<1>2. Len(table.types) \in Nat
  BY Appended DEF PInv, ReaderInv
<1>3. \A o, isused : IsSequence(ImageAt(o, isused).cells)
  BY <1>2, ImageIsCells DEF ImageAt
<1>4. CASE IsUpdate
  <2> DEFINE first == ImageAt(cur, rev.isused)
             second == ImageAt(first.cur, rev.isused_u)
  <2>1. KeepRow(Len(rev.rows), first, second)
    BY <1>4 DEF DecodeRow, DecodeSecond
  <2>2. IsSequence(first.cells) /\ IsSequence(second.cells)
    BY <1>3
  <2> HIDE DEF first, second
  <2> QED BY <1>1, <2>1, <2>2, RowKept
<1>5. CASE ~IsUpdate
  <2> DEFINE image == ImageAt(cur, rev.isused)
  <2>1. KeepRow(Len(rev.rows), NoCell, image)
    BY <1>5 DEF DecodeRow
  <2>2. IsSequence(image.cells)
    BY <1>3
  <2> HIDE DEF image
  <2> QED BY <1>1, <1>5, <2>1, <2>2, RowKept
<1> QED BY <1>4, <1>5

\* parseRowsEvent: behind the last row the loop ends, nothing is freed.
LEMMA RowsParsedStep ==
    ASSUME PInv, RowsParsed
    PROVE  PInv'
<1>1. pc = "rows" /\ pc' = "parsed" /\ UNCHANGED <<hdrlen, table, rev, taken, heap>>
  BY DEF RowsParsed
<1>2. RowsInv' /\ ArraysFit' /\ ReaderInv'
  BY <1>1 DEF PInv, RowsInv, ArraysFit, IsUpdate, ReaderInv
<1>3. HeapExact'
  BY <1>1 DEF PInv, HeapExact, HeldValues, IsUpdate
<1> QED BY <1>2, <1>3 DEF PInv

\* setRowsEventBuffer: the arrays are freed, the images live on.
LEMMA BufferStep ==
    ASSUME PInv, SetRowsEventBuffer
    PROVE  PInv'
<1>1. pc = "parsed" /\ pc' = "buffered" /\ UNCHANGED <<hdrlen, table, rev, taken>>
      /\ heap' = [heap EXCEPT !.arrays = @ - Per]
  BY DEF SetRowsEventBuffer, Per
<1>2. RowsInv' /\ ArraysFit' /\ ReaderInv'
  BY <1>1 DEF PInv, RowsInv, ArraysFit, IsUpdate, ReaderInv
<1>3. /\ heap = [table |-> heap.table, arrays |-> heap.arrays,
                 images |-> heap.images, values |-> heap.values]
      /\ heap.table = IF table = NoTable THEN 0 ELSE 3
      /\ heap.arrays = Per /\ heap.images = Per * (Len(rev.rows) - taken)
      /\ heap.values = HeldValues
  BY <1>1, HeapFields
<1>4. heap.arrays - Per = 0
  BY <1>3 DEF Per
<1>5. heap' = [table |-> heap.table, arrays |-> 0, images |-> heap.images,
               values |-> heap.values]
  BY <1>1, <1>3, <1>4
<1>6. Per' = Per /\ HeldValues' = HeldValues
  BY <1>1 DEF Per, IsUpdate, HeldValues
<1>7. /\ heap' = [table |-> heap'.table, arrays |-> heap'.arrays,
                  images |-> heap'.images, values |-> heap'.values]
      /\ heap'.table = heap.table /\ heap'.arrays = 0
      /\ heap'.images = heap.images /\ heap'.values = heap.values
  BY <1>5
<1>8. HeapExact'
  BY <1>1, <1>3, <1>6, <1>7, FieldsPrimed
<1> QED BY <1>2, <1>8 DEF PInv

\* What freeBinlogRow frees of the values is what the row held.
LEMMA RowFreed ==
    ASSUME PInv, taken < Len(rev.rows)
    PROVE  /\ FreedOfRow(rev) \in Nat
           /\ HeldValues = FreedOfRow(rev)
                + (ValuesOf(rev.rows, taken + 1 + 1 .. Len(rev.rows))
                   + ValuesOf(rev.rowsold, taken + 1 + 1 .. Len(rev.rowsold)))
           /\ ValuesOf(rev.rows, taken + 1 + 1 .. Len(rev.rows)) \in Nat
           /\ ValuesOf(rev.rowsold, taken + 1 + 1 .. Len(rev.rowsold)) \in Nat
           /\ taken + 1 = Len(rev.rows) =>
                /\ ValuesOf(rev.rows, taken + 1 + 1 .. Len(rev.rows)) = 0
                /\ ValuesOf(rev.rowsold, taken + 1 + 1 .. Len(rev.rowsold)) = 0
<1> DEFINE new == rev.rows
           old == rev.rowsold
           next == taken + 1 + 1
           ofold == IF IsUpdate THEN Values(old[taken + 1]) ELSE 0
<1>1. /\ AreRows(new) /\ AreRows(old) /\ Len(new) \in Nat /\ Len(old) \in Nat
      /\ taken \in Nat /\ DOMAIN new = 1 .. Len(new) /\ DOMAIN old = 1 .. Len(old)
      /\ Len(old) = IF IsUpdate THEN Len(new) ELSE 0
  BY HeldAreNumbers DEF PInv, RowsInv, ArraysFit
<1>2. HeldValues = ValuesOf(new, taken + 1 .. Len(new)) + ValuesOf(old, taken + 1 .. Len(old))
  BY DEF HeldValues
<1>3. FreedOfRow(rev) = Values(new[taken + 1]) + ofold
  BY DEF FreedOfRow, IsUpdate
<1>4. taken < Len(new)
  OBVIOUS
<1> HIDE DEF new, old
<1>5. ValuesOf(new, taken + 1 .. Len(new)) = ValuesOf(new, next .. Len(new)) + Values(new[taken + 1])
  BY <1>1, <1>4, RowTaken
<1>6. taken + 1 \in DOMAIN new /\ Values(new[taken + 1]) \in Nat
  <2>1. taken + 1 \in DOMAIN new
    BY <1>1, <1>4
  <2>2. IsSequence(new[taken + 1])
    BY <1>1, <2>1 DEF AreRows
  <2> QED BY <2>1, <2>2, ValuesAreFinite
<1>7. /\ ValuesOf(new, next .. Len(new)) \in Nat
      /\ next .. Len(new) = {} => ValuesOf(new, next .. Len(new)) = 0
  <2>1. next .. Len(new) \in SUBSET DOMAIN new
    BY <1>1
  <2> QED BY <1>1, <2>1, BlocksAreFinite
<1>8. /\ ValuesOf(old, next .. Len(old)) \in Nat
      /\ next .. Len(old) = {} => ValuesOf(old, next .. Len(old)) = 0
  <2>1. next .. Len(old) \in SUBSET DOMAIN old
    BY <1>1
  <2> QED BY <1>1, <2>1, BlocksAreFinite
<1>9. ofold \in Nat /\ ValuesOf(old, taken + 1 .. Len(old)) = ValuesOf(old, next .. Len(old)) + ofold
  <2>1. CASE IsUpdate
    <3>1. Len(old) = Len(new) /\ taken < Len(old) /\ taken + 1 \in DOMAIN old
      BY <1>1, <1>4, <1>6, <2>1
    <3>2. ValuesOf(old, taken + 1 .. Len(old))
            = ValuesOf(old, next .. Len(old)) + Values(old[taken + 1])
      BY <1>1, <3>1, RowTaken
    <3>3. IsSequence(old[taken + 1])
      BY <1>1, <3>1 DEF AreRows
    <3>4. Values(old[taken + 1]) \in Nat
      BY <3>3, ValuesAreFinite
    <3> QED BY <2>1, <3>2, <3>4
  <2>2. CASE ~IsUpdate
    <3>1. taken + 1 .. Len(old) = {} /\ next .. Len(old) = {}
      BY <1>1, <2>2
    <3>2. ofold = 0
      BY <2>2
    <3>3. ValuesOf(old, taken + 1 .. Len(old)) = ValuesOf(old, next .. Len(old))
      BY <3>1, Zenon
    <3>4. ValuesOf(old, next .. Len(old)) \in Nat
      BY <1>8
    <3> DEFINE x == ValuesOf(old, taken + 1 .. Len(old))
               y == ValuesOf(old, next .. Len(old))
    <3> HIDE DEF x, y, ofold
    <3>5. x = y + ofold /\ ofold \in Nat
      BY <3>2, <3>3, <3>4 DEF x, y
    <3> QED BY <3>5 DEF x, y
  <2> QED BY <2>1, <2>2
<1>10. HeldValues = FreedOfRow(rev) + (ValuesOf(new, next .. Len(new)) + ValuesOf(old, next .. Len(old)))
       /\ FreedOfRow(rev) \in Nat
  <2> DEFINE a == ValuesOf(new, taken + 1 .. Len(new))
             b == ValuesOf(old, taken + 1 .. Len(old))
             x == ValuesOf(new, next .. Len(new))
             y == ValuesOf(old, next .. Len(old))
             v == Values(new[taken + 1])
  <2>1. /\ HeldValues = a + b /\ FreedOfRow(rev) = v + ofold /\ a = x + v /\ b = y + ofold
        /\ v \in Nat /\ x \in Nat /\ y \in Nat /\ ofold \in Nat
    BY <1>2, <1>3, <1>5, <1>6, <1>7, <1>8, <1>9
  <2>2. HeldValues = FreedOfRow(rev) + (x + y) /\ FreedOfRow(rev) \in Nat
    <3> HIDE DEF a, b, x, y, v, ofold
    <3> QED BY <2>1
  <2> QED BY <2>2
<1>11. ASSUME taken + 1 = Len(new)
       PROVE  next .. Len(new) = {} /\ next .. Len(old) = {}
  BY <1>1, <1>11
<1> QED BY <1>7, <1>8, <1>10, <1>11 DEF new, old

\* The event is gone and with it all that was allocated for it.
LEMMA Forgotten ==
    ASSUME PInv, pc \notin {"abort", "closed"}, Forget, UNCHANGED <<hdrlen, table>>,
           heap' = [table |-> heap.table, arrays |-> 0, images |-> 0, values |-> 0]
    PROVE  PInv'
<1>1. rev' = NoRev /\ taken' = 0 /\ pc' = "idle"
  BY DEF Forget
<1>2. rev'.rows = <<>> /\ rev'.rowsold = <<>> /\ rev'.totalrows = 0 /\ rev'.type = "none"
      /\ HasFields(rev')
  BY <1>1 DEF NoRev, HasFields
<1>3. RowsInv' /\ ArraysFit' /\ ReaderInv'
  BY <1>1, <1>2, NoRows DEF PInv, RowsInv, ArraysFit, IsUpdate, ReaderInv
<1>4. heap.table = IF table = NoTable THEN 0 ELSE 3
  BY HeapFields
<1>5. HeapExact'
  <2>1. Per' * 0 = 0
    BY DEF Per
  <2>2. /\ heap' = [table |-> heap'.table, arrays |-> heap'.arrays,
                    images |-> heap'.images, values |-> heap'.values]
        /\ heap'.table = heap.table /\ heap'.arrays = 0
        /\ heap'.images = 0 /\ heap'.values = 0
    OBVIOUS
  <2>3. /\ heap'.table = IF table' = NoTable THEN 0 ELSE 3
        /\ heap'.arrays = IF pc' \in {"rows", "parsed"} THEN Per' ELSE 0
        /\ heap'.images = Per' * (IF pc' = "idle" THEN 0 ELSE Len(rev'.rows) - taken')
        /\ heap'.values = IF pc' = "idle" THEN 0 ELSE HeldValues'
    BY <1>1, <1>4, <2>1, <2>2
  <2> QED BY <2>2, <2>3, FieldsPrimed
<1> QED BY <1>3, <1>5 DEF PInv

\* freeBinlogRow: the images and the values of one row, of the last row the event.
LEMMA FreeRowStep ==
    ASSUME PInv, FreeBinlogRow
    PROVE  PInv'
<1> DEFINE n == Len(rev.rows)
           left == ValuesOf(rev.rows, taken + 1 + 1 .. Len(rev.rows))
                   + ValuesOf(rev.rowsold, taken + 1 + 1 .. Len(rev.rowsold))
<1>1. /\ pc = "buffered" /\ taken < n /\ UNCHANGED <<hdrlen, table>>
      /\ heap' = [heap EXCEPT !.images = @ - Per, !.values = @ - FreedOfRow(rev)]
      /\ IF taken + 1 < n THEN taken' = taken + 1 /\ UNCHANGED <<rev, pc>> ELSE Forget
  BY DEF FreeBinlogRow, Per
<1>2. /\ heap = [table |-> heap.table, arrays |-> heap.arrays,
                 images |-> heap.images, values |-> heap.values]
      /\ heap.table = IF table = NoTable THEN 0 ELSE 3
      /\ heap.arrays = 0 /\ heap.images = Per * (n - taken) /\ heap.values = HeldValues
  BY <1>1, HeapFields
<1>3. /\ FreedOfRow(rev) \in Nat /\ HeldValues = FreedOfRow(rev) + left /\ left \in Nat
      /\ taken + 1 = n => left = 0
  BY <1>1, RowFreed
<1>4. n \in Nat /\ taken \in Nat
  BY HeldAreNumbers DEF PInv
<1>5. heap.values - FreedOfRow(rev) = left
  <2> HIDE DEF left
  <2> QED BY <1>2, <1>3
<1>6. heap.images - Per = Per * (n - (taken + 1))
  <2> HIDE DEF n
  <2>1. CASE Per = 1
    BY <1>2, <1>4, <2>1
  <2>2. CASE Per = 2
    BY <1>2, <1>4, <2>2
  <2> QED BY <2>1, <2>2 DEF Per
<1> HIDE DEF left
<1>7. heap' = [table |-> heap.table, arrays |-> 0, images |-> Per * (n - (taken + 1)),
               values |-> left]
  <2> DEFINE i == Per * (n - (taken + 1))
             f == FreedOfRow(rev)
  <2>1. heap.images - Per = i /\ heap.values - f = left
    BY <1>5, <1>6
  <2> HIDE DEF i, f
  <2>2. heap' = [heap EXCEPT !.images = @ - Per, !.values = @ - f]
    BY <1>1 DEF f
  <2> QED BY <1>2, <2>1, <2>2 DEF i
<1>8. CASE taken + 1 < n
  <2>1. taken' = taken + 1 /\ UNCHANGED <<rev, pc>>
    BY <1>1, <1>8
  <2>2. RowsInv' /\ ArraysFit' /\ ReaderInv'
    <3>1. taken + 1 \in 0 .. n
      <4> HIDE DEF n
      <4> QED BY <1>4, <1>8
    <3> QED BY <1>1, <2>1, <3>1 DEF PInv, RowsInv, ArraysFit, IsUpdate, ReaderInv
  <2>3. Per' = Per /\ HeldValues' = left
    BY <2>1 DEF Per, IsUpdate, HeldValues, left
  <2>4. /\ heap' = [table |-> heap'.table, arrays |-> heap'.arrays,
                    images |-> heap'.images, values |-> heap'.values]
        /\ heap'.table = heap.table /\ heap'.arrays = 0
        /\ heap'.images = Per * (n - (taken + 1)) /\ heap'.values = left
    <3> DEFINE i == Per * (n - (taken + 1))
    <3> HIDE DEF i
    <3>1. heap' = [table |-> heap.table, arrays |-> 0, images |-> i, values |-> left]
      BY <1>7 DEF i
    <3>2. heap'.table = heap.table /\ heap'.arrays = 0 /\ heap'.images = i /\ heap'.values = left
      BY <3>1
    <3> QED BY <3>1, <3>2 DEF i
  <2>5. /\ heap'.table = IF table' = NoTable THEN 0 ELSE 3
        /\ heap'.images = Per' * (Len(rev'.rows) - taken')
        /\ heap'.values = HeldValues' /\ pc' = "buffered"
    BY <1>1, <1>2, <2>1, <2>3, <2>4
  <2>6. HeapExact'
    BY <2>4, <2>5, FieldsPrimed
  <2> QED BY <2>2, <2>6 DEF PInv
<1>9. CASE ~(taken + 1 < n)
  <2>1. Forget /\ taken + 1 = n
    <3>1. taken + 1 = n
      <4>1. taken < n /\ ~(taken + 1 < n)
        BY <1>1, <1>9
      <4> HIDE DEF n
      <4> QED BY <1>4, <4>1
    <3> QED BY <1>1, <1>9, <3>1
  <2>2. left = 0 /\ Per * (n - (taken + 1)) = 0
    <3>1. n - (taken + 1) = 0
      <4> HIDE DEF n
      <4> QED BY <1>4, <2>1
    <3>2. Per * 0 = 0
      BY DEF Per
    <3> QED BY <1>3, <2>1, <3>1, <3>2
  <2>3. heap' = [table |-> heap.table, arrays |-> 0, images |-> 0, values |-> 0]
    BY <1>7, <2>2
  <2>4. pc \notin {"abort", "closed"}
    BY <1>1
  <2> QED BY <1>1, <2>1, <2>3, <2>4, Forgotten
<1> QED BY <1>8, <1>9

\* rowsevFreeRows: the arrays, every image and every value at once.
LEMMA FreeRowsStep ==
    ASSUME PInv, RowsevFreeRows
    PROVE  PInv'
<1> DEFINE new == ValuesOf(rev.rows, DOMAIN rev.rows)
           old == ValuesOf(rev.rowsold, DOMAIN rev.rowsold)
           n == Len(rev.rows)
           m == Len(rev.rowsold)
<1>1. /\ pc = "parsed" /\ Forget /\ UNCHANGED <<hdrlen, table>>
      /\ heap' = [heap EXCEPT !.arrays = @ - Per, !.images = @ - n - m,
                              !.values = @ - new - old]
  BY DEF RowsevFreeRows, Per
<1>2. /\ heap = [table |-> heap.table, arrays |-> heap.arrays,
                 images |-> heap.images, values |-> heap.values]
      /\ heap.arrays = Per /\ heap.images = Per * (n - taken) /\ heap.values = HeldValues
  BY <1>1, HeapFields
<1>3. taken = 0 /\ taken + 1 = 1
  <2>1. taken = 0
    BY <1>1 DEF PInv, RowsInv
  <2> QED BY <2>1
<1>4. new \in Nat /\ old \in Nat /\ HeldValues = new + old /\ n \in Nat
      /\ m = IF IsUpdate THEN n ELSE 0
  <2>1. /\ DOMAIN rev.rows = 1 .. n /\ DOMAIN rev.rowsold = 1 .. m /\ n \in Nat
        /\ ValuesOf(rev.rows, taken + 1 .. n) \in Nat
        /\ ValuesOf(rev.rowsold, taken + 1 .. m) \in Nat
    BY HeldAreNumbers DEF PInv
  <2>2. HeldValues = ValuesOf(rev.rows, taken + 1 .. n) + ValuesOf(rev.rowsold, taken + 1 .. m)
    BY DEF HeldValues
  <2>3. m = IF IsUpdate THEN n ELSE 0
    BY DEF PInv, ArraysFit
  <2> QED BY <1>3, <2>1, <2>2, <2>3
<1>5. heap.arrays - Per = 0 /\ heap.images - n - m = 0
  <2>1. Per = (IF IsUpdate THEN 2 ELSE 1) /\ n - taken = n
    <3> HIDE DEF n
    <3> QED BY <1>3, <1>4 DEF Per
  <2> HIDE DEF n, m
  <2>2. CASE IsUpdate
    BY <1>2, <1>4, <2>1, <2>2
  <2>3. CASE ~IsUpdate
    BY <1>2, <1>4, <2>1, <2>3
  <2> QED BY <2>2, <2>3
<1>6. heap.values - new - old = 0
  <2> HIDE DEF new, old
  <2> QED BY <1>2, <1>4
<1>7. heap' = [table |-> heap.table, arrays |-> 0, images |-> 0, values |-> 0]
  <2> HIDE DEF new, old, n, m
  <2> QED BY <1>1, <1>2, <1>5, <1>6
<1>8. pc \notin {"abort", "closed"}
  BY <1>1
<1> QED BY <1>1, <1>7, <1>8, Forgotten

\* freeBinlogClient: the client is closed with whatever it holds.
LEMMA CloseStep ==
    ASSUME PInv, FreeBinlogClient
    PROVE  PInv'
<1>1. pc' = "closed" /\ UNCHANGED <<hdrlen, table, rev, taken, heap>>
  BY DEF FreeBinlogClient
<1>2. RowsInv' /\ ArraysFit' /\ ReaderInv'
  BY <1>1 DEF PInv, RowsInv, ArraysFit, IsUpdate, ReaderInv
<1>3. HeapExact'
  BY <1>1 DEF HeapExact
<1> QED BY <1>2, <1>3 DEF PInv

\* A step that leaves the parser alone.
LEMMA ParserStutter ==
    ASSUME PInv, UNCHANGED vars
    PROVE  PInv'
<1>1. UNCHANGED <<hdrlen, table, rev, taken, heap, pc>>
  BY DEF vars
<1>2. RowsInv' /\ ArraysFit' /\ ReaderInv' /\ HeapExact'
  BY <1>1 DEF PInv, RowsInv, ArraysFit, IsUpdate, ReaderInv, HeapExact, HeldValues
<1> QED BY <1>2 DEF PInv
-----------------------------------------------------------------------------
(* The results. *)

\* The inductive invariant of logevent.c's allocations.
LEMMA ParserInvariant == Spec => []PInv
<1>1. Init => PInv
  BY ParserInit
<1>2. PInv /\ [Next]_vars => PInv'
  BY FDEStep, TableMapStep, RowsHeadStep, DecodeRowStep, RowsParsedStep, BufferStep,
     FreeRowStep, FreeRowsStep, CloseStep, ParserStutter DEF Next
<1> QED BY <1>1, <1>2, PTL DEF Spec

\* parseTableMapEvent, parseRowsEvent, setRowsEventBuffer, freeBinlogRow and
\* rowsevFreeRows: whatever the tables, the events and the number of their rows,
\* no block is freed twice or forgotten while the client is open.
THEOREM HeapIsExact == Spec => []HeapExact
<1>1. PInv => HeapExact
  BY DEF PInv
<1> QED BY <1>1, ParserInvariant, PTL

\* parseRowsEvent: no row is stored behind the end of its array, however often it
\* was grown, and an update's old images keep pace with the new ones.
THEOREM RowsFitArrays == Spec => []ArraysFit
<1>1. PInv => ArraysFit
  BY DEF PInv
<1> QED BY <1>1, ParserInvariant, PTL

-----------------------------------------------------------------------------
(* What the master may send. *)

CellsOf(col) == col.vals \union (IF col.null THEN {Null} ELSE {})

\* A row has for every column one of its values, or none.
LEMMA RowsOfAre ==
    ASSUME NEW c, Len(c) \in Nat, NEW row \in RowsOf(c)
    PROVE  \A i \in 1 .. Len(c) : row[i] \in CellsOf(c[i])
<1> DEFINE n == Len(c)
           All == UNION {CellsOf(c[i]) : i \in 1 .. n}
           D == SUBSET Seq(All)
           More(m, rows) == {Append(r, v) : r \in rows, v \in CellsOf(c[m])}
           F(f) == [m \in 0 .. n |-> IF m = 0 THEN {<<>>} ELSE More(m, f[m - 1])]
           G == [p \in (1 .. n) \X D |-> More(p[1], p[2])]
           first == CHOOSE f : f = F(f)
<1>1. RowsOf(c) = first[n]
  BY DEF RowsOf, CellsOf
<1>2. \A m \in 1 .. n : CellsOf(c[m]) \subseteq All
  OBVIOUS
<1> HIDE DEF All
<1>3. ASSUME NEW m \in 1 .. n, NEW rows \in D PROVE More(m, rows) \in D
  <2>1. ASSUME NEW r \in rows, NEW v \in CellsOf(c[m]) PROVE Append(r, v) \in Seq(All)
    <3>1. r \in Seq(All) /\ v \in All
      BY <1>2
    <3> QED BY <3>1, AppendProperties
  <2> QED BY <2>1
<1>4. \A m \in 1 .. n : \A rows \in D : G[<<m, rows>>] = More(m, rows)
  <2> TAKE m \in 1 .. n
  <2> TAKE rows \in D
  <2>1. <<m, rows>> \in (1 .. n) \X D /\ <<m, rows>>[1] = m /\ <<m, rows>>[2] = rows
    OBVIOUS
  <2> HIDE DEF D, More
  <2> QED BY <2>1
<1>5. {<<>>} \in D
  <2>1. <<>> \in Seq(All)
    OBVIOUS
  <2> QED BY <2>1
<1> HIDE DEF D, More
<1>6. StaysWithin(G, n, D)
  <2> HIDE DEF G
  <2> QED BY <1>3, <1>4 DEF StaysWithin
<1> HIDE DEF G
<1>7. PICK g : Steps(g, n, {<<>>}, G)
  BY StepsExist
<1>8. /\ g[0] = {<<>>} /\ \A i \in 1 .. n : g[i] = G[<<i, g[i - 1]>>]
      /\ \A i \in 0 .. n : g[i] \in D
  BY <1>5, <1>6, <1>7, StepsAre, StepsStay DEF Within
<1>9. \A m \in 0 .. n : m # 0 => g[m] = More(m, g[m - 1])
  <2> SUFFICES ASSUME NEW m \in 0 .. n, m # 0 PROVE g[m] = More(m, g[m - 1])
    OBVIOUS
  <2>1. m \in 1 .. n /\ m - 1 \in 0 .. n
    OBVIOUS
  <2>2. g[m - 1] \in D /\ g[m] = G[<<m, g[m - 1]>>]
    BY <1>8, <2>1
  <2> QED BY <1>4, <2>1, <2>2
<1>10. g = F(g)
  <2>1. g = [m \in 0 .. n |-> g[m]]
    <3>1. g = [i \in 0 .. n |-> IF i = 0 THEN {<<>>} ELSE G[<<i, g[i - 1]>>]]
      BY <1>7 DEF Steps
    <3> QED BY <3>1
  <2>2. \A m \in 0 .. n : g[m] = IF m = 0 THEN {<<>>} ELSE More(m, g[m - 1])
    BY <1>8, <1>9
  <2> QED BY <2>1, <2>2
<1>11. first = F(first)
  <2> HIDE DEF F
  <2> QED BY <1>10
<1> HIDE DEF first
<1>12. first[0] = {<<>>} /\ \A m \in 1 .. n : first[m] = More(m, first[m - 1])
  <2>1. \A m \in 0 .. n : first[m] = IF m = 0 THEN {<<>>} ELSE More(m, first[m - 1])
    BY <1>11
  <2>2. 0 \in 0 .. n /\ \A m \in 1 .. n : m \in 0 .. n /\ m # 0
    OBVIOUS
  <2> HIDE DEF F
  <2> QED BY <2>1, <2>2
<1> DEFINE Good == {m \in 0 .. n : \A r \in first[m] :
                      /\ r \in Seq(All) /\ Len(r) = m
                      /\ \A j \in 1 .. m : r[j] \in CellsOf(c[j])}
<1>13. 0 \in Good
  <2>1. <<>> \in Seq(All) /\ Len(<<>>) = 0 /\ 0 \in 0 .. n
    OBVIOUS
  <2>2. \A j \in 1 .. 0 : FALSE
    OBVIOUS
  <2> QED BY <1>12, <2>1, <2>2
<1>14. ASSUME NEW m \in 1 .. n, m - 1 \in Good PROVE m \in Good
  <2>1. ASSUME NEW s \in first[m]
        PROVE  s \in Seq(All) /\ Len(s) = m /\ \A j \in 1 .. m : s[j] \in CellsOf(c[j])
    <3>1. PICK r \in first[m - 1], v \in CellsOf(c[m]) : s = Append(r, v)
      BY <1>12 DEF More
    <3>2. r \in Seq(All) /\ Len(r) = m - 1 /\ \A j \in 1 .. m - 1 : r[j] \in CellsOf(c[j])
      BY <1>14
    <3>3. v \in All
      BY <1>2
    <3>4. /\ Append(r, v) \in Seq(All) /\ Len(Append(r, v)) = Len(r) + 1
          /\ \A j \in 1 .. Len(r) : Append(r, v)[j] = r[j]
          /\ Append(r, v)[Len(r) + 1] = v
      BY <3>2, <3>3, AppendProperties
    <3>5. Len(r) + 1 = m
      BY <3>2
    <3>6. ASSUME NEW j \in 1 .. m PROVE s[j] \in CellsOf(c[j])
      <4>1. CASE j = m
        BY <3>1, <3>4, <3>5, <4>1
      <4>2. CASE j # m
        <5>1. j \in 1 .. m - 1 /\ j \in 1 .. Len(r)
          BY <3>2, <4>2
        <5> QED BY <3>1, <3>2, <3>4, <5>1
      <4> QED BY <4>1, <4>2
    <3> QED BY <3>1, <3>4, <3>5, <3>6
  <2>2. m \in 0 .. n
    OBVIOUS
  <2> QED BY <2>1, <2>2
<1>15. Good \in SUBSET (0 .. n)
  OBVIOUS
<1>16. Good = 0 .. n
  <2> HIDE DEF Good
  <2> QED BY <1>13, <1>14, <1>15, Upwards
<1>17. n \in Good
  <2> HIDE DEF Good
  <2> QED BY <1>16
<1> QED BY <1>1, <1>17

\* A row of a table, whichever columns of it an image holds.
LEMMA RowOfTable ==
    ASSUME NEW c \in Tables, NEW row \in RowsOf(c), NEW used, used \in Seq(BOOLEAN),
           Len(used) = Len(c)
    PROVE  /\ RowOK(c, used, row)
           /\ DecimalsRead => DecimalsOK(c, row)
<1>1. /\ Len(c) \in 1 .. MostFields /\ DOMAIN c = 1 .. Len(c)
      /\ \A i \in 1 .. Len(c) : ColumnOK(c[i])
  BY TablesAssumption DEF TableOK
<1>2. Len(c) \in Nat \ {0}
  BY <1>1
<1>3. \A i \in 1 .. Len(c) : row[i] \in CellsOf(c[i])
  BY <1>2, RowsOfAre
<1>4. \A i \in 1 .. Len(c) : row[i] # Null => row[i] \in c[i].vals
  BY <1>3 DEF CellsOf
<1>5. \A i \in 1 .. Len(c) : row[i] # Null => ValueOK(c[i], row[i])
  BY <1>1, <1>4 DEF ColumnOK
<1>6. RowOK(c, used, row)
  BY <1>1, <1>2, <1>5 DEF RowOK
<1>7. ASSUME DecimalsRead PROVE DecimalsOK(c, row)
  BY <1>1, <1>4, <1>7 DEF DecimalsRead, DecimalsOK
<1> QED BY <1>6, <1>7

\* The columns an image holds: all of them, or some of a table of few columns
\* none of which may be null.
SomeOrAll(c, used) ==
    /\ used \in Seq(BOOLEAN) /\ Len(used) = Len(c)
    /\ \/ \A i \in 1 .. Len(c) : used[i]
       \/ c \in Partial /\ \E i \in 1 .. Len(c) : used[i]

\* The bits of the columns used, in either image.
LEMMA UsedColumns ==
    ASSUME NEW c \in Tables, NEW type, NEW used \in Usages(type, c)
    PROVE  /\ SomeOrAll(c, used.new) /\ SomeOrAll(c, used.old)
           /\ UsedOK(type, c, used)
<1> DEFINE some == IF c \in Partial THEN {u \in [DOMAIN c -> BOOLEAN] : \E i \in DOMAIN c : u[i]}
                                    ELSE {AllOf(c)}
<1>1. Len(c) \in Nat /\ DOMAIN c = 1 .. Len(c)
  BY TablesAssumption DEF TableOK
<1>2. ASSUME NEW u \in [1 .. Len(c) -> BOOLEAN] PROVE u \in Seq(BOOLEAN) /\ Len(u) = Len(c)
  <2>1. u \in Seq(BOOLEAN) /\ DOMAIN u = 1 .. Len(c)
    BY <1>1, <1>2
  <2> QED BY <1>1, <2>1, LenProperties
<1>3. SomeOrAll(c, AllOf(c))
  <2>1. AllOf(c) \in [1 .. Len(c) -> BOOLEAN] /\ \A i \in 1 .. Len(c) : AllOf(c)[i]
    BY <1>1 DEF AllOf
  <2> QED BY <1>2, <2>1 DEF SomeOrAll
<1>4. ASSUME NEW u \in some PROVE SomeOrAll(c, u)
  <2>1. CASE c \in Partial
    <3>1. u \in [1 .. Len(c) -> BOOLEAN] /\ \E i \in 1 .. Len(c) : u[i]
      BY <1>1, <1>4, <2>1
    <3> QED BY <1>2, <2>1, <3>1 DEF SomeOrAll
  <2>2. CASE c \notin Partial
    <3>1. u = AllOf(c)
      BY <1>4, <2>2
    <3> QED BY <1>3, <3>1
  <2> QED BY <2>1, <2>2
<1>5. used \in [old : IF type = "UPDATE_ROWS" THEN some ELSE {AllOf(c)}, new : some]
  BY DEF Usages
<1> HIDE DEF some
<1>6. SomeOrAll(c, used.new) /\ SomeOrAll(c, used.old)
  BY <1>3, <1>4, <1>5
<1> QED BY <1>6 DEF SomeOrAll, UsedOK

\* The null bits of an image are where the parser looks for them.
LEMMA RowPlaced ==
    ASSUME NEW c \in Tables, NEW row \in RowsOf(c), NEW used, SomeOrAll(c, used)
    PROVE  /\ ImageOK(c, used, row)
           /\ DecimalsRead => DecimalsOK(c, row)
<1>1. used \in Seq(BOOLEAN) /\ Len(used) = Len(c)
  BY DEF SomeOrAll
<1>2. RowOK(c, used, row) /\ (DecimalsRead => DecimalsOK(c, row))
  BY <1>1, RowOfTable
<1>3. NullsPlaced(c, used, row)
  <2>1. CASE \A i \in 1 .. Len(c) : used[i]
    BY <2>1 DEF NullsPlaced
  <2>2. CASE c \in Partial /\ \E i \in 1 .. Len(c) : used[i]
    <3>1. Len(c) \in Nat /\ DOMAIN c = 1 .. Len(c) /\ \A i \in 1 .. Len(c) : ColumnOK(c[i])
      BY TablesAssumption DEF TableOK
    <3>2. Len(c) <= 8 /\ \A i \in 1 .. Len(c) : ~c[i].null
      BY <2>2, <3>1, PartialAssumption
    <3>3. ASSUME NEW i \in 1 .. Len(c) PROVE row[i] # Null
      <4>1. row[i] \in CellsOf(c[i])
        BY <3>1, RowsOfAre
      <4>2. row[i] \in c[i].vals
        BY <3>2, <4>1 DEF CellsOf
      <4>3. ColumnOK(c[i]) /\ ValueOK(c[i], row[i])
        <5>1. ColumnOK(c[i])
          BY <3>1
        <5> QED BY <4>2, <5>1 DEF ColumnOK
      <4> QED BY <4>3, ValueNotNull
    <3> QED BY <2>2, <3>2, <3>3 DEF NullsPlaced
  <2> QED BY <2>1, <2>2 DEF SomeOrAll
<1> QED BY <1>2, <1>3 DEF ImageOK

\* The rows of an event, with their old images in an update.
LEMMA RowsSent ==
    ASSUME NEW c \in Tables, NEW type \in RowTypes, NEW used \in Usages(type, c),
           NEW rows \in RowSeqs(type, c)
    PROVE  /\ RowsOK(type, c, used, rows) /\ Len(rows) \in Nat \ {0}
           /\ DecimalsRead => \A k \in 1 .. Len(rows) : DecimalsIn(type, c, rows[k])
<1> DEFINE old == IF type = "UPDATE_ROWS" THEN RowsOf(c) ELSE {<<>>}
           One == [old : old, new : RowsOf(c)]
<1>1. PICK n \in 1 .. MaxRows : rows \in [1 .. n -> One]
  BY DEF RowSeqs
<1>2. n \in Nat \ {0}
  BY SizesAssumption
<1> HIDE DEF One
<1>3. rows \in Seq(One) /\ Len(rows) = n
  <2>1. rows \in Seq(One) /\ DOMAIN rows = 1 .. n
    BY <1>1, <1>2
  <2> QED BY <1>2, <2>1, LenProperties
<1>4. UsedOK(type, c, used) /\ SomeOrAll(c, used.new) /\ SomeOrAll(c, used.old)
  BY UsedColumns
<1>5. ASSUME NEW k \in 1 .. Len(rows)
      PROVE  /\ ImagesOK(type, c, used, rows[k])
             /\ DecimalsRead => DecimalsIn(type, c, rows[k])
  <2>1. rows[k] \in One
    BY <1>1, <1>3
  <2>2. rows[k].new \in RowsOf(c) /\ (type = "UPDATE_ROWS" => rows[k].old \in RowsOf(c))
    BY <2>1 DEF One
  <2>3. /\ ImageOK(c, used.new, rows[k].new)
        /\ DecimalsRead => DecimalsOK(c, rows[k].new)
    BY <1>4, <2>2, RowPlaced
  <2>4. type = "UPDATE_ROWS" => /\ ImageOK(c, used.old, rows[k].old)
                                /\ DecimalsRead => DecimalsOK(c, rows[k].old)
    BY <1>4, <2>2, RowPlaced
  <2> QED BY <2>3, <2>4 DEF ImagesOK, DecimalsIn
<1>6. RowsOK(type, c, used, rows)
  <2>1. TableOK(c) /\ IsSequence(rows)
    BY <1>3, TablesAssumption DEF IsSequence
  <2> QED BY <1>4, <1>5, <2>1 DEF RowsOK
<1> QED BY <1>2, <1>3, <1>5, <1>6

-----------------------------------------------------------------------------
(* The cursor of a row, whatever the bytes are. *)

\* decimal_bin_size: the digits before the point and those behind it take some
\* bytes each.
LEMMA DecimalTakes ==
    ASSUME NEW p \in Nat, NEW s \in Nat, s <= p
    PROVE  Dec!decimal_bin_size(p, s) \in Nat
<1> DEFINE Size(n) == (n \div 9) * Dec!SizeofDec1 + Dec!dig2bytes[n % 9]
<1>1. Dec!decimal_bin_size(p, s) = Size(p - s) + Size(s)
  BY Zenon DEF Dec!decimal_bin_size
<1>2. \A i \in 0 .. 9 : Dec!dig2bytes[i] \in Nat
  BY DEF Dec!dig2bytes
<1>3. Dec!SizeofDec1 \in Nat
  BY <1>2 DEF Dec!SizeofDec1
<1>4. \A n \in Nat : Size(n) \in Nat
  <2>1. \A n \in Nat : n \div 9 \in Nat /\ n % 9 \in 0 .. 9
    OBVIOUS
  <2>2. ASSUME NEW a \in Nat, NEW b \in Nat, NEW c \in Nat PROVE a * b + c \in Nat
    OBVIOUS
  <2> QED BY <1>2, <1>3, <2>1, <2>2
<1>5. Size(p - s) \in Nat /\ Size(s) \in Nat
  <2>1. p - s \in Nat /\ s \in Nat
    OBVIOUS
  <2> HIDE DEF Size
  <2> QED BY <1>4, <2>1
<1> HIDE DEF Size
<1> QED BY <1>1, <1>5

\* A string's cell ends behind its length and its bytes.
LEMMA PrefixedCursor ==
    ASSUME NEW e \in Octets, NEW c \in Nat, NEW n \in Nat, NEW mtype, NEW ctype
    PROVE  Prefixed(e, c, n, mtype, ctype).cur \in Nat
<1>1. ReadUint(e, c, n) \in Nat
  BY BytesRead
<1>2. Prefixed(e, c, n, mtype, ctype).cur = c + n + ReadUint(e, c, n)
  BY DEF Prefixed
<1> QED BY <1>1, <1>2

\* value2Cell: the cursor is a place in the event, or behind it.
LEMMA CellCursor ==
    ASSUME NEW e \in Octets, NEW c \in Nat, NEW col, ColumnOK(col)
    PROVE  CellOf(e, c, col).cur \in Nat
<1>1. CASE col.type \in Fixed
  <2>1. CellOf(e, c, col) = FixedCell(e, c, col.type)
    BY <1>1, CellOfForms
  <2>2. Width(col.type) \in Nat
    BY <1>1, TypesAre DEF Width, Fixed
  <2>3. FixedCell(e, c, col.type).cur = c + Width(col.type)
    BY DEF FixedCell
  <2> QED BY <2>1, <2>2, <2>3
<1>2. CASE col.type \in Dates
  <2> DEFINE n == CASE col.type = T.DATETIME -> 8 [] col.type = T.YEAR -> 1 [] OTHER -> 3
  <2>1. CellOf(e, c, col) = DateCell(e, c, col.type)
    BY <1>2, CellOfForms
  <2>2. n \in Nat
    BY TypesAre
  <2>3. DateCell(e, c, col.type).cur = c + n
    BY DEF DateCell
  <2> HIDE DEF n
  <2> QED BY <2>1, <2>2, <2>3
<1>3. CASE col.type = T.ENUM
  <2> DEFINE m == 256 * col.type + col.len
             n == IF m % 256 \in {1, 2} THEN m % 256 ELSE 0
  <2>1. CellOf(e, c, col) = EnumCell(e, c, m)
    BY <1>3, CellOfForms
  <2>2. EnumCell(e, c, m).cur = c + n
    BY DEF EnumCell
  <2> HIDE DEF m
  <2>3. n \in Nat
    OBVIOUS
  <2> HIDE DEF n
  <2> QED BY <2>1, <2>2, <2>3
<1>4. CASE col.type = T.SET
  <2> DEFINE m == 256 * col.type + col.len
  <2>1. CellOf(e, c, col) = SetCell(e, c, m)
    BY <1>4, CellOfForms
  <2>2. SetCell(e, c, m).cur = c + (m % 256)
    BY DEF SetCell
  <2>3. m \in Nat
    BY <1>4, ColumnLens, TypesAre
  <2> HIDE DEF m
  <2>4. m % 256 \in Nat
    BY <2>3
  <2> QED BY <2>1, <2>2, <2>4
<1>5. CASE col.type = T.BLOB
  <2>1. CellOf(e, c, col) = BlobCell(e, c, col.len) /\ col.len \in 1 .. 4 /\ col.len \in Nat
    <3>1. col.len \in 1 .. 4
      BY <1>5, ColumnLens
    <3> QED BY <1>5, <3>1, CellOfForms
  <2>2. BlobCell(e, c, col.len) = Prefixed(e, c, col.len, T.BLOB, "BINARY")
    BY <2>1 DEF BlobCell
  <2> QED BY <2>1, <2>2, PrefixedCursor
<1>6. CASE col.type = T.VARCHAR
  <2>1. CellOf(e, c, col) = Prefixed(e, c, LenBytes(col.len), T.VARCHAR, "STRING")
    BY <1>6, CellOfForms DEF VarcharCell
  <2>2. LenBytes(col.len) \in Nat
    BY DEF LenBytes
  <2> QED BY <2>1, <2>2, PrefixedCursor
<1>7. CASE col.type = T.STRING
  <2>1. CellOf(e, c, col) = Prefixed(e, c, LenBytes(col.len), T.STRING, "STRING")
    BY <1>7, CellOfForms DEF StringCell
  <2>2. LenBytes(col.len) \in Nat
    BY DEF LenBytes
  <2> QED BY <2>1, <2>2, PrefixedCursor
<1>8. CASE col.type = T.BIT
  <2> DEFINE m == 256 * (col.len \div 8) + (col.len % 8)
  <2>1. CellOf(e, c, col) = BitCell(e, c, m)
    BY <1>8, CellOfForms
  <2>2. BitCell(e, c, m).cur = c + BitBytes(m)
    BY DEF BitCell
  <2>3. col.len \in 1 .. 64
    BY <1>8, ColumnLens
  <2>4. m = 256 * (col.len \div 8) + (col.len % 8)
    OBVIOUS
  <2> HIDE DEF m
  <2>5. BitBytes(m) = (col.len + 7) \div 8
    BY <2>3, <2>4, BitWidth
  <2>6. (col.len + 7) \div 8 \in Nat
    BY <2>3
  <2> QED BY <2>1, <2>2, <2>5, <2>6
<1>9. CASE col.type = T.NEWDECIMAL
  <2> DEFINE p == col.len \div 256
             s == col.len % 256
             size == Dec!decimal_bin_size(p, s)
  <2>1. CellOf(e, c, col) = NewdecimalCell(e, c, p, s)
    BY <1>9, CellOfForms
  <2>2. NewdecimalCell(e, c, p, s).cur \in {c, c + size}
    BY Zenon DEF NewdecimalCell, DecimalText
  <2>3. p \in Nat /\ s \in Nat /\ s <= p
    <3>1. col.len \in {256 * x + y : x \in 1 .. 65, y \in 0 .. 30}
      BY <1>9, ColumnLens
    <3>2. s <= p
      BY <1>9 DEF ColumnOK
    <3>3. PICK x \in 1 .. 65, y \in 0 .. 30 : col.len = 256 * x + y
      BY <3>1
    <3>4. col.len \in Nat
      BY <3>3
    <3>5. col.len \div 256 \in Nat /\ col.len % 256 \in Nat
      BY <3>4
    <3> QED BY <3>2, <3>5
  <2> HIDE DEF p, s
  <2>4. size \in Nat
    BY <2>3, DecimalTakes
  <2> HIDE DEF size
  <2>5. c + size \in Nat
    BY <2>4
  <2> QED BY <2>1, <2>2, <2>5
<1>10. /\ col.type \in {1, 2, 3, 4, 5, 7, 8, 9, 10, 11, 12, 13, 15, 16, 246, 247, 248, 252, 254}
  BY ColumnTypes
<1>11. \/ col.type \in Fixed \/ col.type \in Dates \/ col.type = T.ENUM \/ col.type = T.SET
       \/ col.type = T.BLOB \/ col.type = T.VARCHAR \/ col.type = T.STRING \/ col.type = T.BIT
       \/ col.type = T.NEWDECIMAL
  BY <1>10, TypesAre DEF Fixed, Dates
<1> QED BY <1>1, <1>2, <1>3, <1>4, <1>5, <1>6, <1>7, <1>8, <1>9, <1>11

\* parseRowsEvent: so it is behind an image.
LEMMA ImageCursor ==
    ASSUME NEW e \in Octets, NEW o \in Nat, NEW u, NEW tab, NEW types, NEW meta,
           TableOK(tab), FieldsAre(types, meta, tab)
    PROVE  DecodeImage(e, o, types, meta, u).cur \in Nat
<1> DEFINE n == Len(types)
<1>1. n \in Nat /\ n = Len(tab) /\ \A i \in 1 .. n : ColumnOK(tab[i])
  BY DEF FieldsAre, TableOK
<1>2. PICK after : /\ Columns(after, e, o, types, meta, u)
                   /\ DecodeImage(e, o, types, meta, u) = after[n]
  BY <1>1, ImageSteps
<1> DEFINE Good == {i \in 0 .. n : after[i].cur \in Nat}
<1>3. 0 \in Good
  <2>1. after[0].cur = o + BitmapLen(n)
    BY <1>2 DEF Columns
  <2>2. BitmapLen(n) \in Nat
    BY <1>1 DEF BitmapLen
  <2> HIDE DEF n
  <2> QED BY <1>1, <2>1, <2>2
<1>4. ASSUME NEW i \in 1 .. n, i - 1 \in Good PROVE i \in Good
  <2> DEFINE p == after[i - 1]
             v == CellOf(e, p.cur, tab[i])
             here == Present(e, o, u, i)
  <2>1. p.cur \in Nat
    BY <1>4
  <2>2. v.cur \in Nat
    BY <1>1, <2>1, CellCursor
  <2>3. after[i] = Decoded(here, p, value2Cell(e, p.cur, types[i], meta[i]))
    BY <1>2 DEF Columns
  <2>4. types[i] = FieldType(tab[i]) /\ meta[i] = DeclaredMeta(tab[i])
    BY <1>1 DEF FieldsAre
  <2>5. after[i] = Decoded(here, p, v)
    BY <2>3, <2>4 DEF CellOf
  <2> HIDE DEF p, v, here, n
  <2>6. after[i].cur \in {p.cur, v.cur}
    BY <2>5 DEF Decoded
  <2>7. i \in 0 .. n
    BY <1>1
  <2> QED BY <2>1, <2>2, <2>6, <2>7
<1>5. Good \in SUBSET (0 .. n)
  OBVIOUS
<1>6. Good = 0 .. n
  <2> HIDE DEF Good, n
  <2> QED BY <1>1, <1>3, <1>4, <1>5, Upwards
<1>7. n \in Good
  <2> HIDE DEF Good, n
  <2> QED BY <1>1, <1>6
<1> QED BY <1>2, <1>7

-----------------------------------------------------------------------------
(* What was parsed, and what the master wrote. *)

\* A rows event of a master.
EventIs(e, type, id, c, used, rows) ==
    /\ type \in RowTypes /\ id \in {1, 2} /\ c \in Tables
    /\ used \in Usages(type, c) /\ rows \in RowSeqs(type, c)
    /\ e = RowsEvent(type, id, c, used, rows) /\ Len(e) <= MaxPacket

\* The head of it is read as it was written, its length is in its header, and its
\* rows follow each other up to its end.
LEMMA EventRead ==
    ASSUME NEW e, NEW type, NEW id, NEW c, NEW used, NEW rows,
           EventIs(e, type, id, c, used, rows)
    PROVE  /\ e \in Octets /\ Len(e) \in Nat /\ ReadUint(e, 9, 4) = Len(e)
           /\ \E o : RowsHeadIs(e, type, id, c, used, o)
           /\ RowsOK(type, c, used, rows) /\ Len(rows) \in Nat \ {0}
           /\ DecimalsRead => \A k \in 1 .. Len(rows) : DecimalsIn(type, c, rows[k])
<1>1. /\ type \in RowTypes /\ id \in {1, 2} /\ c \in Tables
      /\ used \in Usages(type, c) /\ rows \in RowSeqs(type, c)
      /\ e = RowsEvent(type, id, c, used, rows) /\ Len(e) <= MaxPacket
  BY DEF EventIs
<1>2. /\ RowsOK(type, c, used, rows) /\ Len(rows) \in Nat \ {0}
      /\ DecimalsRead => \A k \in 1 .. Len(rows) : DecimalsIn(type, c, rows[k])
  BY <1>1, RowsSent
<1>3. id \in Nat /\ Fits(id, 6)
  BY <1>1, SMT DEF Fits, FourBytes
<1>4. /\ e \in Octets /\ At(e, 19, RowsHead(type, id, c, used))
      /\ At(e, 9, LittleBytes(Len(e), 4))
  BY <1>1, <1>2, <1>3, RowsPlaced
<1>5. Len(e) \in Nat
  BY <1>4, OctetsAre
<1>6. Fits(Len(e), 4)
  <2>1. \A x \in Nat : x <= MaxPacket => Fits(x, 4)
    BY SMT DEF MaxPacket, Fits, FourBytes
  <2> QED BY <1>1, <1>5, <2>1, Zenon
<1>7. ReadUint(e, 9, 4) = Len(e)
  BY <1>4, <1>5, <1>6, UintAt
<1>8. TableOK(c) /\ UsedOK(type, c, used)
  BY <1>2 DEF RowsOK
<1>9. \E o : RowsHeadIs(e, type, id, c, used, o)
  BY <1>3, <1>4, <1>8, RowsHeadRead
<1> QED BY <1>2, <1>4, <1>5, <1>7, <1>9

\* Row k is where it begins, up to where the next one does.
RowAt(e, type, id, c, used, rows, k) ==
    /\ At(e, RowStart(type, id, c, used, rows, k), RowImages(type, c, used, rows[k]))
    /\ RowStart(type, id, c, used, rows, k + 1)
         = After(RowStart(type, id, c, used, rows, k), RowImages(type, c, used, rows[k]))
RowsAt(e, type, id, c, used, rows) ==
    /\ RowStart(type, id, c, used, rows, 1) = After(19, RowsHead(type, id, c, used))
    /\ RowStart(type, id, c, used, rows, Len(rows) + 1) = Len(e)
    /\ \A k \in 1 .. Len(rows) : RowAt(e, type, id, c, used, rows, k)

\* The rows follow each other from the head of the event to its end.
LEMMA EventRows ==
    ASSUME NEW e, NEW type, NEW id, NEW c, NEW used, NEW rows,
           EventIs(e, type, id, c, used, rows)
    PROVE  RowsAt(e, type, id, c, used, rows)
<1>1. RowsOK(type, c, used, rows)
  BY EventRead
<1>2. id \in {1, 2} /\ e = RowsEvent(type, id, c, used, rows)
  BY DEF EventIs
<1>3. id \in Nat /\ Fits(id, 6)
  BY <1>2, SMT DEF Fits, FourBytes
<1>4. /\ RowStart(type, id, c, used, rows, 1) = After(19, RowsHead(type, id, c, used))
      /\ RowStart(type, id, c, used, rows, Len(rows) + 1) = Len(e)
  BY <1>1, <1>2, <1>3, RowsPlaced
<1>5. \A k \in 1 .. Len(rows) :
        /\ At(e, RowStart(type, id, c, used, rows, k), RowImages(type, c, used, rows[k]))
        /\ RowStart(type, id, c, used, rows, k + 1)
             = After(RowStart(type, id, c, used, rows, k), RowImages(type, c, used, rows[k]))
  BY <1>1, <1>2, <1>3, RowsPlaced
<1> QED BY <1>4, <1>5 DEF RowsAt, RowAt

\* parseTableMapEvent: the current table is the one the master described last.
TableInv ==
    /\ cols \in Tables \union {<<>>}
    /\ cols = <<>> => table = NoTable
    /\ cols # <<>> => hdrlen = 19 /\ \E id \in {1, 2} : TableIs(table, id, cols)

\* parseRowsEvent: what it took from the head of the event it is reading.
Reading == {"rows", "parsed", "buffered"}
HeadRead(e, c, t, u, r, s) ==
    /\ EventIs(e, r.type, t.tableid, c, s.used, s.rows)
    /\ RowsHeadIs(e, r.type, t.tableid, c, s.used, r.isused)
    /\ u = r.isused + BitmapLen(Len(c))
    /\ r.evlen = Len(e) /\ r.tableid = t.tableid
EventInv ==
    /\ ev \in Octets /\ cur \in Nat
    /\ DOMAIN rev = DOMAIN NoRev
    /\ pc \in Reading => HeadRead(ev, cols, table, rev.isused_u, rev, sent)

\* parseRowsEvent: the rows so far are the first of those the master wrote, and the
\* cursor is on the next one.
ProgressInv == DecimalsRead => CursorOnRow /\ RowsAsWritten

\* All of it, with what is allocated.
HeapCounts == \A k \in DOMAIN heap : heap[k] \in Nat
ReadInv == PInv /\ TableInv /\ EventInv /\ ProgressInv /\ HeapCounts /\ pc \in PCs
-----------------------------------------------------------------------------
\* Before a format description no table is known and no event.
LEMMA ReaderInit == Init => ReadInv
<1> SUFFICES ASSUME Init PROVE ReadInv
  OBVIOUS
<1>1. PInv
  BY ParserInit
<1>2. /\ cols = <<>> /\ ev = <<>> /\ cur = 0 /\ table = NoTable /\ rev = NoRev /\ pc = "idle"
      /\ heap = [table |-> 0, arrays |-> 0, images |-> 0, values |-> 0]
  BY DEF Init
<1>3. TableInv
  BY <1>2 DEF TableInv
<1>4. EventInv
  <2>1. <<>> \in Octets
    BY DEF Octets
  <2> QED BY <1>2, <2>1 DEF EventInv, Reading
<1>5. ProgressInv
  BY <1>2 DEF ProgressInv, CursorOnRow, RowsAsWritten, RowsHold
<1>6. HeapCounts
  BY <1>2 DEF HeapCounts
<1>7. pc \in PCs
  BY <1>2 DEF PCs
<1> QED BY <1>1, <1>3, <1>4, <1>5, <1>6, <1>7 DEF ReadInv

\* What the heap holds can be counted, while it is known what it holds.
LEMMA HeapIsCounted == PInv /\ pc \notin {"abort", "closed"} => HeapCounts
<1> SUFFICES ASSUME PInv, pc \notin {"abort", "closed"} PROVE HeapCounts
  OBVIOUS
<1>1. /\ heap = [table |-> heap.table, arrays |-> heap.arrays,
                 images |-> heap.images, values |-> heap.values]
      /\ heap.table = IF table = NoTable THEN 0 ELSE 3
      /\ heap.arrays = IF pc \in {"rows", "parsed"} THEN Per ELSE 0
      /\ heap.images = Per * (IF pc = "idle" THEN 0 ELSE Len(rev.rows) - taken)
      /\ heap.values = IF pc = "idle" THEN 0 ELSE HeldValues
  BY HeapFields
<1>2. Len(rev.rows) \in Nat /\ taken \in Nat /\ HeldValues \in Nat
  BY HeldAreNumbers DEF PInv
<1>3. taken <= Len(rev.rows)
  BY <1>2 DEF PInv, RowsInv
<1>4. heap.images \in Nat
  <2>1. (IF pc = "idle" THEN 0 ELSE Len(rev.rows) - taken) \in Nat
    BY <1>2, <1>3
  <2>2. \A x \in Nat : Per * x \in Nat
    BY DEF Per
  <2> QED BY <1>1, <2>1, <2>2
<1>5. heap.table \in Nat /\ heap.arrays \in Nat /\ heap.values \in Nat
  BY <1>1, <1>2 DEF Per
<1>6. DOMAIN heap = {"table", "arrays", "images", "values"}
  BY <1>1
<1> QED BY <1>4, <1>5, <1>6 DEF HeapCounts

\* A step that keeps the table, and the event and what was read of it or nothing.
LEMMA SameRead ==
    ASSUME ReadInv, PInv', UNCHANGED <<cols, sent, ev, cur, table, rev>>,
           hdrlen' = hdrlen \/ hdrlen = 0,
           pc' = "rows" => pc = "rows", pc' \in Reading => pc \in Reading, pc' \in PCs,
           pc' \in {"abort", "closed"} => UNCHANGED heap
    PROVE  ReadInv'
<1>1. TableInv'
  BY DEF ReadInv, TableInv
<1>2. EventInv'
  BY DEF ReadInv, EventInv
<1>3. ProgressInv'
  <2>1. CursorOnRow => CursorOnRow'
    BY DEF CursorOnRow
  <2>2. RowsAsWritten => RowsAsWritten'
    BY DEF RowsAsWritten, RowsHold, AllTypes, IsUpdate, HoldsColumns, Reading
  <2> QED BY <2>1, <2>2 DEF ReadInv, ProgressInv
<1>4. HeapCounts'
  <2>1. CASE pc' \in {"abort", "closed"}
    BY <2>1 DEF ReadInv, HeapCounts
  <2>2. CASE pc' \notin {"abort", "closed"}
    <3>1. (PInv /\ pc \notin {"abort", "closed"})'
      BY <2>2
    <3> QED BY <3>1, HeapIsCounted, PTL
  <2> QED BY <2>1, <2>2
<1> QED BY <1>1, <1>2, <1>3, <1>4 DEF ReadInv

-----------------------------------------------------------------------------
(* One action after the other, again. *)

\* parseFDE: no table was read before it.
LEMMA FDERead ==
    ASSUME ReadInv, ParseFDE
    PROVE  ReadInv'
<1>1. PInv'
  BY FDEStep DEF ReadInv
<1>2. /\ pc = "idle" /\ hdrlen = 0 /\ pc' \in {"idle", "abort"}
      /\ UNCHANGED <<cols, sent, ev, cur, table, rev, heap>>
  BY DEF ParseFDE
<1>3. pc' \notin Reading /\ pc' \in PCs
  BY <1>2 DEF Reading, PCs
<1> QED BY <1>1, <1>2, <1>3, SameRead DEF Reading

\* parseRowsEvent: the last row was read.
LEMMA RowsParsedRead ==
    ASSUME ReadInv, RowsParsed
    PROVE  ReadInv'
<1>1. PInv'
  BY RowsParsedStep DEF ReadInv
<1>2. /\ pc = "rows" /\ pc' = "parsed"
      /\ UNCHANGED <<cols, sent, ev, cur, hdrlen, table, rev, heap>>
  BY DEF RowsParsed
<1>3. pc \in Reading /\ pc' \in PCs
  BY <1>2 DEF Reading, PCs
<1> QED BY <1>1, <1>2, <1>3, SameRead

\* setRowsEventBuffer: the rows are handed over.
LEMMA BufferRead ==
    ASSUME ReadInv, SetRowsEventBuffer
    PROVE  ReadInv'
<1>1. PInv'
  BY BufferStep DEF ReadInv
<1>2. /\ pc = "parsed" /\ pc' = "buffered"
      /\ UNCHANGED <<cols, sent, ev, cur, hdrlen, table, rev>>
  BY DEF SetRowsEventBuffer
<1>3. pc \in Reading /\ pc' \in PCs
  BY <1>2 DEF Reading, PCs
<1> QED BY <1>1, <1>2, <1>3, SameRead

\* freeBinlogClient.
LEMMA CloseRead ==
    ASSUME ReadInv, FreeBinlogClient
    PROVE  ReadInv'
<1>1. PInv'
  BY CloseStep DEF ReadInv
<1>2. pc' = "closed" /\ UNCHANGED <<cols, sent, ev, cur, hdrlen, table, rev, heap>>
  BY DEF FreeBinlogClient
<1>3. pc' \notin Reading /\ pc' \in PCs
  BY <1>2 DEF Reading, PCs
<1> QED BY <1>1, <1>2, <1>3, SameRead

\* A step that leaves everything alone.
LEMMA ReaderStutter ==
    ASSUME ReadInv, UNCHANGED vars
    PROVE  ReadInv'
<1>1. PInv'
  BY ParserStutter DEF ReadInv
<1>2. UNCHANGED <<cols, sent, ev, cur, hdrlen, table, rev, heap, pc>>
  BY DEF vars
<1>3. pc' \in PCs
  BY <1>2 DEF ReadInv
<1> QED BY <1>1, <1>2, <1>3, SameRead

\* The event was forgotten and the table kept.
LEMMA ForgottenRead ==
    ASSUME ReadInv, PInv', Forget, UNCHANGED <<cols, hdrlen, table>>
    PROVE  ReadInv'
<1>1. ev' = <<>> /\ cur' = 0 /\ rev' = NoRev /\ pc' = "idle"
  BY DEF Forget
<1>2. TableInv'
  BY DEF ReadInv, TableInv
<1>3. EventInv'
  <2>1. <<>> \in Octets
    BY DEF Octets
  <2> QED BY <1>1, <2>1 DEF EventInv, Reading
<1>4. ProgressInv'
  BY <1>1 DEF ProgressInv, CursorOnRow, RowsAsWritten, RowsHold
<1>5. HeapCounts'
  <2>1. (PInv /\ pc \notin {"abort", "closed"})'
    BY <1>1
  <2> QED BY <2>1, HeapIsCounted, PTL
<1>6. pc' \in PCs
  BY <1>1 DEF PCs
<1> QED BY <1>2, <1>3, <1>4, <1>5, <1>6 DEF ReadInv

\* freeBinlogRow: the event is kept until its last row is freed.
LEMMA FreeRowRead ==
    ASSUME ReadInv, FreeBinlogRow
    PROVE  ReadInv'
<1>1. PInv'
  BY FreeRowStep DEF ReadInv
<1>2. pc = "buffered" /\ UNCHANGED <<cols, hdrlen, table>>
  BY DEF FreeBinlogRow
<1>3. CASE UNCHANGED <<sent, ev, cur, rev, pc>>
  <2>1. pc' \in PCs /\ pc' \notin {"abort", "closed"}
    BY <1>2, <1>3 DEF PCs
  <2> QED BY <1>1, <1>2, <1>3, <2>1, SameRead
<1>4. CASE Forget
  BY <1>1, <1>2, <1>4, ForgottenRead
<1>5. UNCHANGED <<sent, ev, cur, rev, pc>> \/ Forget
  BY DEF FreeBinlogRow
<1> QED BY <1>3, <1>4, <1>5

\* rowsevFreeRows.
LEMMA FreeRowsRead ==
    ASSUME ReadInv, RowsevFreeRows
    PROVE  ReadInv'
<1>1. PInv'
  BY FreeRowsStep DEF ReadInv
<1>2. Forget /\ UNCHANGED <<cols, hdrlen, table>>
  BY DEF RowsevFreeRows
<1> QED BY <1>1, <1>2, ForgottenRead

\* parseTableMapEvent: the table is the one the master described.
LEMMA NewTableRead ==
    ASSUME ReadInv, ParseTableMap
    PROVE  ReadInv'
<1>1. PInv'
  BY TableMapStep DEF ReadInv
<1>2. /\ pc = "idle" /\ hdrlen = 19 /\ cols' \in Tables
      /\ UNCHANGED <<sent, ev, cur, hdrlen, rev, pc>>
  BY DEF ParseTableMap, ReadInv, PInv, ReaderInv
<1>3. TableInv'
  <2>1. PICK id \in {1, 2} : table' = ParsedTable(TableMap(id, cols'))
    BY DEF ParseTableMap
  <2>2. TableIs(table', id, cols')
    BY <1>2, <2>1, TableParsed
  <2>3. <<>> \notin Tables
    <3>1. <<>> \in Tables => TableOK(<<>>)
      BY TablesAssumption
    <3>2. Len(<<>>) = 0
      OBVIOUS
    <3> QED BY <3>1, <3>2 DEF TableOK
  <2> QED BY <1>2, <2>2, <2>3 DEF TableInv
<1>4. EventInv'
  BY <1>2 DEF ReadInv, EventInv, Reading
<1>5. ProgressInv'
  BY <1>2 DEF ProgressInv, CursorOnRow, RowsAsWritten, RowsHold
<1>6. HeapCounts'
  <2>1. (PInv /\ pc \notin {"abort", "closed"})'
    BY <1>1, <1>2
  <2> QED BY <2>1, HeapIsCounted, PTL
<1>7. pc' \in PCs
  BY <1>2 DEF PCs
<1> QED BY <1>1, <1>3, <1>4, <1>5, <1>6, <1>7 DEF ReadInv

\* The head of an event that names the current table.
HeadStep(type, id, used, rows, o) ==
    /\ EventIs(ev', type, id, cols, used, rows)
    /\ RowsHeadIs(ev', type, id, cols, used, o)
    /\ sent' = [used |-> used, rows |-> rows]
    /\ pc = "idle" /\ UNCHANGED <<cols, hdrlen, table, taken>>
    /\ IF id = table.tableid
         THEN /\ pc' = "rows" /\ cur' = o + BitmapBytes(type, Len(cols))
              /\ rev' = [NoRev EXCEPT !.type = type, !.tableid = table.tableid,
                           !.isused = o, !.isused_u = o + BitmapLen(Len(cols)),
                           !.evlen = Len(ev'), !.totalrows = InitRows]
         ELSE pc' = "abort" /\ UNCHANGED <<cur, rev, heap>>

\* parseRowsEvent: the number of the table, the count of its columns and the length
\* of the event are read as the master wrote them.
LEMMA HeadStepped ==
    ASSUME ReadInv, ParseRowsHead
    PROVE  \E type, id, used, rows, o : HeadStep(type, id, used, rows, o)
<1>1. /\ pc = "idle" /\ cols # <<>> /\ UNCHANGED <<cols, hdrlen, table, taken>>
  BY DEF ParseRowsHead
<1>2. /\ cols \in Tables /\ hdrlen = 19 /\ Len(table.types) = Len(cols)
  <2>1. cols \in Tables /\ hdrlen = 19 /\ \E id \in {1, 2} : TableIs(table, id, cols)
    BY <1>1 DEF ReadInv, TableInv
  <2>2. TableOK(cols)
    BY <2>1, TablesAssumption
  <2>3. Len(TypesOf(cols)) = Len(cols)
    BY <2>2, TypesOfAre
  <2> QED BY <2>1, <2>3 DEF TableIs
<1>3. PICK type \in RowTypes, id \in {1, 2} :
         \E used \in Usages(type, cols), rows \in RowSeqs(type, cols) :
         /\ sent' = [used |-> used, rows |-> rows]
         /\ ev' = RowsEvent(type, id, cols, used, rows) /\ Len(ev') <= MaxPacket
         /\ LET count == decodeint(ev', hdrlen + 8)
                len   == BitmapLen(count.v)
            IN IF ReadUint(ev', hdrlen, 6) = table.tableid /\ count.v = Len(table.types)
                 THEN /\ pc' = "rows"
                      /\ cur' = count.cur + BitmapBytes(type, count.v)
                      /\ rev' = [NoRev EXCEPT !.type = type, !.tableid = table.tableid,
                                   !.isused = count.cur, !.isused_u = count.cur + len,
                                   !.evlen = ReadUint(ev', 9, 4), !.totalrows = InitRows]
                      /\ heap' = [heap EXCEPT !.arrays = @ + IF type = "UPDATE_ROWS" THEN 2 ELSE 1]
                 ELSE pc' = "abort" /\ UNCHANGED <<cur, rev, heap>>
  BY ZenonT(60) DEF ParseRowsHead, RowTypes
<1>0. PICK used \in Usages(type, cols), rows \in RowSeqs(type, cols) :
         /\ sent' = [used |-> used, rows |-> rows]
         /\ ev' = RowsEvent(type, id, cols, used, rows) /\ Len(ev') <= MaxPacket
         /\ LET count == decodeint(ev', hdrlen + 8)
                len   == BitmapLen(count.v)
            IN IF ReadUint(ev', hdrlen, 6) = table.tableid /\ count.v = Len(table.types)
                 THEN /\ pc' = "rows"
                      /\ cur' = count.cur + BitmapBytes(type, count.v)
                      /\ rev' = [NoRev EXCEPT !.type = type, !.tableid = table.tableid,
                                   !.isused = count.cur, !.isused_u = count.cur + len,
                                   !.evlen = ReadUint(ev', 9, 4), !.totalrows = InitRows]
                      /\ heap' = [heap EXCEPT !.arrays = @ + IF type = "UPDATE_ROWS" THEN 2 ELSE 1]
                 ELSE pc' = "abort" /\ UNCHANGED <<cur, rev, heap>>
  BY <1>3, Zenon
<1>4. EventIs(ev', type, id, cols, used, rows)
  BY <1>2, <1>0 DEF EventIs
<1>5. ReadUint(ev', 9, 4) = Len(ev') /\ \E o : RowsHeadIs(ev', type, id, cols, used, o)
  BY <1>4, EventRead
<1>6. PICK o : RowsHeadIs(ev', type, id, cols, used, o)
  BY <1>5
<1>7. ReadUint(ev', 19, 6) = id /\ decodeint(ev', 27) = [v |-> Len(cols), cur |-> o]
  BY <1>6 DEF RowsHeadIs
<1>8. hdrlen + 8 = 27
  BY <1>2
<1> DEFINE count == decodeint(ev', 27)
<1>9. count.v = Len(cols) /\ count.cur = o
  BY <1>7
<1>10. IF ReadUint(ev', 19, 6) = table.tableid /\ count.v = Len(table.types)
                 THEN /\ pc' = "rows"
                      /\ cur' = count.cur + BitmapBytes(type, count.v)
                      /\ rev' = [NoRev EXCEPT !.type = type, !.tableid = table.tableid,
                                   !.isused = count.cur, !.isused_u = count.cur + BitmapLen(count.v),
                                   !.evlen = ReadUint(ev', 9, 4), !.totalrows = InitRows]
                 ELSE pc' = "abort" /\ UNCHANGED <<cur, rev, heap>>
  BY <1>2, <1>0, <1>8, Zenon
<1> HIDE DEF count
<1>11. IF id = table.tableid
         THEN /\ pc' = "rows" /\ cur' = o + BitmapBytes(type, Len(cols))
              /\ rev' = [NoRev EXCEPT !.type = type, !.tableid = table.tableid,
                           !.isused = o, !.isused_u = o + BitmapLen(Len(cols)),
                           !.evlen = Len(ev'), !.totalrows = InitRows]
         ELSE pc' = "abort" /\ UNCHANGED <<cur, rev, heap>>
  BY <1>2, <1>5, <1>7, <1>9, <1>10, Zenon
<1>12. sent' = [used |-> used, rows |-> rows]
  BY <1>0, Zenon
<1>13. HeadStep(type, id, used, rows, o)
  BY <1>1, <1>4, <1>6, <1>11, <1>12 DEF HeadStep
<1> QED BY <1>13

\* parseRowsEvent: the loop begins at the first row, with no row read.
LEMMA RowsHeadStepped ==
    ASSUME ReadInv, ParseRowsHead
    PROVE  ReadInv'
<1>1. PInv'
  BY RowsHeadStep DEF ReadInv
<1>2. PICK type, id, used, rows, o : HeadStep(type, id, used, rows, o)
  BY HeadStepped
<1>3. /\ EventIs(ev', type, id, cols, used, rows)
      /\ RowsHeadIs(ev', type, id, cols, used, o)
      /\ sent' = [used |-> used, rows |-> rows]
      /\ pc = "idle" /\ UNCHANGED <<cols, hdrlen, table, taken>>
  BY <1>2 DEF HeadStep
<1>4. TableInv'
  BY <1>3 DEF ReadInv, TableInv
<1>5. ev' \in Octets
  BY <1>3, EventRead
<1>6. CASE id # table.tableid
  <2>1. pc' = "abort" /\ UNCHANGED <<cur, rev, heap>>
    BY <1>2, <1>6 DEF HeadStep
  <2>2. EventInv'
    BY <1>5, <2>1 DEF ReadInv, EventInv, Reading
  <2>3. ProgressInv'
    BY <2>1 DEF ProgressInv, CursorOnRow, RowsAsWritten, RowsHold
  <2>4. HeapCounts' /\ pc' \in PCs
    BY <2>1 DEF ReadInv, HeapCounts, PCs
  <2> QED BY <1>1, <1>4, <2>2, <2>3, <2>4 DEF ReadInv
<1>7. CASE id = table.tableid
  <2>1. /\ pc' = "rows" /\ cur' = o + BitmapBytes(type, Len(cols))
        /\ rev' = [NoRev EXCEPT !.type = type, !.tableid = table.tableid,
                     !.isused = o, !.isused_u = o + BitmapLen(Len(cols)),
                     !.evlen = Len(ev'), !.totalrows = InitRows]
    BY <1>2, <1>7 DEF HeadStep
  <2> DEFINE behind == o + BitmapLen(Len(cols))
             evlen == Len(ev')
  <2>2. rev' = [NoRev EXCEPT !.type = type, !.tableid = table.tableid,
                     !.isused = o, !.isused_u = behind,
                     !.evlen = evlen, !.totalrows = InitRows]
    BY <2>1
  <2> HIDE DEF behind, evlen
  <2>3. /\ DOMAIN rev' = DOMAIN NoRev /\ rev'.type = type /\ rev'.tableid = table.tableid
        /\ rev'.isused = o /\ rev'.isused_u = behind /\ rev'.evlen = evlen
        /\ rev'.rows = <<>> /\ rev'.rowsold = <<>>
    BY <2>2 DEF NoRev
  <2>4. sent'.used = used /\ sent'.rows = rows
    BY <1>3
  <2>5. HeadRead(ev', cols', table', rev'.isused_u, rev', sent')
    <3>1. /\ EventIs(ev', rev'.type, table'.tableid, cols', sent'.used, sent'.rows)
          /\ RowsHeadIs(ev', rev'.type, table'.tableid, cols', sent'.used, rev'.isused)
      BY <1>3, <1>7, <2>3, <2>4
    <3> QED BY <1>3, <2>3, <3>1 DEF HeadRead, behind, evlen
  <2>6. /\ RowsOK(type, cols, used, rows) /\ Len(rows) \in Nat \ {0} /\ id \in Nat /\ Fits(id, 6)
        /\ type \in RowTypes /\ ev' = RowsEvent(type, id, cols, used, rows)
    <3>1. RowsOK(type, cols, used, rows) /\ Len(rows) \in Nat \ {0}
      BY <1>3, EventRead
    <3>2. id \in {1, 2} /\ type \in RowTypes /\ ev' = RowsEvent(type, id, cols, used, rows)
      BY <1>3 DEF EventIs
    <3>3. id \in Nat /\ Fits(id, 6)
      BY <3>2, SMT DEF Fits, FourBytes
    <3> QED BY <3>1, <3>2, <3>3
  <2>7. cur' = After(19, RowsHead(type, id, cols, used)) /\ cur' \in Nat
    <3>1. o \in Nat /\ Len(cols) \in Nat
      BY <1>3, <2>6 DEF RowsHeadIs, RowsOK, TableOK
    <3>2. BitmapLen(Len(cols)) \in Nat
      BY <3>1 DEF BitmapLen
    <3>3. CASE type = "UPDATE_ROWS"
      <4>1. After(19, RowsHead(type, id, cols, used)) = o + 2 * BitmapLen(Len(cols))
        BY <1>3, <3>3 DEF RowsHeadIs
      <4>2. BitmapBytes(type, Len(cols)) = 2 * BitmapLen(Len(cols))
        BY <3>3 DEF BitmapBytes
      <4> QED BY <2>1, <3>1, <3>2, <4>1, <4>2
    <3>4. CASE type # "UPDATE_ROWS"
      <4>1. After(19, RowsHead(type, id, cols, used)) = o + BitmapLen(Len(cols))
        BY <1>3, <3>4 DEF RowsHeadIs
      <4>2. BitmapBytes(type, Len(cols)) = BitmapLen(Len(cols))
        BY <3>4 DEF BitmapBytes
      <4> QED BY <2>1, <3>1, <3>2, <4>1, <4>2
    <3> QED BY <3>3, <3>4
  <2>8. EventInv'
    BY <1>5, <2>3, <2>5, <2>7 DEF EventInv
  <2>9. RowStart(type, id, cols, used, rows, 1) = After(19, RowsHead(type, id, cols, used))
    <3>1. RowsAt(ev', type, id, cols, used, rows)
      BY <1>3, EventRows
    <3> QED BY <3>1 DEF RowsAt
  <2>10. Len(rev'.rows) = 0 /\ Len(rev'.rows) + 1 = 1
    BY <2>3
  <2>11. CursorOnRow'
    <3>1. Len(rev'.rows) <= Len(sent'.rows)
      BY <2>4, <2>6, <2>10
    <3>2. cur' = RowStart(rev'.type, rev'.tableid, cols', sent'.used, sent'.rows, Len(rev'.rows) + 1)
      BY <1>3, <1>7, <2>3, <2>4, <2>7, <2>9, <2>10, Zenon
    <3> QED BY <3>1, <3>2 DEF CursorOnRow
  <2>12. RowsAsWritten'
    <3>1. DOMAIN rev'.rows = {}
      BY <2>3
    <3> QED BY <3>1 DEF RowsAsWritten, RowsHold
  <2>13. HeapCounts'
    <3>1. (PInv /\ pc \notin {"abort", "closed"})'
      BY <1>1, <2>1
    <3> QED BY <3>1, HeapIsCounted, PTL
  <2>14. pc' \in PCs
    BY <2>1 DEF PCs
  <2> QED BY <1>1, <1>4, <2>8, <2>11, <2>12, <2>13, <2>14 DEF ReadInv, ProgressInv
<1> QED BY <1>6, <1>7

\* The table's fields are those of the event's columns.
LEMMA TableFields ==
    ASSUME NEW t, NEW id, NEW c \in Tables, TableIs(t, id, c)
    PROVE  /\ FieldsAre(t.types, t.meta, c) /\ TableOK(c)
           /\ Len(c) \in Nat /\ DOMAIN c = 1 .. Len(c)
           /\ Len(t.types) = Len(c) /\ Len(t.meta) = Len(c) /\ Len(t.canbenull) = Len(c)
<1>1. TableOK(c)
  BY TablesAssumption
<1>2. Len(c) \in Nat /\ DOMAIN c = 1 .. Len(c)
  BY <1>1 DEF TableOK
<1>3. /\ t.types = TypesOf(c) /\ t.meta = [i \in DOMAIN c |-> DeclaredMeta(c[i])]
      /\ Len(t.canbenull) = Len(c)
  BY DEF TableIs
<1>4. Len(t.types) = Len(c)
  BY <1>1, <1>3, TypesOfAre
<1>5. Len(t.meta) = Len(c)
  BY <1>2, <1>3
<1>6. FieldsAre(t.types, t.meta, c)
  BY <1>2, <1>3, <1>4 DEF FieldsAre, TypesOf
<1> QED BY <1>1, <1>2, <1>3, <1>4, <1>5, <1>6

\* One row of an event, read where it is.
RowIs(c, r, s, row, behind, old, new) ==
    /\ new.cur = behind
    /\ ImageHolds(new.cells, c, s.used.new, row.new)
    /\ r.type = "UPDATE_ROWS" => ImageHolds(old.cells, c, s.used.old, row.old)

\* The bitmaps of the columns used are behind each other.
LEMMA BitmapsAt ==
    ASSUME NEW e, NEW c, NEW t, NEW u, NEW r, NEW s, HeadRead(e, c, t, u, r, s)
    PROVE  /\ r.type = "UPDATE_ROWS" =>
                At(e, r.isused, Bitmap(s.used.old)) /\ At(e, u, Bitmap(s.used.new))
           /\ r.type # "UPDATE_ROWS" => At(e, r.isused, Bitmap(s.used.new))
<1>1. /\ RowsHeadIs(e, r.type, t.tableid, c, s.used, r.isused)
      /\ u = r.isused + BitmapLen(Len(c))
  BY DEF HeadRead
<1> QED BY <1>1, Zenon DEF RowsHeadIs

\* value2Cell over one row or, in an update, over two images behind each other.
LEMMA RowDecoded ==
    ASSUME NEW e, NEW c \in Tables, NEW t, NEW u, NEW r, NEW s, HeadRead(e, c, t, u, r, s),
           NEW id, TableIs(t, id, c), DecimalsRead,
           NEW k \in 1 .. Len(s.rows), NEW o,
           o = RowStart(r.type, t.tableid, c, s.used, s.rows, k),
           NEW first, first = DecodeImage(e, o, t.types, t.meta, r.isused),
           NEW second, second = DecodeImage(e, first.cur, t.types, t.meta, u),
           NEW behind, behind = RowStart(r.type, t.tableid, c, s.used, s.rows, k + 1)
    PROVE  /\ r.type = "UPDATE_ROWS" => RowIs(c, r, s, s.rows[k], behind, first, second)
           /\ r.type # "UPDATE_ROWS" => RowIs(c, r, s, s.rows[k], behind, NoCell, first)
<1> DEFINE row == s.rows[k]
           type == r.type
           used == s.used
           images == RowImages(type, c, used, row)
<1>1. EventIs(e, type, t.tableid, c, used, s.rows)
  BY DEF HeadRead
<1>2. ImagesOK(type, c, used, row) /\ DecimalsIn(type, c, row)
  <2>1. RowsOK(type, c, used, s.rows) /\ \A j \in 1 .. Len(s.rows) : DecimalsIn(type, c, s.rows[j])
    BY <1>1, EventRead
  <2> QED BY <2>1 DEF RowsOK
<1>3. At(e, o, images) /\ behind = After(o, images)
  <2>1. RowsAt(e, type, t.tableid, c, used, s.rows)
    BY <1>1, EventRows
  <2>2. RowAt(e, type, t.tableid, c, used, s.rows, k)
    BY <2>1 DEF RowsAt
  <2> QED BY <2>2 DEF RowAt
<1>4. FieldsAre(t.types, t.meta, c)
  BY TableFields
<1>5. /\ type = "UPDATE_ROWS" =>
           At(e, r.isused, Bitmap(used.old)) /\ At(e, u, Bitmap(used.new))
      /\ type # "UPDATE_ROWS" => At(e, r.isused, Bitmap(used.new))
  BY BitmapsAt
<1>6. CASE type = "UPDATE_ROWS"
  <2>1. \E between :
          /\ ImageIs(e, o, t.types, t.meta, r.isused, c, used.old, row.old, between)
          /\ ImageIs(e, between, t.types, t.meta, u, c, used.new, row.new, After(o, images))
    <3> HIDE DEF type, used, row
    <3> QED BY <1>2, <1>3, <1>4, <1>5, <1>6, RowRead DEF images
  <2>2. PICK between :
          /\ ImageIs(e, o, t.types, t.meta, r.isused, c, used.old, row.old, between)
          /\ ImageIs(e, between, t.types, t.meta, u, c, used.new, row.new, After(o, images))
    BY <2>1
  <2>3. first.cur = between /\ ImageHolds(first.cells, c, used.old, row.old)
    BY <2>2 DEF ImageIs
  <2>4. second.cur = After(o, images) /\ ImageHolds(second.cells, c, used.new, row.new)
    BY <2>2, <2>3 DEF ImageIs
  <2> QED BY <1>3, <1>6, <2>3, <2>4, Zenon DEF RowIs
<1>7. CASE type # "UPDATE_ROWS"
  <2>1. ImageIs(e, o, t.types, t.meta, r.isused, c, used.new, row.new, After(o, images))
    <3> HIDE DEF type, used, row
    <3> QED BY <1>2, <1>3, <1>4, <1>5, <1>7, RowRead DEF images
  <2>2. first.cur = After(o, images) /\ ImageHolds(first.cells, c, used.new, row.new)
    BY <2>1 DEF ImageIs
  <2> QED BY <1>3, <1>7, <2>2, Zenon DEF RowIs
<1> QED BY <1>6, <1>7

\* The row that the loop keeps next: it ends where the next one begins.
NextRowIs(old, new) ==
    /\ Len(rev.rows) < Len(sent.rows)
    /\ RowIs(cols, rev, sent, sent.rows[Len(rev.rows) + 1],
             RowStart(rev.type, rev.tableid, cols, sent.used, sent.rows, Len(rev.rows) + 1 + 1),
             old, new)

\* parseRowsEvent: while the cursor is before the end of the event there is a row
\* to read, and it is the next one.
LEMMA RowStepped ==
    ASSUME ReadInv, DecodeRow
    PROVE  \E old, new : /\ KeepRow(Len(rev.rows), old, new) /\ new.cur \in Nat
                         /\ DecimalsRead => NextRowIs(old, new)
<1> DEFINE n == Len(rev.rows)
           first == ImageAt(cur, rev.isused)
           second == ImageAt(first.cur, rev.isused_u)
<1>1. /\ pc = "rows" /\ cur < rev.evlen
      /\ IsUpdate => KeepRow(n, first, second)
      /\ ~IsUpdate => KeepRow(n, NoCell, first)
  BY DEF DecodeRow, DecodeSecond
<1>2. /\ ev \in Octets /\ cur \in Nat
      /\ HeadRead(ev, cols, table, rev.isused_u, rev, sent)
  BY <1>1 DEF ReadInv, EventInv, Reading
<1>3. /\ EventIs(ev, rev.type, table.tableid, cols, sent.used, sent.rows)
      /\ rev.evlen = Len(ev) /\ rev.tableid = table.tableid
  BY <1>2 DEF HeadRead
<1>4. cols \in Tables
  BY <1>3 DEF EventIs
<1>5. PICK id \in {1, 2} : TableIs(table, id, cols)
  <2>1. cols # <<>>
    <3>1. TableOK(cols)
      BY <1>4, TablesAssumption
    <3>2. Len(<<>>) = 0
      OBVIOUS
    <3> QED BY <3>1, <3>2 DEF TableOK
  <2> QED BY <2>1 DEF ReadInv, TableInv
<1>6. TableOK(cols) /\ FieldsAre(table.types, table.meta, cols)
  BY <1>4, <1>5, TableFields
<1>7. first.cur \in Nat /\ second.cur \in Nat
  <2>1. \A o \in Nat : \A u : ImageAt(o, u).cur \in Nat
    BY <1>2, <1>6, ImageCursor DEF ImageAt
  <2> QED BY <1>2, <2>1
<1>8. first = DecodeImage(ev, cur, table.types, table.meta, rev.isused)
      /\ second = DecodeImage(ev, first.cur, table.types, table.meta, rev.isused_u)
  BY DEF ImageAt
<1>9. ASSUME DecimalsRead
      PROVE  /\ IsUpdate => NextRowIs(first, second)
             /\ ~IsUpdate => NextRowIs(NoCell, first)
  <2> DEFINE start(k) == RowStart(rev.type, table.tableid, cols, sent.used, sent.rows, k)
  <2>1. n <= Len(sent.rows) /\ cur = start(n + 1)
    BY <1>1, <1>3, <1>9 DEF ReadInv, ProgressInv, CursorOnRow
  <2>2. n \in Nat /\ Len(sent.rows) \in Nat
    <3>1. Len(sent.rows) \in Nat
      BY <1>3, EventRead
    <3> QED BY <3>1, HeldAreNumbers DEF ReadInv, PInv
  <2>3. n # Len(sent.rows)
    <3>1. RowsAt(ev, rev.type, table.tableid, cols, sent.used, sent.rows)
      BY <1>3, EventRows
    <3>2. start(Len(sent.rows) + 1) = Len(ev)
      BY <3>1 DEF RowsAt
    <3>3. n = Len(sent.rows) => cur = Len(ev)
      <4> HIDE DEF n
      <4> QED BY <2>1, <3>2
    <3>4. Len(ev) \in Nat /\ cur < Len(ev)
      BY <1>1, <1>2, <1>3, OctetsAre
    <3> QED BY <1>2, <3>3, <3>4
  <2>4. n < Len(sent.rows) /\ n + 1 \in 1 .. Len(sent.rows)
    <3> HIDE DEF n
    <3> QED BY <2>1, <2>2, <2>3
  <2> DEFINE behind == start(n + 1 + 1)
             row == sent.rows[n + 1]
  <2>5. /\ rev.type = "UPDATE_ROWS" => RowIs(cols, rev, sent, row, behind, first, second)
        /\ rev.type # "UPDATE_ROWS" => RowIs(cols, rev, sent, row, behind, NoCell, first)
    <3> HIDE DEF n, first, second
    <3> QED BY <1>2, <1>4, <1>5, <1>8, <1>9, <2>1, <2>4, RowDecoded
  <2> HIDE DEF first, second
  <2> QED BY <1>3, <2>4, <2>5 DEF NextRowIs, IsUpdate
<1> HIDE DEF first, second
<1>10. CASE IsUpdate
  BY <1>1, <1>7, <1>9, <1>10
<1>11. CASE ~IsUpdate
  BY <1>1, <1>7, <1>9, <1>11
<1> QED BY <1>10, <1>11

\* What ImageHolds says of an image, RowsHold says of its cells.
LEMMA HoldsAsWritten ==
    ASSUME NEW cells, NEW row, NEW used, cols \in Tables, ImageHolds(cells, cols, used, row)
    PROVE  HoldsColumns(cells, row, used, AllTypes \ {T.SET})
<1>1. DOMAIN cols = 1 .. Len(cols)
  BY TablesAssumption DEF TableOK
<1> QED BY <1>1 DEF ImageHolds, CellHolds, HoldsColumns

\* RowsAsWritten, of a table, an event and the rows the master sent.
Held(c, cells, row, used, types) ==
    /\ Len(cells) = Len(c)
    /\ \A i \in DOMAIN c : c[i].type \in types =>
         cells[i].value = IF used[i] THEN Shown(c[i], row[i]) ELSE Null
AllRowsHeld(c, r, s) ==
    \A k \in DOMAIN r.rows :
      /\ Held(c, r.rows[k], s.rows[k].new, s.used.new, {c[i].type : i \in DOMAIN c} \ {T.SET})
      /\ r.type = "UPDATE_ROWS" =>
           Held(c, r.rowsold[k], s.rows[k].old, s.used.old, {c[i].type : i \in DOMAIN c} \ {T.SET})

\* An image holds what HoldsColumns says.
LEMMA HeldColumns ==
    ASSUME NEW cells, NEW row, NEW used, NEW types
    PROVE  HoldsColumns(cells, row, used, types) <=> Held(cols, cells, row, used, types)
  BY Zenon DEF HoldsColumns, Held

\* All rows of an event hold what RowsAsWritten says.
LEMMA HeldAsWritten == AllRowsHeld(cols, rev, sent) => RowsAsWritten
<1> SUFFICES ASSUME AllRowsHeld(cols, rev, sent), NEW k \in DOMAIN rev.rows
             PROVE  /\ HoldsColumns(rev.rows[k], sent.rows[k].new, sent.used.new, AllTypes \ {T.SET})
                    /\ IsUpdate => HoldsColumns(rev.rowsold[k], sent.rows[k].old, sent.used.old,
                                                AllTypes \ {T.SET})
  BY Zenon DEF RowsAsWritten, RowsHold
<1> QED BY HeldColumns, Zenon DEF AllRowsHeld, AllTypes, IsUpdate

\* parseRowsEvent: one round of the loop.
LEMMA DecodeRowRead ==
    ASSUME ReadInv, DecodeRow
    PROVE  ReadInv'
<1>1. PInv'
  BY DecodeRowStep DEF ReadInv
<1>2. pc = "rows" /\ UNCHANGED <<cols, sent, ev, hdrlen, table, taken, pc>>
  BY DEF DecodeRow
<1>3. PICK old, new : /\ KeepRow(Len(rev.rows), old, new) /\ new.cur \in Nat
                      /\ DecimalsRead => NextRowIs(old, new)
  BY RowStepped
<1> DEFINE n == Len(rev.rows)
<1>4. /\ cur' = new.cur
      /\ rev' = [rev EXCEPT !.totalrows = Grown(n, @), !.rows = Append(@, new.cells),
                            !.rowsold = IF IsUpdate THEN Append(@, old.cells) ELSE @]
  BY <1>3 DEF KeepRow
<1>5. /\ AreRows(rev.rows) /\ AreRows(rev.rowsold) /\ n \in Nat
      /\ Len(rev.rowsold) = IF IsUpdate THEN n ELSE 0
      /\ DOMAIN rev.rows = 1 .. n
  BY HeldAreNumbers DEF ReadInv, PInv, RowsInv, ArraysFit
<1>6. /\ DOMAIN rev = DOMAIN NoRev /\ HeadRead(ev, cols, table, rev.isused_u, rev, sent)
      /\ ev \in Octets
  BY <1>2 DEF ReadInv, EventInv, Reading
<1>7. /\ DOMAIN rev' = DOMAIN NoRev
      /\ rev'.rows = Append(rev.rows, new.cells)
      /\ rev'.rowsold = IF IsUpdate THEN Append(rev.rowsold, old.cells) ELSE rev.rowsold
      /\ rev'.type = rev.type /\ rev'.tableid = rev.tableid /\ rev'.isused = rev.isused
      /\ rev'.isused_u = rev.isused_u /\ rev'.evlen = rev.evlen
  <2>1. {"rows", "rowsold", "type", "tableid", "isused", "isused_u", "evlen", "totalrows"}
          \subseteq DOMAIN rev
    BY <1>6 DEF NoRev
  <2> HIDE DEF n
  <2>2. DOMAIN rev' = DOMAIN rev
    BY <1>4
  <2>3. DOMAIN rev' = DOMAIN NoRev
    BY <1>6, <2>2, Zenon
  <2> QED BY <1>4, <2>1, <2>3
<1>8. IsUpdate' = IsUpdate
  BY <1>7 DEF IsUpdate
<1>9. TableInv'
  BY <1>2 DEF ReadInv, TableInv
<1>10. EventInv'
  <2>1. HeadRead(ev', cols', table', rev'.isused_u, rev', sent')
    BY <1>2, <1>6, <1>7 DEF HeadRead
  <2> QED BY <1>2, <1>3, <1>4, <1>6, <1>7, <2>1 DEF EventInv
<1>11. ASSUME DecimalsRead PROVE CursorOnRow' /\ RowsAsWritten'
  <2>1. NextRowIs(old, new)
    BY <1>3, <1>11
  <2> DEFINE row == sent.rows[n + 1]
  <2>2. /\ n < Len(sent.rows)
        /\ new.cur = RowStart(rev.type, rev.tableid, cols, sent.used, sent.rows, n + 1 + 1)
        /\ ImageHolds(new.cells, cols, sent.used.new, row.new)
        /\ IsUpdate => ImageHolds(old.cells, cols, sent.used.old, row.old)
    BY <2>1 DEF NextRowIs, RowIs, IsUpdate
  <2>3. cols \in Tables /\ Len(sent.rows) \in Nat
    <3>1. EventIs(ev, rev.type, table.tableid, cols, sent.used, sent.rows)
      BY <1>6 DEF HeadRead
    <3> QED BY <3>1, EventRead DEF EventIs
  <2> DEFINE types == AllTypes \ {T.SET}
  <2>4. /\ HoldsColumns(new.cells, row.new, sent.used.new, types)
        /\ IsUpdate => HoldsColumns(old.cells, row.old, sent.used.old, types)
    BY <2>2, <2>3, HoldsAsWritten
  <2>5. /\ Len(rev'.rows) = n + 1 /\ DOMAIN rev'.rows = 1 .. n + 1
        /\ \A k \in 1 .. n : rev'.rows[k] = rev.rows[k]
        /\ rev'.rows[n + 1] = new.cells
    BY <1>5, <1>7, Appended DEF AreRows
  <2>6. ASSUME IsUpdate
        PROVE  /\ \A k \in 1 .. n : rev'.rowsold[k] = rev.rowsold[k]
               /\ rev'.rowsold[n + 1] = old.cells
    <3>1. Len(rev.rowsold) = n /\ IsSequence(rev.rowsold)
          /\ rev'.rowsold = Append(rev.rowsold, old.cells)
      BY <1>5, <1>7, <2>6 DEF AreRows
    <3> HIDE DEF n
    <3> QED BY <3>1, Appended
  <2> HIDE DEF row, n
  <2>7. CursorOnRow'
    <3>1. Len(rev'.rows) <= Len(sent'.rows)
      BY <1>2, <1>5, <2>2, <2>3, <2>5
    <3>2. cur' = RowStart(rev'.type, rev'.tableid, cols', sent'.used, sent'.rows, Len(rev'.rows) + 1)
      BY <1>2, <1>4, <1>7, <2>2, <2>5, Zenon
    <3> QED BY <3>1, <3>2 DEF CursorOnRow
  <2>8. ASSUME NEW k \in 1 .. n
        PROVE  /\ HoldsColumns(rev.rows[k], sent.rows[k].new, sent.used.new, types)
               /\ IsUpdate => HoldsColumns(rev.rowsold[k], sent.rows[k].old, sent.used.old, types)
    <3>1. RowsAsWritten
      BY <1>11 DEF ReadInv, ProgressInv
    <3>2. k \in DOMAIN rev.rows
      BY <1>5
    <3> QED BY <1>2, <3>1, <3>2, Zenon DEF RowsAsWritten, RowsHold
  <2>9. ASSUME NEW k \in 1 .. n + 1
        PROVE  /\ HoldsColumns(rev'.rows[k], sent.rows[k].new, sent.used.new, types)
               /\ IsUpdate => HoldsColumns(rev'.rowsold[k], sent.rows[k].old, sent.used.old, types)
    <3> HIDE DEF types
    <3>1. CASE k \in 1 .. n
      <4>1. rev'.rows[k] = rev.rows[k] /\ (IsUpdate => rev'.rowsold[k] = rev.rowsold[k])
        BY <2>5, <2>6, <3>1
      <4> QED BY <2>8, <3>1, <4>1
    <3>2. CASE k = n + 1
      BY <2>4, <2>5, <2>6, <3>2 DEF row
    <3>3. k \in 1 .. n \/ k = n + 1
      BY <1>5
    <3> QED BY <3>1, <3>2, <3>3
  <2>10. AllRowsHeld(cols', rev', sent')
    <3> HIDE DEF types
    <3>1. /\ \A k \in DOMAIN rev'.rows : Held(cols, rev'.rows[k], sent.rows[k].new, sent.used.new, types)
          /\ IsUpdate => \A k \in DOMAIN rev'.rows :
               Held(cols, rev'.rows[k], sent.rows[k].new, sent.used.new, types)
               /\ Held(cols, rev'.rowsold[k], sent.rows[k].old, sent.used.old, types)
      BY <2>5, <2>9, HeldColumns
    <3> QED BY <1>2, <1>7, <3>1, Zenon DEF AllRowsHeld, IsUpdate, types, AllTypes
  <2>11. RowsAsWritten'
    <3>1. (AllRowsHeld(cols, rev, sent))'
      BY <2>10
    <3> QED BY <3>1, HeldAsWritten, PTL
  <2> QED BY <2>7, <2>11
<1>12. HeapCounts'
  <2>1. (PInv /\ pc \notin {"abort", "closed"})'
    BY <1>1, <1>2
  <2> QED BY <2>1, HeapIsCounted, PTL
<1>13. pc' \in PCs
  BY <1>2 DEF PCs
<1> QED BY <1>1, <1>9, <1>10, <1>11, <1>12, <1>13 DEF ReadInv, ProgressInv
-----------------------------------------------------------------------------
(* The results on what is read. *)

\* The inductive invariant of the parser as a reader of events.
LEMMA ReaderInvariant == Spec => []ReadInv
<1>1. Init => ReadInv
  BY ReaderInit
<1>2. ReadInv /\ [Next]_vars => ReadInv'
  BY FDERead, NewTableRead, RowsHeadStepped, DecodeRowRead, RowsParsedRead, BufferRead,
     FreeRowRead, FreeRowsRead, CloseRead, ReaderStutter DEF Next
<1> QED BY <1>1, <1>2, PTL DEF Spec

\* parseTableMapEvent, decodeMetadata: for every table a master may have, the types
\* and the metadata of its fields are read as they were written, though fields
\* differ in how many bytes their metadata take.
THEOREM TablesAreAsWritten == Spec => []TableAsWritten
<1>1. ReadInv => TableAsWritten
  BY DEF ReadInv, TableInv, TableIs, TypesOf, TableAsWritten
<1> QED BY <1>1, ReaderInvariant, PTL

\* logevent.c: the parser's variables have their types; in particular the cursor
\* never moves before the event, and no count of blocks falls below zero.
THEOREM ParserTypeCorrect == Spec => []TypeOK
<1>1. ReadInv => TypeOK
  <2> SUFFICES ASSUME ReadInv PROVE TypeOK
    OBVIOUS
  <2>1. cols \in Tables \union {<<>>} /\ cur \in Nat /\ hdrlen \in {0, 19} /\ pc \in PCs
    BY DEF ReadInv, TableInv, EventInv, PInv, ReaderInv
  <2>2. taken \in Nat
    BY HeldAreNumbers DEF ReadInv, PInv
  <2>3. \A k \in DOMAIN heap : heap[k] \in Nat
    BY DEF ReadInv, HeapCounts
  <2>4. /\ table.tableid \in 0 .. 2
        /\ Len(table.meta) = Len(table.types) /\ Len(table.canbenull) = Len(table.types)
    <3>1. CASE cols = <<>>
      BY <3>1 DEF ReadInv, TableInv, NoTable
    <3>2. CASE cols # <<>>
      <4>1. cols \in Tables
        BY <2>1, <3>2
      <4>2. PICK id \in {1, 2} : TableIs(table, id, cols)
        BY <3>2 DEF ReadInv, TableInv
      <4>3. table.tableid = id
        BY <4>2 DEF TableIs
      <4>4. /\ Len(table.types) = Len(cols) /\ Len(table.meta) = Len(cols)
            /\ Len(table.canbenull) = Len(cols)
        BY <4>1, <4>2, TableFields
      <4> QED BY <4>2, <4>3, <4>4
    <3> QED BY <3>1, <3>2
  <2> QED BY <2>1, <2>2, <2>3, <2>4 DEF TypeOK
<1> QED BY <1>1, ReaderInvariant, PTL

\* decodeint: a coded length between other bytes.
LEMMA LengthAnywhere ==
    ASSUME NEW e \in Octets, NEW n \in Nat, n < FourBytes
    PROVE  decodeint(e \o CodedLength(n) \o e, Len(e))
             = [v |-> n, cur |-> Len(e) + Len(CodedLength(n))]
<1> DEFINE coded == CodedLength(n)
           both == Join(e, coded)
           all == Join(both, e)
<1>1. Len(e) \in Nat
  BY OctetsAre
<1>2. coded \in Octets
  BY CodedAre
<1> HIDE DEF coded
<1>3. both \in Octets
  BY <1>2, Joined
<1>4. At(both, Len(e), coded)
  BY <1>2, AtParts
<1>5. At(all, 0, both)
  <2> HIDE DEF both
  <2> QED BY <1>3, AtParts
<1> HIDE DEF both, all
<1>6. At(all, 0 + Len(e), coded)
  BY <1>4, <1>5, AtWithin
<1>7. At(all, Len(e), CodedLength(n))
  BY <1>1, <1>6 DEF coded
<1>8. decodeint(all, Len(e)) = [v |-> n, cur |-> After(Len(e), CodedLength(n))]
  BY <1>7, LengthRead
<1>9. all = e \o CodedLength(n) \o e
  BY Zenon DEF all, both, coded, Join
<1> QED BY <1>8, <1>9, Zenon DEF After

\* decodeint: a coded length is read the same anywhere in an event, and the cursor
\* moves behind its bytes, one, three, four or nine of them.
THEOREM LengthsAreDecoded == Spec => []LengthsDecoded
<1>1. ReadInv => LengthsDecoded
  <2>1. \A n \in Lengths : n \in Nat /\ n < FourBytes
    BY SMT DEF Lengths, FourBytes
  <2> SUFFICES ASSUME ReadInv, NEW n \in Lengths
               PROVE  decodeint(ev \o CodedLength(n) \o ev, Len(ev))
                        = [v |-> n, cur |-> Len(ev) + Len(CodedLength(n))]
    BY DEF LengthsDecoded
  <2>2. ev \in Octets
    BY DEF ReadInv, EventInv
  <2> QED BY <2>1, <2>2, LengthAnywhere
<1> QED BY <1>1, ReaderInvariant, PTL

\* parseRowsEvent, value2Cell: if each DECIMAL is read right alone, then for every
\* table, whatever its columns, the cursor is on a row of the event at each round
\* of the loop, and the loop ends behind the last.
THEOREM CursorIsOnRow ==
    ASSUME DecimalsRead
    PROVE  Spec => []CursorOnRow
<1>1. ReadInv => CursorOnRow
  BY DEF ReadInv, ProgressInv
<1> QED BY <1>1, ReaderInvariant, PTL

\* parseRowsEvent, value2Cell: under the same condition every column but a SET has
\* the value the master wrote, or none where it wrote none, in the row and in the
\* image, old or new, that it belongs to; only the year 0000 is shown as 1900.
\* TablesAssumption leaves out negative TIME values and GEOMETRY columns.
THEOREM RowsAreAsWritten ==
    ASSUME DecimalsRead
    PROVE  Spec => []RowsAsWritten
<1>1. ReadInv => RowsAsWritten
  BY DEF ReadInv, ProgressInv
<1> QED BY <1>1, ReaderInvariant, PTL
=============================================================================
