----------------------------- MODULE RowImage -----------------------------
(***************************************************************************)
(* The bytes of an event (src/src/logevent.c): coded lengths, bitmaps, the *)
(* metadata of a table's fields and the cells of a row image.  An event is *)
(* a sequence of bytes; offsets count from 0 as in the code.  A cell is    *)
(* [mtype, ctype, value]: the value is the bytes behind the pointer, in    *)
(* the order of a little-endian build, Null for a null pointer, the        *)
(* numbers of a date for the text it is formatted to; cell.length is the   *)
(* length of that value.                                                   *)
(***************************************************************************)
EXTENDS Integers, Sequences

CONSTANT Behind     \* what a read behind the end of an event returns
ASSUME BehindAssumption == Behind \in 0 .. 255

Dec == INSTANCE Decimal WITH DIG_PER_DEC1 <- 9

(* enum bl_enum_field_types, without BL_MYSQL_TYPE_. *)
T == [TINY |-> 1, SHORT |-> 2, LONG |-> 3, FLOAT |-> 4, DOUBLE |-> 5,
      TIMESTAMP |-> 7, LONGLONG |-> 8, INT24 |-> 9, DATE |-> 10, TIME |-> 11,
      DATETIME |-> 12, YEAR |-> 13, NEWDATE |-> 14, VARCHAR |-> 15, BIT |-> 16,
      NEWDECIMAL |-> 246, ENUM |-> 247, SET |-> 248, TINY_BLOB |-> 249, MEDIUM_BLOB |-> 250,
      LONG_BLOB |-> 251, BLOB |-> 252, VAR_STRING |-> 253, STRING |-> 254, GEOMETRY |-> 255]

Null == <<-1>>
-----------------------------------------------------------------------------
(* Reading. *)
Byte(ev, cur)     == IF cur < Len(ev) THEN ev[cur + 1] ELSE Behind
Bytes(ev, cur, n) == [i \in 1 .. n |-> Byte(ev, cur + i - 1)]

\* getUint8 .. getUint64.
Uint(b) == LET value[i \in 0 .. Len(b)] ==
                 IF i = 0 THEN 0 ELSE b[Len(b) + 1 - i] + 256 * value[i - 1]
           IN value[Len(b)]
ReadUint(ev, cur, n) == Uint(Bytes(ev, cur, n))

\* decodeint moves the cursor behind what it reads.
decodeintBehindValue(ev, cur) ==
    IF Byte(ev, cur) = 252 THEN [v |-> ReadUint(ev, cur + 1, 2), cur |-> cur + 2]
    ELSE [v |-> Byte(ev, cur), cur |-> cur + 1]
decodeint(ev, cur) ==
    LET v == Byte(ev, cur)
        Wide(n) == [v |-> ReadUint(ev, cur + 1, n), cur |-> cur + 1 + n]
    IN IF v = 252 THEN Wide(2) ELSE IF v = 253 THEN Wide(3) ELSE IF v = 254 THEN Wide(8)
       ELSE [v |-> IF v < 251 THEN v ELSE 0, cur |-> cur + 1]

isSet(ev, bitmap, idx) == (Byte(ev, bitmap + (idx \div 8)) \div 2 ^ (idx % 8)) % 2 = 1
-----------------------------------------------------------------------------
(* Metadata: 1 byte, 2 bytes of either order, or none. *)
OneByte      == {T.TINY_BLOB, T.BLOB, T.MEDIUM_BLOB, T.LONG_BLOB, T.DOUBLE, T.FLOAT, T.GEOMETRY}
LittleEndianStrings == {T.BIT, T.VARCHAR, T.STRING}
LittleEndian == {T.BIT, T.VARCHAR}
HighFirst    == {T.SET, T.ENUM, T.STRING, T.NEWDECIMAL}

MetaWidth(type) == IF type \in OneByte THEN 1
                   ELSE IF type \in LittleEndian \union HighFirst THEN 2 ELSE 0

decodeMetadata(types, ev, metadata) ==
    LET index[i \in 0 .. Len(types)] ==
          IF i = 0 THEN metadata ELSE index[i - 1] + MetaWidth(types[i])
        Low(i)  == Byte(ev, index[i - 1])
        High(i) == Byte(ev, index[i - 1] + 1)
    IN [i \in DOMAIN types |->
          IF types[i] \in OneByte THEN Low(i)
          ELSE IF types[i] \in LittleEndian THEN Low(i) + 256 * High(i)
          ELSE IF types[i] \in HighFirst THEN 256 * Low(i) + High(i)
          ELSE 0]
-----------------------------------------------------------------------------
(* Cells. *)
NoCell == [mtype |-> 0, ctype |-> "INT32", value |-> Null]
Cell(mtype, ctype, value) == [mtype |-> mtype, ctype |-> ctype, value |-> value]

\* A string's metadata hides its true type, and two bits of a length over 255
\* in the type's byte.
RealType(type, meta) ==
    LET byte0 == meta \div 256
        bits  == 3 - ((byte0 \div 16) % 4)
    IN IF type # T.STRING THEN [type |-> type, len |-> 0]
       ELSE IF meta < 256 THEN [type |-> type, len |-> meta]
       ELSE IF byte0 \in {T.SET, T.ENUM, T.STRING} THEN [type |-> byte0, len |-> meta % 256]
       ELSE IF bits # 0 THEN [type |-> byte0 + 16 * bits, len |-> (meta % 256) + 256 * bits]
       ELSE [type |-> type, len |-> meta % 256]

\* Numbers: the bytes of the event, 24 bits with their sign extended to 32.
Fixed == {T.LONG, T.TINY, T.SHORT, T.LONGLONG, T.INT24, T.TIMESTAMP, T.FLOAT, T.DOUBLE}
Width(type) == CASE type = T.TINY -> 1 [] type \in {T.SHORT} -> 2 [] type = T.INT24 -> 3
                 [] type \in {T.LONG, T.TIMESTAMP, T.FLOAT} -> 4
                 [] type \in {T.LONGLONG, T.DOUBLE} -> 8
CType(type) == CASE type \in {T.LONG, T.INT24} -> "INT32" [] type = T.TINY -> "INT8"
                 [] type = T.SHORT -> "INT16" [] type = T.LONGLONG -> "INT64"
                 [] type = T.TIMESTAMP -> "UINT32" [] type = T.FLOAT -> "FLOAT"
                 [] type = T.DOUBLE -> "DOUBLE"
ZeroExtended(type, b) == IF type = T.INT24 THEN b \o <<0>> ELSE b
Extended(type, b) == IF type = T.INT24 THEN Append(b, IF b[3] >= 128 THEN 255 ELSE 0) ELSE b
FixedCell(ev, cur, type) ==
    [cell |-> Cell(type, CType(type), Extended(type, Bytes(ev, cur, Width(type)))),
     cur  |-> cur + Width(type)]

\* Dates: packed numbers, the text's fields as the value.  The division of 8
\* bytes goes byte by byte from the top.
DivMod(b, m) ==
    LET part[i \in 1 .. Len(b) + 1] ==
          IF i > Len(b) THEN [div |-> 0, mod |-> 0]
          ELSE LET high == part[i + 1]
                   v    == 256 * high.mod + b[i]
               IN [div |-> 256 * high.div + (v \div m), mod |-> v % m]
    IN part[1]
Fields(v) == <<v \div 10000, (v % 10000) \div 100, v % 100>>

DateTime == 1000000     \* a DATETIME: the number of its date times this, and that of its time
Dates == {T.DATETIME, T.TIME, T.NEWDATE, T.DATE, T.YEAR}
DateCell(ev, cur, type) ==
    LET n == CASE type = T.DATETIME -> 8 [] type = T.YEAR -> 1 [] OTHER -> 3
        v == ReadUint(ev, cur, n)
        dt == DivMod(Bytes(ev, cur, 8), DateTime)
    IN [cell |-> Cell(type, "STRING",
                   CASE type = T.DATETIME -> Fields(dt.div) \o Fields(dt.mod)
                     [] type = T.TIME -> Fields(v)
                     [] type \in {T.DATE, T.NEWDATE} -> <<v \div 512, (v \div 32) % 16, v % 32>>
                     [] type = T.YEAR -> <<v + 1900>>),
        cur |-> cur + n]

\* ENUM: 1 or 2 bytes, widened to 4.
EnumCell(ev, cur, meta) ==
    LET n == IF meta % 256 \in {1, 2} THEN meta % 256 ELSE 0
    IN [cell |-> Cell(T.ENUM, "INT32", IF n = 0 THEN Null
                                       ELSE Bytes(ev, cur, n) \o [i \in 1 .. 4 - n |-> 0]),
        cur  |-> cur + n]

\* SET: the value is copied from the start of the event, not from the cursor.
SetCell(ev, cur, meta) ==
    [cell |-> Cell(T.SET, "BINARY", Bytes(ev, 0, meta % 256)),
     cur  |-> cur + (meta % 256)]

\* A length of n bytes, then the value.
Prefixed(ev, cur, n, mtype, ctype) ==
    LET len == ReadUint(ev, cur, n) IN
      [cell |-> Cell(mtype, ctype, Bytes(ev, cur + n, len)), cur |-> cur + n + len]

BlobCell(ev, cur, meta) ==
    IF meta \in 1 .. 4 THEN Prefixed(ev, cur, meta, T.BLOB, "BINARY")
    ELSE [cell |-> [NoCell EXCEPT !.mtype = T.BLOB, !.ctype = "BINARY"], cur |-> cur]

LenBytesUpTo256(max) == IF max <= 256 THEN 1 ELSE 2
LenBytes(max) == IF max < 256 THEN 1 ELSE 2
VarcharCell(ev, cur, meta) == Prefixed(ev, cur, LenBytes(meta), T.VARCHAR, "STRING")
StringCell(ev, cur, len)   == Prefixed(ev, cur, LenBytes(len), T.STRING, "STRING")

BitBytes(meta) == ((meta \div 256) * 8 + (meta % 256) + 7) \div 8
BitCell(ev, cur, meta) ==
    [cell |-> Cell(T.BIT, "BINARY", Bytes(ev, cur, BitBytes(meta))), cur |-> cur + BitBytes(meta)]

\* DECIMAL: the cursor stays where it is when bin2decimal fails.
DecimalText(r, behind, cur) ==
    IF r.error # "OK" THEN [cell |-> NoCell, cur |-> cur]
    ELSE [cell |-> Cell(T.NEWDECIMAL, "STRING", Dec!decimal2string(r.d, 512, 0, 0, 0).text),
          cur  |-> behind]
NewdecimalCell(ev, cur, precision, decimals) ==
    LET size == Dec!decimal_bin_size(precision, decimals) IN
      DecimalText(Dec!bin2decimal(Bytes(ev, cur, size), 128, precision, decimals), cur + size, cur)

\* Types the switch does not know take no bytes and leave the cell empty.
value2Cell(ev, cur, fieldtype, meta) ==
    LET real == RealType(fieldtype, meta)
        type == real.type
    IN CASE type \in Fixed                 -> FixedCell(ev, cur, type)
         [] type \in Dates                 -> DateCell(ev, cur, type)
         [] type = T.ENUM                    -> EnumCell(ev, cur, meta)
         [] type = T.SET                     -> SetCell(ev, cur, meta)
         [] type = T.BLOB                    -> BlobCell(ev, cur, meta)
         [] type \in {T.VARCHAR, T.VAR_STRING} -> VarcharCell(ev, cur, meta)
         [] type = T.STRING                  -> StringCell(ev, cur, real.len)
         [] type = T.BIT                     -> BitCell(ev, cur, meta)
         [] type = T.NEWDECIMAL              -> NewdecimalCell(ev, cur, meta \div 256, meta % 256)
         [] OTHER                          -> [cell |-> NoCell, cur |-> cur]
-----------------------------------------------------------------------------
\* One row image: the null bitmap, which has a bit for every field of the
\* table, then a cell for each field that is present and not null.
BitmapLen(nfields) == (nfields + 7) \div 8

DecodeImage(ev, cur, types, meta, isused) ==
    LET Present(i) == ~isSet(ev, cur, i - 1) /\ isSet(ev, isused, i - 1)
        after[i \in 0 .. Len(types)] ==
          IF i = 0 THEN [cur |-> cur + BitmapLen(Len(types)), cells |-> <<>>]
          ELSE LET p == after[i - 1]
                   v == value2Cell(ev, p.cur, types[i], meta[i])
               IN IF Present(i) THEN [cur |-> v.cur, cells |-> Append(p.cells, v.cell)]
                                ELSE [cur |-> p.cur, cells |-> Append(p.cells, NoCell)]
    IN after[Len(types)]
=============================================================================
