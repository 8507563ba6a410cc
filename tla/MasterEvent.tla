---------------------------- MODULE MasterEvent ----------------------------
(***************************************************************************)
(* The events a master writes, byte by byte: the reference for the parser, *)
(* outside the library.  A column is [type, len, vals]: its type, what its *)
(* declaration adds (a length, a number of bits, 256 * precision + scale), *)
(* and the values rows may hold.  A value is given as an application       *)
(* should see it: a number as its bytes in memory, a string or a BLOB as   *)
(* its bytes, a date as its fields, a DECIMAL as <<1 if negative, digits,  *)
(* digits behind the point>>.                                              *)
(***************************************************************************)
EXTENDS RowImage, SequencesExt

Packed == INSTANCE PackedDecimal WITH DIG_PER_DEC1 <- 9

LittleBytes(v, n) ==
    LET high[i \in 0 .. n] == IF i = 0 THEN v ELSE high[i - 1] \div 256
    IN [i \in 1 .. n |-> high[i - 1] % 256]

\* Bytes of v * m + c, for numbers too large for one word.
MulAdd(v, n, m, c) ==
    LET b == LittleBytes(v, n)
        carry[i \in 0 .. n] == IF i = 0 THEN c ELSE (b[i] * m + carry[i - 1]) \div 256
    IN [i \in 1 .. n |-> (b[i] * m + carry[i - 1]) % 256]

\* A length, in the fewest bytes that hold it.
CodedLength(n) == IF n < 251 THEN <<n>>
                  ELSE IF n < 65536 THEN <<252>> \o LittleBytes(n, 2)
                  ELSE IF n < 16777216 THEN <<253>> \o LittleBytes(n, 3)
                  ELSE <<254>> \o LittleBytes(n, 8)

\* A bitmap of a sequence of booleans, the first of eight in the lowest bit.
Bitmap(bits) ==
    LET Bit(i) == IF i <= Len(bits) /\ bits[i] THEN 1 ELSE 0
        Half(i) == Bit(i) + 2 * Bit(i + 1) + 4 * Bit(i + 2) + 8 * Bit(i + 3)
    IN [k \in 1 .. (Len(bits) + 7) \div 8 |-> Half(8 * k - 7) + 16 * Half(8 * k - 3)]
-----------------------------------------------------------------------------
(* Columns. *)
FieldType(c) == IF c.type \in {T.ENUM, T.SET} THEN T.STRING ELSE c.type

FieldMeta(c) ==
    CASE c.type \in {T.ENUM, T.SET}       -> <<c.type, c.len>>
      [] c.type = T.STRING                -> <<254 - 16 * (c.len \div 256), c.len % 256>>
      [] c.type = T.VARCHAR               -> LittleBytes(c.len, 2)
      [] c.type = T.BLOB                  -> <<c.len>>
      [] c.type = T.BIT                   -> <<c.len % 8, c.len \div 8>>
      [] c.type \in {T.FLOAT, T.DOUBLE}   -> <<Width(c.type)>>
      [] c.type = T.NEWDECIMAL            -> <<c.len \div 256, c.len % 256>>
      [] OTHER                            -> <<>>

\* The number that a field's metadata stand for.
DeclaredMeta(c) ==
    CASE c.type \in {T.ENUM, T.SET}  -> 256 * c.type + c.len
      [] c.type = T.STRING           -> 256 * (254 - 16 * (c.len \div 256)) + (c.len % 256)
      [] c.type = T.BIT              -> 256 * (c.len \div 8) + (c.len % 8)
      [] c.type \in {T.FLOAT, T.DOUBLE} -> Width(c.type)
      [] c.type \in {T.VARCHAR, T.BLOB, T.NEWDECIMAL} -> c.len
      [] OTHER                       -> 0

AsNumber(v) == [neg |-> v[1] = 1, ints |-> v[2], fracs |-> v[3]]

\* A date's three numbers in one, as decimal digits and as bits.
Hundreds(a, b, c) == a * 10000 + b * 100 + c
DayBits(y, m, d)  == y * 512 + m * 32 + d

\* The year 0000 has a byte of its own, 0.  The library shows it as 1900, which is
\* no year of a YEAR column.
NoYear == 0
YearByte(y)  == IF y = NoYear THEN 0 ELSE y - 1900
YearShown(v) == IF v = <<NoYear>> THEN <<1900>> ELSE v

\* The bytes of a value in a row image.
Lowest(v, n) == [i \in 1 .. n |-> v[i]]
Pack(c, v) ==
    CASE c.type = T.INT24      -> Lowest(v, 3)
      [] c.type = T.DATETIME   -> MulAdd(Hundreds(v[1], v[2], v[3]), 8,
                                         DateTime, Hundreds(v[4], v[5], v[6]))
      [] c.type = T.TIME       -> LittleBytes(Hundreds(v[1], v[2], v[3]), 3)
      [] c.type = T.DATE       -> LittleBytes(DayBits(v[1], v[2], v[3]), 3)
      [] c.type = T.YEAR       -> <<YearByte(v[1])>>
      [] c.type = T.ENUM       -> Lowest(v, c.len)
      [] c.type = T.BLOB       -> LittleBytes(Len(v), c.len) \o v
      [] c.type \in {T.VARCHAR, T.STRING} -> LittleBytes(Len(v), IF c.len > 255 THEN 2 ELSE 1) \o v
      [] c.type = T.NEWDECIMAL -> Packed!decimal2bin(AsNumber(v))
      [] OTHER                 -> v

\* What an application finds behind cell.value: what was written, but for the year
\* 0000.
Shown(c, v) == IF v = Null THEN Null
               ELSE IF c.type = T.NEWDECIMAL THEN Packed!Written(AsNumber(v))
               ELSE IF c.type = T.YEAR THEN YearShown(v) ELSE v

\* A DECIMAL, with nothing before it or behind it, is read as it was written.
DecimalRead(c, v) ==
    value2Cell(Pack(c, v), 0, T.NEWDECIMAL, c.len)
      = [cell |-> Cell(T.NEWDECIMAL, "STRING", Shown(c, v)), cur |-> Len(Pack(c, v))]

\* What a declaration may add to a type.
LongestVarchar == 65535
LongestString  == 1023
LenLimits(type) ==
    CASE type = T.VARCHAR    -> 0 .. LongestVarchar
      [] type = T.STRING     -> 0 .. LongestString
      [] type = T.BLOB       -> 1 .. 4
      [] type = T.BIT        -> 1 .. 64
      [] type = T.ENUM       -> 1 .. 2
      [] type = T.SET        -> 1 .. 8
      [] type = T.NEWDECIMAL -> {256 * p + s : p \in 1 .. 65, s \in 0 .. 30}
      [] OTHER               -> {0}

\* The values of a column.  A TIME is not negative: the library reads it without
\* its sign.
IsBytes(v) == v \in Seq(0 .. 255)
BlobLimit(n) == CASE n = 1 -> 255 [] n = 2 -> 65535 [] n = 3 -> 16777215 [] n = 4 -> 1073741824

IsNumber(c, v) ==
    /\ c.type = T.INT24 => IsBytes(v) /\ Len(v) = 4 /\ v[4] = IF v[3] >= 128 THEN 255 ELSE 0
    /\ c.type \in Fixed \ {T.INT24} => IsBytes(v) /\ Len(v) = Width(c.type)
LastYear == 9999
IsTime(v) == v \in (0 .. 838) \X (0 .. 59) \X (0 .. 59)
IsDay(v)  == v \in (0 .. LastYear) \X (0 .. 12) \X (0 .. 31)
IsMoment(v) == v \in (0 .. LastYear) \X (0 .. 12) \X (0 .. 31) \X (0 .. 23) \X (0 .. 59) \X (0 .. 59)
IsYear(v) == \E y \in {NoYear} \union 1901 .. 2155 : v = <<y>>
IsDate(c, v) ==
    /\ c.type = T.DATETIME => IsMoment(v)
    /\ c.type = T.TIME => IsTime(v)
    /\ c.type = T.DATE => IsDay(v)
    /\ c.type = T.YEAR => IsYear(v)
IsString(c, v) ==
    /\ c.type \in {T.VARCHAR, T.STRING} => IsBytes(v) /\ Len(v) <= c.len
    /\ c.type = T.BLOB => IsBytes(v) /\ Len(v) <= BlobLimit(c.len)
IsBits(c, v) ==
    /\ c.type = T.BIT  => IsBytes(v) /\ Len(v) = (c.len + 7) \div 8
    /\ c.type = T.SET  => IsBytes(v) /\ Len(v) = c.len
    /\ c.type = T.ENUM => IsBytes(v) /\ Len(v) = 4 /\ \A i \in c.len + 1 .. 4 : v[i] = 0
IsDecimal(c, v) ==
    c.type = T.NEWDECIMAL =>
      /\ v \in {0, 1} \X Seq(0 .. 9) \X Seq(0 .. 9)
      /\ Len(v[3]) = c.len % 256 /\ Len(v[2]) + Len(v[3]) = c.len \div 256
      /\ IsBytes(Pack(c, v))
ValueOK(c, v) == IsNumber(c, v) /\ IsDate(c, v) /\ IsString(c, v) /\ IsBits(c, v)
                 /\ IsDecimal(c, v)

ColumnOK(c) ==
    /\ c.type \in Fixed \union (Dates \ {T.NEWDATE})
                  \union {T.ENUM, T.SET, T.VARCHAR, T.STRING, T.BLOB, T.BIT, T.NEWDECIMAL}
    /\ c.len \in LenLimits(c.type)
    /\ c.type = T.NEWDECIMAL => c.len % 256 <= c.len \div 256
    /\ c.null \in BOOLEAN
    /\ c.vals # {} /\ \A v \in c.vals : ValueOK(c, v)

\* A table.
MostFields == 4096
TableOK(c) == /\ Len(c) \in 1 .. MostFields /\ DOMAIN c = 1 .. Len(c)
              /\ \A i \in DOMAIN c : ColumnOK(c[i])
-----------------------------------------------------------------------------
(* Events. *)
TypeCode == [FDE |-> 15, TABLE_MAP |-> 19, WRITE_ROWS |-> 23, UPDATE_ROWS |-> 24,
             DELETE_ROWS |-> 25]

WithHeader(type, body) ==
    <<1, 0, 0, 0, TypeCode[type], 1, 0, 0, 0>> \o LittleBytes(19 + Len(body), 4)
    \o LittleBytes(500, 4) \o <<0, 0>> \o body

\* posthdrs: how many types of events the master knows.
FormatDescription(posthdrs) ==
    WithHeader("FDE", <<4, 0>> \o [i \in 1 .. 54 |-> 53] \o <<19>> \o [i \in 1 .. posthdrs |-> i])

\* A table, its name and its database's of one letter.
Described(cols) ==
    LET meta == FlattenSeq([i \in DOMAIN cols |-> FieldMeta(cols[i])]) IN
      <<1, 0, 1, 100, 0, 1, 116, 0>>
        \o CodedLength(Len(cols)) \o [i \in DOMAIN cols |-> FieldType(cols[i])]
        \o CodedLength(Len(meta)) \o meta \o Bitmap([i \in DOMAIN cols |-> cols[i].null])
TableMap(id, cols) == WithHeader("TABLE_MAP", LittleBytes(id, 6) \o Described(cols))

\* An image has null bits and values for the used columns, no others.
Image(cols, used, row) ==
    LET IsNull(i) == row[i] = Null IN
      Bitmap(FlattenSeq([i \in DOMAIN cols |-> IF used[i] THEN <<IsNull(i)>> ELSE <<>>]))
      \o FlattenSeq([i \in DOMAIN cols |-> IF used[i] /\ ~IsNull(i) THEN Pack(cols[i], row[i])
                                           ELSE <<>>])

\* A row is [old, new], and so are the columns used; only an update has both.
RowImages(type, cols, used, row) ==
    (IF type = "UPDATE_ROWS" THEN Image(cols, used.old, row.old) ELSE <<>>)
    \o Image(cols, used.new, row.new)
RowsHead(type, id, cols, used) ==
    LittleBytes(id, 6) \o <<1, 0>> \o CodedLength(Len(cols))
    \o (IF type = "UPDATE_ROWS" THEN Bitmap(used.old) ELSE <<>>) \o Bitmap(used.new)
RowsEvent(type, id, cols, used, rows) ==
    WithHeader(type, RowsHead(type, id, cols, used)
      \o FlattenSeq([k \in DOMAIN rows |-> RowImages(type, cols, used, rows[k])]))

\* Where row k of an event begins.
RowStart(type, id, cols, used, rows, k) ==
    Len(RowsEvent(type, id, cols, used, SubSeq(rows, 1, k - 1)))
=============================================================================
