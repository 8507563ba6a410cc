---------------------------- MODULE MCEventParse ----------------------------
(***************************************************************************)
(* Tables for EventParse.  Between them they have every field type a       *)
(* master of the library's time sends, both widths of each prefix, and one *)
(* and two bytes of bitmap.                                                *)
(***************************************************************************)
EXTENDS EventParse

Col(type, len, vals) == [type |-> type, len |-> len, vals |-> vals, null |-> FALSE]
Nullable(c) == [c EXCEPT !.null = TRUE]

Numbers == <<Col(T.LONG, 0, {<<255, 255, 255, 255>>}),
             Nullable(Col(T.TINY, 0, {<<128>>})),
             Col(T.SHORT, 0, {<<1, 2>>}),
             Col(T.INT24, 0, {<<1, 2, 131, 255>>, <<1, 2, 3, 0>>}),
             Col(T.LONGLONG, 0, {<<1, 2, 3, 4, 5, 6, 7, 8>>}),
             Col(T.FLOAT, 0, {<<0, 0, 128, 63>>}),
             Col(T.DOUBLE, 0, {<<0, 0, 0, 0, 0, 0, 240, 63>>}),
             Col(T.TIMESTAMP, 0, {<<9, 8, 7, 6>>})>>

Times == <<Nullable(Col(T.DATETIME, 0, {<<2012, 12, 31, 23, 59, 58>>})),
           Col(T.TIME, 0, {<<838, 59, 59>>}),
           Col(T.DATE, 0, {<<2012, 12, 31>>, <<0, 0, 0>>}),
           Col(T.YEAR, 0, {<<2155>>, <<0>>})>>

Strings == <<Col(T.VARCHAR, 255, {<<65>>}), Col(T.VARCHAR, 256, {<<>>, <<66>>}),
             Col(T.STRING, 255, {<<67, 68>>}), Nullable(Col(T.STRING, 300, {<<69>>})),
             Col(T.STRING, 20, {<<70>>})>>

Blobs == <<Col(T.BLOB, 1, {<<1>>}), Nullable(Col(T.BLOB, 2, {<<2, 3>>})),
           Col(T.BLOB, 3, {<<>>}), Col(T.BLOB, 4, {<<4>>})>>

Exact == <<Col(T.NEWDECIMAL, 256 * 12 + 2,
               {<<0, <<0, 0, 0, 0, 0, 1, 2, 0, 3, 4>>, <<5, 0>>>>,
                <<1, <<9, 9, 9, 9, 9, 9, 9, 9, 9, 9>>, <<0, 1>>>>}),
           Nullable(Col(T.NEWDECIMAL, 256 * 2 + 2, {<<0, <<>>, <<0, 7>>>>})),
           Col(T.BIT, 12, {<<1, 2>>}), Col(T.BIT, 8, {<<255>>})>>

Lists == <<Col(T.ENUM, 1, {<<3, 0, 0, 0>>}), Col(T.ENUM, 2, {<<1, 1, 0, 0>>}), Nullable(Col(T.SET, 2, {<<5, 1>>})),
           Col(T.TINY, 0, {<<7>>})>>

Nine == [i \in 1 .. 9 |-> IF i \in {1, 9} THEN Nullable(Col(T.TINY, 0, {<<i>>}))
                                          ELSE Col(T.TINY, 0, {<<i>>})]

ASSUME DecimalsAssumption == DecimalsRead

\* Images of this table may leave columns out.
Narrow == <<Col(T.TINY, 0, {<<1>>}), Col(T.SHORT, 0, {<<1, 2>>})>>

MCTables == {Numbers, Times, Strings, Blobs, Exact, Lists, Nine, Narrow}
MCPartial == {Narrow}

\* For the run about a SET.
ListTables  == {Lists}
=============================================================================
