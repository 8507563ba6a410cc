--------------------------- MODULE MCBinlogClient ---------------------------
(***************************************************************************)
(* Small logs for BinlogClient.  PosMod is 1000, so that a log of a dozen  *)
(* events passes the wrap of positions.                                    *)
(***************************************************************************)
EXTENDS BinlogClient

\* Annotated events.  A rotate event leads to the start of f2.
Ev(type, f, start, len, t, n, base) ==
    [type |-> type, file |-> f, start |-> start, evlen |-> len,
     nextpos |-> (start + len) % PosMod, tableid |-> t, nrows |-> n, base |-> base,
     tofile |-> "f2", topos |-> 4]
Table(f, start, t)               == Ev("TABLE_MAP", f, start, 50, t, 0, 0)
Changes(type, f, start, n, base, t) == Ev(type, f, start, 30, t, n, base)
FDE(f)                           == Ev("FDE", f, 4, 96, 1, 0, 0)
Query(f, start, len)             == Ev("QUERY", f, start, len, 1, 0, 0)
Rotate(f, start)                 == Ev("ROTATE", f, start, 40, 1, 0, 0)

\* Two groups, one of two rows events, one file.
OneFile ==
    << FDE("f1"), Query("f1", 100, 50), Table("f1", 150, 1),
       Changes("UPDATE_ROWS", "f1", 200, 1, 0, 1), Changes("WRITE_ROWS", "f1", 230, 2, 1, 1),
       Table("f1", 260, 2), Changes("DELETE_ROWS", "f1", 310, 1, 0, 2) >>

\* Two files whose first table maps start at the same offset.
TwoFiles ==
    << FDE("f1"), Table("f1", 150, 1), Changes("WRITE_ROWS", "f1", 200, 2, 0, 1),
       Rotate("f1", 230), FakeRotate("f2", 4), FDE("f2"), Table("f2", 150, 2),
       Changes("UPDATE_ROWS", "f2", 200, 2, 0, 2) >>

\* The file grows past PosMod: the last table map ends behind it.
Wrapped ==
    << FDE("f1"), Table("f1", 100, 1), Changes("UPDATE_ROWS", "f1", 150, 1, 0, 1),
       Query("f1", 180, 800), Table("f1", 980, 2), Changes("WRITE_ROWS", "f1", 1030, 1, 0, 2),
       Changes("UPDATE_ROWS", "f1", 1060, 2, 1, 2) >>

\* A statement that changes two tables maps both before its rows.
Stacked ==
    << FDE("f1"), Table("f1", 150, 1), Table("f1", 200, 2),
       Changes("WRITE_ROWS", "f1", 250, 1, 0, 1), Changes("WRITE_ROWS", "f1", 280, 1, 1, 2) >>

MCFiles == {"f1", "f2"}
ResumeLogs  == {OneFile, TwoFiles, Wrapped}
OneFileLogs == {OneFile, Wrapped, Stacked}
FileLogs    == {OneFile, Wrapped, SubSeq(TwoFiles, 1, 4) }
StackedLogs == {Stacked}
TwoFileLogs == {TwoFiles}
=============================================================================
