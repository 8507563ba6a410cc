------------------------------ MODULE BinlogLog ------------------------------
(***************************************************************************)
(* The binary log a client reads: what the master writes, in the order it  *)
(* streams it.  The log is outside the library (external), so this module  *)
(* says what the library takes for granted of it, and what a position in   *)
(* it means: a checkpoint <<logfile, position, index>> stands for the rows *)
(* that a client resumed from there must not see again.                    *)
(*                                                                         *)
(* An event carries the fields of its header and body the client acts on,  *)
(* and two annotations the code never sees: "start", its true byte offset, *)
(* and, for a rows event, "base", how many rows stand between the table    *)
(* map that governs it and the event.                                      *)
(***************************************************************************)
EXTENDS Naturals, Sequences

CONSTANTS
    Files,      \* names of binlog files
    NoFile,     \* what strcpy leaves when the rotate event is misread
    PosMod      \* positions are uint32_t: PosMod stands for 2^32

ASSUME FilesAssumption  == NoFile \notin Files
ASSUME PosModAssumption == PosMod \in Nat /\ PosMod > 4

Position == 0 .. PosMod - 1

RowsTypes  == {"WRITE_ROWS", "UPDATE_ROWS", "DELETE_ROWS"}
EventTypes == RowsTypes \union {"FDE", "TABLE_MAP", "ROTATE", "QUERY"}

Event == [type: EventTypes, file: Files, start: Nat, evlen: Position,
          nextpos: Position, tableid: Nat \ {0}, nrows: Nat, base: Nat,
          tofile: Files, topos: Position]

\* A rotate event and a format description event the master makes up: they
\* lie nowhere in a file.
FakeRotate(f, p) ==
    [type |-> "ROTATE", file |-> f, start |-> 0, evlen |-> 4, nextpos |-> 0,
     tableid |-> 1, nrows |-> 0, base |-> 0, tofile |-> f, topos |-> p]
FakeFDE(f) == [FakeRotate(f, 0) EXCEPT !.type = "FDE"]

IsRows(ev)     == ev.type \in RowsTypes
IsTableMap(ev) == ev.type = "TABLE_MAP"
-----------------------------------------------------------------------------
(* Rows.  A row is named by its event and its place in the event. *)
NoRow == <<0, 0>>
Rows(l) == UNION {{e} \X (1 .. l[e].nrows) : e \in {d \in DOMAIN l : IsRows(l[d])}}

RowLess(r, s) == r[1] < s[1] \/ (r[1] = s[1] /\ r[2] < s[2])

\* s is the row after r, NoRow being before all rows.
IsNextRow(l, r, s) ==
    /\ s \in Rows(l)
    /\ RowLess(r, s)
    /\ \A t \in Rows(l) : ~(RowLess(r, t) /\ RowLess(t, s))

\* e is governed by the table map t: no other table map lies between them.
InGroup(l, e, t) ==
    /\ t < e
    /\ IsTableMap(l[t])
    /\ \A m \in DOMAIN l : t < m /\ m < e => ~IsTableMap(l[m])
-----------------------------------------------------------------------------
(* Checkpoints. *)
Checkpoint == [file: Files \union {NoFile}, pos: Position, idx: Nat]

\* Event e starts at the place the checkpoint names (the master refuses a
\* position below 4, the length of the magic number).
IsEventAt(l, e, file, pos) ==
    e \in DOMAIN l /\ pos >= 4 /\ l[e].file = file /\ l[e].start = pos

\* The rows a client that starts at event e and skips idx rows never delivers.
SkippedFrom(l, e, idx) ==
    {r \in Rows(l) : \/ r[1] < e
                       \/ (InGroup(l, r[1], e) /\ l[r[1]].base + r[2] <= idx)}

\* The checkpoint stands for "all the rows up to last, and no other".
Denotes(l, cp, last) ==
    \E e \in DOMAIN l : /\ IsEventAt(l, e, cp.file, cp.pos)
                        /\ SkippedFrom(l, e, cp.idx) = {r \in Rows(l) : ~RowLess(last, r)}

\* An index is possible only after a table map, and at most the number of
\* rows the table map governs; index 0 starts at any event that does not
\* need an earlier one.
ValidStart(l, cp) ==
    \E e \in DOMAIN l :
        /\ IsEventAt(l, e, cp.file, cp.pos)
        /\ \/ cp.idx = 0 /\ ~IsRows(l[e])
           \/ \E r \in Rows(l) : InGroup(l, r[1], e) /\ l[r[1]].base + r[2] = cp.idx
-----------------------------------------------------------------------------
(* What the master guarantees of its log. *)

\* The header of a table map points behind it, 32 bits of it; the table map
\* itself starts below PosMod.
HeadersOK(l) ==
    \A e \in DOMAIN l : IsTableMap(l[e]) =>
        /\ l[e].start \in 4 .. PosMod - 1
        /\ \/ l[e].nextpos = l[e].start + l[e].evlen
           \/ l[e].nextpos + PosMod = l[e].start + l[e].evlen

\* Rows events have rows, and no rotation separates them from their table
\* map; base counts the rows of the group so far.
GroupsOK(l) ==
    \A e \in DOMAIN l : IsRows(l[e]) =>
        /\ l[e].nrows > 0
        /\ \A t \in DOMAIN l : InGroup(l, e, t) =>
             LET Earlier == {d \in t + 1 .. e - 1 : IsRows(l[d])} IN
               /\ \A d \in t + 1 .. e - 1 : l[d].type # "ROTATE"
               /\ Earlier = {} => l[e].base = 0
               /\ \A d \in Earlier :
                    /\ l[d].base + l[d].nrows <= l[e].base
                    /\ (\A c \in Earlier : c <= d) => l[d].base + l[d].nrows = l[e].base

\* A file begins with a format description at 4, ends with a rotate event,
\* and no two of its events start at the same place.
FilesOK(l) ==
    /\ \A e \in DOMAIN l : l[e].start = 4 => l[e].type = "FDE"
    /\ \A e \in 1 .. Len(l) - 1 :
         l[e + 1].file = IF l[e].type = "ROTATE" THEN l[e].tofile ELSE l[e].file
    /\ \A d, e \in DOMAIN l :
         l[d].start >= 4 /\ l[d].file = l[e].file /\ l[d].start = l[e].start => d = e

WellFormed(l) == l \in Seq(Event) /\ HeadersOK(l) /\ GroupsOK(l) /\ FilesOK(l)
=============================================================================
