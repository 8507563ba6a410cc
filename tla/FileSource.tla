----------------------------- MODULE FileSource -----------------------------
(***************************************************************************)
(* The file driver below the client: openFile, getEventFromFile in its two *)
(* reads, freeEventFromFile and closeFile, while a master may still write  *)
(* the file, and may die in the middle of an event.  Offsets count from    *)
(* behind the four bytes of magic.                                         *)
(*                                                                         *)
(* fread returns 1 when all bytes are there; else it takes what there is   *)
(* and returns 0, never -1.  In a C library with sticky ends nothing is    *)
(* read any more after that; in an older one the next fread tries again.   *)
(***************************************************************************)
EXTENDS UrlParse

CONSTANTS
    Lens,       \* lengths of the events a master may write
    HdrLen,     \* bytes of a header (19)
    BufSize,    \* BL_EVENT_BUF_SIZE (4096)
    MaxEvents,  \* bound: events in the file
    Paths,      \* paths an application may mean, as sequences of bytes
    Settings    \* [sticky, parts]: of the C library, and whether a master that
                \* is alive shows parts of an event

ASSUME LensAssumption == \A n \in Lens : n \in Nat /\ n >= HdrLen
ASSUME PathsAssumption == \A p \in Paths : p \in Seq(1 .. 255)
ASSUME SizesAssumption == HdrLen \in Nat \ {0} /\ BufSize \in Nat /\ BufSize >= HdrLen
\* A library without sticky ends loses its place in an event that is still
\* written, as the file driver has no way to go back.
ASSUME SettingsAssumption == \A s \in Settings : s.sticky \/ ~s.parts

NoBuf == 0      \* the null pointer

VARIABLES
    io,                 \* the setting
    file, size, alive,  \* events begun, bytes in the file, the master is alive
    path,               \* what the application means
    opened, at, eof,    \* the file opened, bytes read, a read met the end
    pc, len,            \* where the driver is, the length in the header
    newbuf, heap,       \* driver.file.newbuf, and the buffers on the heap
    got, torn, over     \* history: events handed on, one cut short, NULL for good

disk == <<file, size, alive>>
place == <<path, opened>>
bufs == <<newbuf, heap>>
hist == <<got, torn, over>>
vars == <<io, disk, place, at, eof, pc, len, bufs, hist>>

End(e) == e.start + e.len
Total  == IF file = <<>> THEN 0 ELSE End(file[Len(file)])
Extent(e) == <<e.start, End(e)>>

\* The paths a file URL can name: relative, and without a colon, behind which
\* the parser would begin again.
Plain(p) == p # <<>> /\ p[1] # Slash /\ \A i \in DOMAIN p : p[i] # Colon
UrlOf(p) == <<102, 105, 108, 101, Colon, Slash, Slash>> \o p

Init ==
    /\ io \in Settings
    /\ file = <<>> /\ size = 0 /\ alive = TRUE
    /\ path \in Paths /\ opened = Null /\ at = 0 /\ eof = FALSE
    /\ pc = "down" /\ len = HdrLen
    /\ newbuf = NoBuf /\ heap = {}
    /\ got = <<>> /\ torn = FALSE /\ over = FALSE
-----------------------------------------------------------------------------
(* The master. *)
Begin(n) == file' = Append(file, [start |-> Total, len |-> n])

WriterAppends ==
    /\ alive /\ size = Total /\ Len(file) < MaxEvents
    /\ \E n \in Lens : /\ Begin(n)
                       /\ size' \in IF io.parts THEN Total + 1 .. Total + n ELSE {Total + n}
    /\ UNCHANGED <<io, alive, place, at, eof, pc, len, bufs, hist>>

WriterGoesOn ==
    /\ alive /\ size < Total
    /\ size' \in size + 1 .. Total
    /\ UNCHANGED <<io, file, alive, place, at, eof, pc, len, bufs, hist>>

WriterDies ==
    /\ alive /\ alive' = FALSE
    /\ \/ UNCHANGED <<file, size>>
       \/ /\ size = Total /\ Len(file) < MaxEvents
          /\ \E n \in Lens : Begin(n) /\ size' \in Total + 1 .. Total + n - 1
    /\ UNCHANGED <<io, place, at, eof, pc, len, bufs, hist>>
-----------------------------------------------------------------------------
(* The driver. *)

\* openFile: nobody looks whether fopen found the file, here that of an absolute
\* path, which parseFileUrl makes relative, and that of one with a colon, of
\* which it keeps what is three bytes behind.
OpenFile ==
    /\ pc = "down"
    /\ opened' = parseFileUrl(UrlOf(path)).path
    /\ pc' = IF opened' = path THEN "ready" ELSE "abort"
    /\ UNCHANGED <<io, disk, path, at, eof, len, bufs, hist>>

\* fread(buf, n, 1, fp)
ReadableOneLate(n) == ~(io.sticky /\ eof) /\ size - at > n
Readable(n) == ~(io.sticky /\ eof) /\ size - at >= n
TakenAnyway(n) == at + n
Taken(n) == IF Readable(n) THEN at + n ELSE IF io.sticky /\ eof THEN at ELSE size
Took(n) == /\ at' = Taken(n)
           /\ eof' = (n > 0 /\ ~Readable(n))

\* The length in a header; in what is no header there may be anything.
EventsAt(n) == {e \in {file[i] : i \in DOMAIN file} : e.start = n}
LensThere == IF EventsAt(at) = {} THEN Lens ELSE {e.len : e \in EventsAt(at)}

NewbufKept == newbuf
NoNewbuf == NoBuf
Address == IF 1 \in heap THEN 2 ELSE 1

\* getEventFromFile: the header, and the buffer its length calls for.
ReadHeader ==
    /\ pc \in {"ready", "ended"}
    /\ Took(HdrLen)
    /\ IF Readable(HdrLen)
         THEN /\ len' \in LensThere
              /\ pc' = "body"
              /\ IF len' > BufSize
                   THEN newbuf' = Address /\ heap' = heap \union {Address}
                   ELSE newbuf' = NoNewbuf /\ UNCHANGED heap
              /\ UNCHANGED over
         ELSE /\ pc' = "ended" /\ over' = (over \/ io.sticky \/ ~alive)
              /\ UNCHANGED <<len, bufs>>
    /\ UNCHANGED <<io, disk, place, got, torn>>

\* The rest of the event.  That bytes are missing goes unnoticed; in their
\* place the buffer has what was there before.
WithHeader(n) == n
BodyLen(n) == n - HdrLen
Whole == BodyLen(len) = 0 \/ Readable(BodyLen(len))

ReadBody ==
    /\ pc = "body"
    /\ Took(BodyLen(len))
    /\ IF Whole THEN got' = Append(got, <<at - HdrLen, at + BodyLen(len)>>) /\ UNCHANGED torn
                ELSE torn' = TRUE /\ UNCHANGED got
    /\ pc' = "handed"
    /\ UNCHANGED <<io, disk, place, len, bufs, over>>

FreeEvent ==
    /\ pc = "handed"
    /\ heap' = heap \ {newbuf}
    /\ pc' = "ready"
    /\ UNCHANGED <<io, disk, place, at, eof, len, newbuf, hist>>

CloseFile ==
    /\ pc \in {"ready", "ended"}
    /\ pc' = "closed"
    /\ UNCHANGED <<io, disk, place, at, eof, len, bufs, hist>>
-----------------------------------------------------------------------------
DriverStep == ReadHeader \/ ReadBody \/ FreeEvent

Next == WriterAppends \/ WriterGoesOn \/ WriterDies \/ OpenFile \/ DriverStep \/ CloseFile

Spec == Init /\ [][Next]_vars

\* The driver runs on, and its client asks for the next event.
FairSpec == Spec /\ WF_vars(DriverStep)
-----------------------------------------------------------------------------
(* Properties. *)

TypeOK ==
    /\ io \in Settings
    /\ file \in Seq([start : Nat, len : Lens])
    /\ size \in 0 .. Total
    /\ alive \in BOOLEAN
    /\ path \in Paths
    /\ at \in 0 .. size
    /\ eof \in BOOLEAN
    /\ pc \in {"down", "ready", "body", "handed", "ended", "closed", "abort"}
    /\ len \in Lens \union {HdrLen}
    /\ newbuf \in Nat
    /\ heap \subseteq Nat \ {NoBuf}
    /\ got \in Seq(Nat \X Nat)
    /\ torn \in BOOLEAN
    /\ over \in BOOLEAN

\* getEventFromFile: the events handed on are those of the file, in order, none
\* left out, while it is written and when it ends in the middle of an event;
\* at most that one is torn, and nothing follows it.  NULL is for good when the
\* library will not read on, or nobody writes.
Begun == [i \in DOMAIN file |-> Extent(file[i])]
Source == INSTANCE EventSource WITH sent <- Begun
InOrder == Source!Spec

\* getEventFromFile, freeEventFromFile: an event too long for the driver's
\* buffer has one of its own, on the heap exactly while the event is used.
BufferDiscipline ==
    IF pc \in {"body", "handed"} THEN heap = {newbuf} \ {NoBuf} ELSE heap = {}

\* fread at the end of the file: every event that is there whole is handed on,
\* unless the client closes or has met the end before.
WholeIsHanded ==
    \A n \in 1 .. MaxEvents :
        (n <= Len(file) /\ size = Total /\ pc \notin {"down", "abort"})
            ~> (n <= Len(got) \/ over \/ torn \/ pc = "closed")

\* parseFileUrl: file://path opens path, when that is relative and has no colon.
PathOpened == opened # Null /\ Plain(path) => opened = path
=============================================================================
