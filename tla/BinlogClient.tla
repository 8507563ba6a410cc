---------------------------- MODULE BinlogClient ----------------------------
(***************************************************************************)
(* The client of src/src/libbinlog.c: connectDataSource, fetchOne,         *)
(* freeBinlogRow and freeBinlogClient, with the event parsing they call,   *)
(* between a master that appends to its log, a connection that may break,  *)
(* and an application that may stop at any moment and start again from the *)
(* (logfile, position, index) it saved.                                    *)
(*                                                                         *)
(* fetchOne is cut where the world can move: waiting for an event ("get"), *)
(* taking a row from the buffer ("pop").                                   *)
(***************************************************************************)
EXTENDS BinlogLog

CONSTANTS
    Logs,           \* the logs the master may write
    Source,         \* "mysql" or "file": the driver the url names
    AppSaves,       \* the application saves checkpoints (bldump does not)
    ValidStartOnly, \* the application only asks for starts that exist
    MaxIndex,       \* bound: the largest index asked for at first
    MaxStart,       \* bound: the largest position asked for at first
    MaxRestarts,    \* bound: crashes, and closes before the end
    MaxLosses       \* bound: connections lost or refused

ASSUME LogsAssumption    == \A l \in Logs : WellFormed(l)
ASSUME SourceAssumption  == Source \in {"mysql", "file"}
ASSUME SwitchAssumption  == AppSaves \in BOOLEAN /\ ValidStartOnly \in BOOLEAN
ASSUME BoundsAssumption  == MaxIndex \in Nat /\ MaxStart \in Nat
                            /\ MaxRestarts \in Nat /\ MaxLosses \in Nat

VARIABLES
    log, written,           \* the master's log and how much of it exists
    up, rd, pending,        \* the source: connection, next event, events made up
    req,                    \* the start this session asked for
    position, index, logfile,   \* DataSource, public
    hdrlen, tableid,        \* Binlog: header length, current table
    startidx, slots, lenRows, cur,  \* BinlogClient, private: the row buffer
    oldpos,                 \* local of fetchOne
    err,                    \* BinlogClient.err, by cause
    pc,                     \* where the session is
    images,                 \* row images on the heap
    saved,                  \* the checkpoint the application keeps on disk
    last, committed,        \* history: last row handed over, last row saved
    handed,                 \* history: how many rows this session handed over
    restarts, losses        \* counters of the bounds

world  == <<log, written>>
source == <<up, rd, pending>>
ds     == <<position, index, logfile>>
parser == <<hdrlen, tableid>>
buffer == <<slots, lenRows, cur>>
app    == <<saved, last, committed, handed>>
counts == <<restarts, losses>>
vars   == <<world, source, req, ds, parser, startidx, buffer, oldpos, err, pc,
            images, app, counts>>

HdrLen  == 19       \* the header length a format description event sets
NoTable == 0

PCs == {"down", "idle", "get", "pop", "holding", "ended", "abort"}
-----------------------------------------------------------------------------
(* uint32_t arithmetic. *)
Sub32NoWrap(a, b) == a - b
Sub32(a, b) == IF a >= b THEN a - b ELSE a + PosMod - b

-----------------------------------------------------------------------------
(* The event the source delivers next.  The master announces the file with *)
(* a rotate event, and the header length with a format description event   *)
(* when the start lies behind the one of the file.                         *)
Preamble(f, p) == IF p > 4 THEN <<FakeRotate(f, p), FakeFDE(f)>> ELSE <<FakeRotate(f, p)>>

\* msendcmd reads one reply to COM_BINLOG_DUMP: the first event, whose
\* leading byte 0 looks like an OK packet.
ReplyNotRead(events) == events
AfterReply(events) == Tail(events)

Available ==
    \/ pending # <<>>
    \/ rd <= written /\ (Source = "file" => log[rd].file = req.file)

Arrived == IF pending # <<>> THEN Head(pending) ELSE log[rd]
Consume == IF pending # <<>> THEN pending' = Tail(pending) /\ UNCHANGED <<up, rd>>
                             ELSE rd' = rd + 1 /\ UNCHANGED <<up, pending>>

\* getRowsEvent is at dsGetEvent, and it returns an event of these types.
Receives(types) == pc = "get" /\ up /\ Available /\ Arrived.type \in types
-----------------------------------------------------------------------------
(* Where rows live.  Every row has one image on the heap, an update two. *)
RowOnly(r) == {<<r, "row">>}
ImagesOf(r) == {<<r, "row">>} \union
               IF log[r[1]].type = "UPDATE_ROWS" THEN {<<r, "rowOld">>} ELSE {}
\* What freeBinlogRow frees of a row.
FreedImages(r) == ImagesOf(r)

\* The capacity of _rows after setRowsEventBuffer: it grows when the last
\* event was shorter, whatever room there already is.
GrowOnlyWhenEmpty(n) == IF slots = <<>> THEN n ELSE Len(slots)
NewCap(n) == IF lenRows < n THEN n ELSE Len(slots)

\* The address of the table map event, from its header.
EndOfTableMap(ev) == ev.nextpos
TableMapStart(ev) == Sub32(ev.nextpos, ev.evlen)

IndexKept == index
IndexAtTableMap == 0

AnyTable(ev) == hdrlen = HdrLen
TableMatches(ev) == hdrlen = HdrLen /\ ev.tableid = tableid

\* fetchOne, after a row it skipped: the table map it started at is behind.
NeverImpossible == FALSE
PassedTableMap == oldpos # position

\* while(bc->_startidx): whether a row is skipped or returned.
SkipsAllButOne(n) == n > 1
Skips(n) == n > 0

SkipNotCounted == startidx
SkipCounted == startidx - 1

\* _fetchOne: read an event only when the buffer is used up.
EnterFetchEarly(c, n) == IF c + 1 >= n THEN "get" ELSE "pop"
EnterFetch(c, n) == IF c = n THEN "get" ELSE "pop"
-----------------------------------------------------------------------------
TypeOK ==
    /\ log \in Logs
    /\ written \in 1 .. Len(log)
    /\ up \in BOOLEAN
    /\ rd \in 1 .. Len(log) + 1
    /\ pending \in Seq(Event)
    /\ req \in Checkpoint
    /\ position \in Position
    /\ index \in Nat
    /\ logfile \in Files \union {NoFile}
    /\ hdrlen \in {0, HdrLen}
    /\ tableid \in Nat
    /\ startidx \in Nat
    /\ slots \in Seq(Nat \X Nat)
    /\ lenRows \in Nat
    /\ cur \in Nat
    /\ oldpos \in Position
    /\ err \in {"none", "lost", "impossible", "refused"}
    /\ pc \in PCs
    /\ images \subseteq (Nat \X Nat) \X {"row", "rowOld"}
    /\ saved \in Checkpoint
    /\ last \in Nat \X Nat
    /\ committed \in Nat \X Nat
    /\ handed \in Nat
    /\ restarts \in Nat /\ losses \in Nat

Init ==
    /\ log \in Logs
    /\ \E e \in DOMAIN log, i \in 0 .. MaxIndex :
         /\ log[e].start \in Position /\ log[e].start \in 4 .. MaxStart
         /\ saved = [file |-> log[e].file, pos |-> log[e].start, idx |-> i]
         /\ ValidStartOnly => ValidStart(log, saved)
         /\ written = e
         /\ \E r \in Rows(log) \union {NoRow} :
              Denotes(log, saved, r) /\ last = r /\ committed = r
    /\ req = saved
    /\ up = FALSE /\ rd = 1 /\ pending = <<>>
    /\ position = 4 /\ index = 0 /\ logfile = NoFile
    /\ hdrlen = 0 /\ tableid = NoTable
    /\ startidx = 0 /\ slots = <<>> /\ lenRows = 0 /\ cur = 0
    /\ oldpos = 0 /\ err = "none" /\ pc = "down"
    /\ images = {}
    /\ handed = 0
    /\ restarts = 0 /\ losses = 0
-----------------------------------------------------------------------------
(* The master and the connection. *)
MasterWrites ==
    /\ written < Len(log)
    /\ written' = written + 1
    /\ UNCHANGED <<log, source, req, ds, parser, startidx, buffer, oldpos, err, pc,
                   images, app, counts>>

ConnLost ==
    /\ Source = "mysql" /\ up /\ losses < MaxLosses
    /\ up' = FALSE
    /\ losses' = losses + 1
    /\ UNCHANGED <<world, rd, pending, req, ds, parser, startidx, buffer, oldpos, err,
                   pc, images, app, restarts>>
-----------------------------------------------------------------------------
(* connectDataSource: a new process, or a new client after the old one was *)
(* freed.  memset clears the client; the file driver opens the file and    *)
(* reads its magic number, whatever the position.                          *)
NewClient ==
    /\ pc = "down"
    /\ req' = saved
    /\ position' = saved.pos /\ index' = 0 /\ logfile' = saved.file
    /\ startidx' = saved.idx
    /\ hdrlen' = 0 /\ tableid' = NoTable
    /\ slots' = <<>> /\ lenRows' = 0 /\ cur' = 0 /\ oldpos' = 0
    /\ images' = {}
    /\ last' = committed /\ handed' = 0
    /\ UNCHANGED <<world, saved, committed, restarts>>

FirstEvent(e) ==
    IF Source = "mysql" THEN IsEventAt(log, e, saved.file, saved.pos)
                        ELSE IsEventAt(log, e, saved.file, 4)

ConnectDataSource ==
    /\ NewClient
    /\ \E e \in 1 .. written : FirstEvent(e) /\ rd' = e
    /\ pending' = IF Source = "mysql"
                  THEN AfterReply(Preamble(saved.file, saved.pos)) ELSE <<>>
    /\ up' = TRUE /\ pc' = "idle" /\ err' = "none"
    /\ UNCHANGED losses

\* dsConnect fails: the client is returned with err set and no source.
ConnectRefused ==
    /\ Source = "mysql" /\ losses < MaxLosses
    /\ NewClient
    /\ losses' = losses + 1
    /\ pc' = "ended" /\ err' = "refused"
    /\ UNCHANGED source
-----------------------------------------------------------------------------
(* fetchOne. *)
FetchOne ==
    /\ pc = "idle"
    /\ oldpos' = position
    /\ pc' = EnterFetch(cur, lenRows)
    /\ UNCHANGED <<world, source, req, ds, parser, startidx, buffer, err, images, app, counts>>

ParseFDE ==
    /\ Receives({"FDE"})
    /\ Consume
    /\ hdrlen' = HdrLen
    /\ UNCHANGED <<world, req, ds, tableid, startidx, buffer, oldpos, err, pc,
                   images, app, counts>>

IgnoreEvent ==
    /\ Receives({"QUERY"})
    /\ Consume
    /\ UNCHANGED <<world, req, ds, parser, startidx, buffer, oldpos, err, pc,
                   images, app, counts>>

ParseTableMap ==
    /\ Receives({"TABLE_MAP"})
    /\ Consume
    /\ tableid' = IF hdrlen = HdrLen THEN Arrived.tableid ELSE NoTable
    /\ position' = TableMapStart(Arrived)
    /\ index' = IndexAtTableMap
    /\ UNCHANGED <<world, req, logfile, hdrlen, startidx, buffer, oldpos, err, pc,
                   images, app, counts>>

\* Without a header length the name and the position are read off the header.
ParseRotate ==
    /\ Receives({"ROTATE"})
    /\ Consume
    /\ position' = IF hdrlen = HdrLen THEN Arrived.topos ELSE 0
    /\ logfile'  = IF hdrlen = HdrLen THEN Arrived.tofile ELSE NoFile
    /\ UNCHANGED <<world, req, index, parser, startidx, buffer, oldpos, err, pc,
                   images, app, counts>>

\* parseRowsEvent, then setRowsEventBuffer: the slots behind the new rows
\* keep the pointers of earlier events.
ParseRows ==
    /\ Receives(RowsTypes)
    /\ TableMatches(Arrived)
    /\ Consume
    /\ LET n == Arrived.nrows IN
         /\ slots' = [k \in 1 .. NewCap(n) |->
                        IF k <= n THEN <<rd, k>> ELSE slots[k]]
         /\ lenRows' = n
         /\ images' = images \union UNION {ImagesOf(<<rd, k>>) : k \in 1 .. n}
    /\ cur' = 0
    /\ pc' = "pop"
    /\ UNCHANGED <<world, req, ds, parser, startidx, oldpos, err, app, counts>>

\* assert(rev->tableid == bl->table.tableid)
AssertFails ==
    /\ Receives(RowsTypes)
    /\ ~TableMatches(Arrived)
    /\ pc' = "abort"
    /\ UNCHANGED <<world, source, req, ds, parser, startidx, buffer, oldpos, err,
                   images, app, counts>>

\* dsGetEvent returns NULL: the connection is gone, or the file has no more.
\* err is set for good; fetchOne still counts down the rows it skips.
FetchFails ==
    /\ pc = "get"
    /\ IF Source = "mysql" THEN ~up ELSE ~Available
    /\ index' = 0
    /\ IF Skips(startidx)
         THEN /\ startidx' = SkipCounted
              /\ IF PassedTableMap
                   THEN pc' = "ended" /\ err' = "impossible" /\ UNCHANGED oldpos
                   ELSE pc' = "get" /\ err' = "lost" /\ oldpos' = position
         ELSE pc' = "ended" /\ err' = "lost" /\ UNCHANGED <<startidx, oldpos>>
    /\ UNCHANGED <<world, source, req, position, logfile, parser, buffer, images,
                   app, counts>>

\* One round of the loop that skips startidx rows.
SkipRow ==
    /\ pc = "pop" /\ Skips(startidx)
    /\ index' = index + 1
    /\ cur' = cur + 1
    /\ startidx' = SkipCounted
    /\ images' = images \ FreedImages(slots[cur + 1])
    /\ IF PassedTableMap
         THEN pc' = "ended" /\ err' = "impossible" /\ UNCHANGED oldpos
         ELSE pc' = EnterFetch(cur + 1, lenRows) /\ oldpos' = position /\ UNCHANGED err
    /\ UNCHANGED <<world, source, req, position, logfile, parser, slots, lenRows,
                   app, counts>>

DeliverRow ==
    /\ pc = "pop" /\ ~Skips(startidx)
    /\ index' = index + 1
    /\ cur' = cur + 1
    /\ last' = slots[cur + 1] /\ handed' = handed + 1
    /\ pc' = "holding"
    /\ UNCHANGED <<world, source, req, position, logfile, parser, startidx, slots,
                   lenRows, oldpos, err, images, saved, committed, counts>>
-----------------------------------------------------------------------------
(* The application. *)
SaveCheckpoint ==
    /\ pc = "holding" /\ AppSaves
    /\ saved' = [file |-> logfile, pos |-> position, idx |-> index]
    /\ committed' = last
    /\ UNCHANGED <<world, source, req, ds, parser, startidx, buffer, oldpos, err, pc,
                   images, last, handed, counts>>

FreeBinlogRow ==
    /\ pc = "holding"
    /\ images' = images \ FreedImages(slots[cur])
    /\ pc' = "idle"
    /\ UNCHANGED <<world, source, req, ds, parser, startidx, buffer, oldpos, err,
                   app, counts>>

\* dsClose and free(_rows): the rows of the buffer not yet delivered are not
\* freed, they stay until the process ends.
FreeBinlogClient ==
    /\ \/ pc = "ended" /\ UNCHANGED restarts
       \/ pc = "idle" /\ restarts < MaxRestarts /\ restarts' = restarts + 1
    /\ up' = FALSE
    /\ slots' = <<>> /\ lenRows' = 0 /\ cur' = 0
    /\ pc' = "down"
    /\ UNCHANGED <<world, rd, pending, req, ds, parser, startidx, oldpos, err, images,
                   app, losses>>

Crash ==
    /\ pc # "down" /\ restarts < MaxRestarts
    /\ restarts' = restarts + 1
    /\ up' = FALSE
    /\ pc' = "down"
    /\ UNCHANGED <<world, rd, pending, req, ds, parser, startidx, buffer, oldpos, err,
                   images, app, losses>>
-----------------------------------------------------------------------------
LibraryStep == \/ ParseFDE \/ IgnoreEvent \/ ParseTableMap \/ ParseRotate \/ ParseRows
               \/ AssertFails \/ FetchFails \/ SkipRow \/ DeliverRow
AppStep == \/ ConnectDataSource \/ FetchOne \/ FreeBinlogRow
           \/ (pc = "ended" /\ FreeBinlogClient)

Next == \/ MasterWrites \/ ConnLost
        \/ ConnectDataSource \/ ConnectRefused \/ FetchOne
        \/ ParseFDE \/ IgnoreEvent \/ ParseTableMap \/ ParseRotate \/ ParseRows
        \/ AssertFails \/ FetchFails \/ SkipRow \/ DeliverRow
        \/ SaveCheckpoint \/ FreeBinlogRow \/ FreeBinlogClient \/ Crash

Spec == Init /\ [][Next]_vars

\* The library's code runs on, the master writes on, and the application
\* calls fetchOne, frees the row, and after a NULL closes and connects again.
FairSpec == Spec /\ WF_vars(MasterWrites) /\ WF_vars(LibraryStep) /\ WF_vars(AppStep)
-----------------------------------------------------------------------------
(* Properties. *)

\* What the public members of the client say: where it has got to.
Here == [file |-> logfile, pos |-> position, idx |-> index]

\* The row fetchOne returned is the slot before cur.
Held == slots[cur]

\* setRowsEventBuffer and fetchFromBuffer: every slot up to _lenRows lies in
\* the allocation, however the sizes of successive events rise and fall, and
\* fetchFromBuffer is entered only with a row left.
BufferFits ==
    /\ cur <= lenRows /\ lenRows <= Len(slots)
    /\ pc = "get" => cur = lenRows
    /\ pc = "pop" => cur < lenRows
    /\ pc = "holding" => cur > 0

\* freeBinlogRow and the loop that skips rows: while a client is open, the
\* row images on the heap are those of the rows still in the buffer and of
\* the row the application holds; none leaks, none is freed twice.
Undelivered == UNION {ImagesOf(slots[k]) : k \in cur + 1 .. lenRows}
Ownership ==
    pc \in {"idle", "get", "pop", "holding", "ended"} =>
        images = Undelivered \union (IF pc = "holding" THEN ImagesOf(Held) ELSE {})

\* The Python binding labels each row with binlog.table: it is the table of the
\* row, even for rows taken from the buffer long after their event was read.
TableOfRow == pc = "holding" => log[Held[1]].tableid = tableid

\* fetchOne: while a row is held, (logfile, position, index) stands for the
\* rows up to that row and no other, across files, groups and the wrap of
\* 32-bit positions.
CheckpointRight == pc = "holding" => Denotes(log, Here, last)

\* connectDataSource and fetchOne: with restarts from saved checkpoints, lost
\* connections and crashes, the rows delivered are those RowStream allows, each
\* return of fetchOne counted: the row the checkpoint names is skipped and not
\* handed over again.
Stream == INSTANCE RowStream
ExactlyOnce == Stream!Spec

\* fetchOne, "if someone specify an index which is invalid, we should know":
\* a session whose start does not exist never delivers a row.
ImpossibleIndexReported == ~ValidStart(log, req) => pc # "holding"

\* getRowsEvent and the loop that skips rows: once the connection is gone,
\* fetchOne comes back, however many rows it still had to skip.
LossEndsFetch == (pc = "get" /\ ~up) ~> pc \in {"ended", "down"}

\* fetchOne and connectDataSource: as long as the application comes back after
\* each NULL, every row of the log is delivered in the end.
AllDelivered == []<>(\A r \in Rows(log) : ~RowLess(last, r))

\* parseRowsEvent's assertion: every rows event belongs to the table map read
\* last.
NoAbort == pc # "abort"
=============================================================================
