-------------------------- MODULE BinlogClientProofs --------------------------
(***************************************************************************)
(* What holds of BinlogClient for every set of well-formed logs and every  *)
(* bound: types, the row buffer, and who owns the row images.              *)
(***************************************************************************)
EXTENDS BinlogClient, TLAPS

\* 32-bit subtraction of two positions is a position.
LEMMA Sub32Type ==
    ASSUME NEW a \in Position, NEW b \in Position
    PROVE  Sub32(a, b) \in Position
  BY PosModAssumption DEF Sub32, Position

\* The wrap cancels out: a table map's address is its true start.
LEMMA TableMapStartIsStart ==
    ASSUME NEW l, WellFormed(l), NEW e \in DOMAIN l, IsTableMap(l[e])
    PROVE  TableMapStart(l[e]) = l[e].start
<1>1. l[e] \in Event
  BY DEF WellFormed
<1>2. l[e].nextpos \in Position /\ l[e].evlen \in Position /\ l[e].start \in Position
  BY <1>1 DEF WellFormed, HeadersOK, Event, Position
<1>3. \/ l[e].nextpos = l[e].start + l[e].evlen
      \/ l[e].nextpos + PosMod = l[e].start + l[e].evlen
  BY DEF WellFormed, HeadersOK
<1> QED
  BY <1>2, <1>3, PosModAssumption DEF TableMapStart, Sub32, Position

\* The events the master makes up are events.
LEMMA FakeFDEType ==
    ASSUME NEW f \in Files
    PROVE  FakeFDE(f) \in Event /\ FakeFDE(f).type = "FDE"
<1>1. FakeRotate(f, 0) \in Event
  BY PosModAssumption DEF FakeRotate, Event, EventTypes, RowsTypes, Position
<1> QED
  BY <1>1 DEF FakeFDE, FakeRotate, Event, EventTypes

\* After the reply to COM_BINLOG_DUMP at most a format description is left.
LEMMA AfterReplyType ==
    ASSUME NEW f, NEW p
    PROVE  AfterReply(Preamble(f, p)) \in {<<>>, <<FakeFDE(f)>>}
<1>1. CASE p > 4
  <2>1. Preamble(f, p) = <<FakeRotate(f, p), FakeFDE(f)>>
    BY <1>1 DEF Preamble
  <2> QED
    BY <2>1 DEF AfterReply
<1>2. CASE ~(p > 4)
  <2>1. Preamble(f, p) = <<FakeRotate(f, p)>>
    BY <1>2 DEF Preamble
  <2> QED
    BY <2>1 DEF AfterReply
<1> QED
  BY <1>1, <1>2
-----------------------------------------------------------------------------
(* The inductive invariant. *)

\* The only event still to come that the master made up is the format
\* description.
PendingOK == pending = <<>> \/ \E f \in Files : pending = <<FakeFDE(f)>>

\* Slot k holds row k of one event, so no two slots share an image.
SlotsInOrder == \A k \in 1 .. lenRows : slots[k][2] = k

IInv == TypeOK /\ PendingOK /\ BufferFits /\ SlotsInOrder /\ Ownership

\* What getRowsEvent reads is an event, and one of the log unless it is the
\* made-up format description.
LEMMA ArrivedType ==
    ASSUME TypeOK, PendingOK, NEW types, Receives(types)
    PROVE  /\ Arrived \in Event
           /\ Arrived.type \in types
           /\ Arrived.type # "FDE" => /\ pending = <<>> /\ rd \in DOMAIN log
                                      /\ Arrived = log[rd]
<1>1. CASE pending = <<>>
  <2>1. rd \in 1 .. Len(log)
    BY <1>1 DEF Receives, Available, TypeOK
  <2>2. log \in Seq(Event)
    BY LogsAssumption DEF TypeOK, WellFormed
  <2> QED
    BY <1>1, <2>1, <2>2 DEF Receives, Arrived
<1>2. CASE pending # <<>>
  <2>1. PICK f \in Files : pending = <<FakeFDE(f)>>
    BY <1>2 DEF PendingOK
  <2>2. Arrived = FakeFDE(f)
    BY <1>2, <2>1 DEF Arrived
  <2> QED
    BY <2>2, FakeFDEType DEF Receives
<1> QED
  BY <1>1, <1>2

\* Reading an event leaves the source in order.
LEMMA ConsumeType ==
    ASSUME TypeOK, PendingOK, Available, Consume, UNCHANGED log
    PROVE  /\ up' = up /\ rd' \in 1 .. Len(log') + 1
           /\ pending' \in Seq(Event) /\ PendingOK'
<1>1. CASE pending = <<>>
  <2>1. rd \in 1 .. Len(log) /\ Len(log) \in Nat
    BY <1>1, LogsAssumption DEF Available, TypeOK, WellFormed
  <2> QED
    BY <1>1, <2>1 DEF Consume, TypeOK, PendingOK
<1>2. CASE pending # <<>>
  <2>1. PICK f \in Files : pending = <<FakeFDE(f)>>
    BY <1>2 DEF PendingOK
  <2>2. pending' = <<>> /\ UNCHANGED <<up, rd>>
    BY <1>2, <2>1 DEF Consume
  <2> QED
    BY <2>2 DEF TypeOK, PendingOK
<1> QED
  BY <1>1, <1>2
-----------------------------------------------------------------------------
(* Types. *)

\* connectDataSource has not been called: the client starts well typed.
LEMMA InitType == Init => TypeOK /\ PendingOK
<1> SUFFICES ASSUME Init PROVE TypeOK /\ PendingOK
  OBVIOUS
<1>1. log \in Seq(Event) /\ Len(log) \in Nat
  BY LogsAssumption DEF Init, WellFormed
<1>2. PICK e \in DOMAIN log, i \in 0 .. MaxIndex :
        /\ log[e].start \in Position
        /\ saved = [file |-> log[e].file, pos |-> log[e].start, idx |-> i]
        /\ written = e
        /\ \E r \in Rows(log) \union {NoRow} : last = r /\ committed = r
  BY DEF Init
<1>3. saved \in Checkpoint /\ written \in 1 .. Len(log)
  <2>1. log[e] \in Event /\ e \in 1 .. Len(log)
    BY <1>1
  <2>2. log[e].file \in Files
    BY <2>1 DEF Event
  <2>3. i \in Nat
    BY BoundsAssumption
  <2> QED
    BY <1>2, <2>1, <2>2, <2>3 DEF Checkpoint
<1>4. \A r \in Rows(log) \union {NoRow} : r \in Nat \X Nat
  <2>1. \A d \in DOMAIN log : d \in Nat /\ log[d].nrows \in Nat
    <3> SUFFICES ASSUME NEW d \in DOMAIN log PROVE d \in Nat /\ log[d].nrows \in Nat
      OBVIOUS
    <3>1. log[d] \in Event /\ d \in Nat
      BY <1>1
    <3> QED
      BY <3>1 DEF Event
  <2>2. ASSUME NEW d \in DOMAIN log, NEW r \in {d} \X (1 .. log[d].nrows)
        PROVE  r \in Nat \X Nat
    BY <2>1
  <2> QED
    BY <2>2 DEF Rows, NoRow
<1>5. last \in Nat \X Nat /\ committed \in Nat \X Nat
  BY <1>2, <1>4
<1>6. position \in Position /\ oldpos \in Position
  BY PosModAssumption DEF Init, Position
<1>7. up \in BOOLEAN
  BY Zenon DEF Init
<1>8. /\ rd \in 1 .. Len(log) + 1 /\ pending = <<>>
      /\ index \in Nat /\ logfile = NoFile /\ hdrlen = 0
      /\ tableid \in Nat /\ startidx \in Nat /\ slots = <<>> /\ lenRows \in Nat
      /\ cur \in Nat /\ err = "none" /\ pc = "down" /\ images = {}
      /\ restarts \in Nat /\ losses \in Nat /\ log \in Logs /\ handed \in Nat
  BY <1>1 DEF Init, NoTable
<1>9. req = saved
  BY DEF Init
<1> QED
  BY <1>3, <1>5, <1>6, <1>7, <1>8, <1>9 DEF TypeOK, PendingOK, PCs

\* A client that starts: everything but the source is set afresh.
LEMMA NewClientType ==
    ASSUME TypeOK, NewClient
    PROVE  /\ req' \in Checkpoint /\ saved' \in Checkpoint
           /\ position' \in Position /\ index' \in Nat
           /\ logfile' \in Files \union {NoFile}
           /\ startidx' \in Nat /\ hdrlen' \in {0, HdrLen} /\ tableid' \in Nat
           /\ slots' \in Seq(Nat \X Nat) /\ lenRows' \in Nat /\ cur' \in Nat
           /\ oldpos' \in Position /\ images' = {}
           /\ last' \in Nat \X Nat /\ committed' \in Nat \X Nat /\ handed' \in Nat
           /\ restarts' \in Nat /\ log' \in Logs /\ written' \in 1 .. Len(log')
<1>1. 0 \in Position
  BY PosModAssumption DEF Position
<1>2. saved.pos \in Position /\ saved.file \in Files \union {NoFile} /\ saved.idx \in Nat
  BY DEF TypeOK, Checkpoint
<1>3. /\ log \in Logs /\ written \in 1 .. Len(log) /\ saved \in Checkpoint
      /\ committed \in Nat \X Nat /\ restarts \in Nat
  BY DEF TypeOK
<1>4. slots' \in Seq(Nat \X Nat)
  BY DEF NewClient
<1> QED
  BY <1>1, <1>2, <1>3, <1>4 DEF NewClient, HdrLen, NoTable, world

\* No call of the client, and nothing the master or the application does, leaves
\* the types.
LEMMA TypeStep ==
    TypeOK /\ PendingOK /\ BufferFits /\ [Next]_vars => TypeOK' /\ PendingOK'
<1> SUFFICES ASSUME TypeOK, PendingOK, BufferFits, [Next]_vars
             PROVE  TypeOK' /\ PendingOK'
  OBVIOUS
<1> USE DEF world, source, ds, parser, buffer, app, counts
<1>0. log \in Seq(Event) /\ Len(log) \in Nat
  BY LogsAssumption DEF TypeOK, WellFormed
<1>1. CASE MasterWrites
  BY <1>0, <1>1 DEF MasterWrites, TypeOK, PendingOK
<1>2. CASE ConnLost
  <2>1. up' \in BOOLEAN
    BY <1>2, Zenon DEF ConnLost
  <2> QED
    BY <1>2, <2>1 DEF ConnLost, TypeOK, PendingOK
<1>3. CASE ConnectDataSource
  <2>1. PICK e \in 1 .. written : FirstEvent(e) /\ rd' = e
    BY <1>3 DEF ConnectDataSource
  <2>2. rd' \in 1 .. Len(log') + 1
    BY <1>0, <1>3, <2>1 DEF TypeOK, ConnectDataSource, NewClient
  <2>3. saved.file \in Files
    <3>1. e \in DOMAIN log /\ log[e].file = saved.file
      BY <2>1 DEF FirstEvent, IsEventAt
    <3>2. log[e] \in Event
      BY <1>0, <3>1
    <3> QED
      BY <3>1, <3>2 DEF Event
  <2>4. pending' \in {<<>>, <<FakeFDE(saved.file)>>}
    BY <1>3, AfterReplyType DEF ConnectDataSource
  <2>5. pending' \in Seq(Event) /\ PendingOK'
    <3>1. FakeFDE(saved.file) \in Event
      BY <2>3, FakeFDEType
    <3>2. <<FakeFDE(saved.file)>> \in Seq(Event)
      BY <3>1
    <3>3. PendingOK'
      BY <2>3, <2>4 DEF PendingOK
    <3>4. <<>> \in Seq(Event)
      OBVIOUS
    <3> QED
      BY <2>4, <3>2, <3>3, <3>4
  <2>6. NewClient
    BY <1>3 DEF ConnectDataSource
  <2>7. up' = TRUE /\ pc' = "idle" /\ err' = "none" /\ losses' = losses
    BY <1>3 DEF ConnectDataSource
  <2>8. UNCHANGED losses /\ losses \in Nat
    BY <2>7 DEF TypeOK
  <2> QED
    BY <2>2, <2>5, <2>6, <2>7, <2>8, NewClientType DEF TypeOK, PCs
<1>4. CASE ConnectRefused
  <2>1. NewClient
    BY <1>4 DEF ConnectRefused
  <2>2. /\ UNCHANGED <<log, up, rd, pending>> /\ losses' \in Nat
        /\ pc' = "ended" /\ err' = "refused"
    BY <1>4 DEF ConnectRefused, NewClient, TypeOK
  <2> QED
    BY <2>1, <2>2, NewClientType DEF TypeOK, PendingOK, PCs
<1>5. CASE FetchOne
  BY <1>5 DEF FetchOne, EnterFetch, TypeOK, PendingOK, PCs
<1>6. CASE ParseFDE
  BY <1>6, ConsumeType DEF ParseFDE, Receives, TypeOK
<1>7. CASE IgnoreEvent
  BY <1>7, ConsumeType DEF IgnoreEvent, Receives, TypeOK
<1>8. CASE ParseTableMap
  <2>1. Arrived \in Event
    BY <1>8, ArrivedType DEF ParseTableMap
  <2>2. TableMapStart(Arrived) \in Position /\ Arrived.tableid \in Nat
    BY <2>1, Sub32Type DEF TableMapStart, Event
  <2> QED
    BY <1>8, <2>2, ConsumeType
       DEF ParseTableMap, Receives, IndexAtTableMap, NoTable, TypeOK
<1>9. CASE ParseRotate
  <2>1. Arrived \in Event
    BY <1>9, ArrivedType DEF ParseRotate
  <2>2. Arrived.topos \in Position /\ Arrived.tofile \in Files /\ 0 \in Position
    BY <2>1, PosModAssumption DEF Event, Position
  <2> QED
    BY <1>9, <2>2, ConsumeType DEF ParseRotate, Receives, TypeOK
<1>10. CASE ParseRows
  <2>1. Arrived \in Event
    BY <1>10, ArrivedType DEF ParseRows
  <2> DEFINE n == Arrived.nrows
  <2>2. n \in Nat /\ NewCap(n) \in Nat
    BY <2>1 DEF Event, NewCap, TypeOK
  <2>3. rd \in Nat
    BY <1>0 DEF TypeOK
  <2>4. slots' \in Seq(Nat \X Nat)
    <3> DEFINE s(k) == IF k <= n THEN <<rd, k>> ELSE slots[k]
    <3>1. \A k \in 1 .. NewCap(n) : s(k) \in Nat \X Nat
      BY <2>2, <2>3 DEF TypeOK, NewCap
    <3>2. slots' = [k \in 1 .. NewCap(n) |-> s(k)]
      BY <1>10 DEF ParseRows
    <3> HIDE DEF s
    <3>3. slots' \in [1 .. NewCap(n) -> Nat \X Nat]
      BY <3>1, <3>2
    <3> QED
      BY <2>2, <3>3
  <2>5. images' \subseteq (Nat \X Nat) \X {"row", "rowOld"}
    <3>1. \A k \in 1 .. n : ImagesOf(<<rd, k>>) \subseteq (Nat \X Nat) \X {"row", "rowOld"}
      BY <2>2, <2>3 DEF ImagesOf
    <3>2. images \subseteq (Nat \X Nat) \X {"row", "rowOld"}
      BY DEF TypeOK
    <3>3. images' = images \union UNION {ImagesOf(<<rd, k>>) : k \in 1 .. n}
      BY <1>10 DEF ParseRows
    <3> HIDE DEF n
    <3> QED
      BY <3>1, <3>2, <3>3
  <2> QED
    BY <1>10, <2>2, <2>4, <2>5, ConsumeType DEF ParseRows, Receives, TypeOK, PCs
<1>11. CASE AssertFails
  BY <1>11 DEF AssertFails, TypeOK, PendingOK, PCs
<1>12. CASE FetchFails
  BY <1>12 DEF FetchFails, Skips, SkipCounted, TypeOK, PendingOK, PCs
<1>13. CASE SkipRow
  BY <1>13 DEF SkipRow, Skips, SkipCounted, EnterFetch, TypeOK, PendingOK, PCs
<1>14. CASE DeliverRow
  <2>1. slots \in Seq(Nat \X Nat) /\ cur \in Nat /\ lenRows \in Nat
    BY DEF TypeOK
  <2>2. cur + 1 \in 1 .. Len(slots)
    <3>1. cur < lenRows /\ lenRows <= Len(slots)
      BY <1>14 DEF DeliverRow, BufferFits
    <3> QED
      BY <2>1, <3>1
  <2>3. slots[cur + 1] \in Nat \X Nat
    BY <2>1, <2>2
  <2> QED
    BY <1>14, <2>3 DEF DeliverRow, Skips, TypeOK, PendingOK, PCs
<1>15. CASE SaveCheckpoint
  BY <1>15 DEF SaveCheckpoint, TypeOK, PendingOK, Checkpoint
<1>16. CASE FreeBinlogRow
  BY <1>16 DEF FreeBinlogRow, TypeOK, PendingOK, PCs
<1>17. CASE FreeBinlogClient
  <2>1. up' \in BOOLEAN
    BY <1>17, Zenon DEF FreeBinlogClient
  <2> QED
    BY <1>17, <2>1 DEF FreeBinlogClient, TypeOK, PendingOK, PCs
<1>18. CASE Crash
  <2>1. up' \in BOOLEAN
    BY <1>18, Zenon DEF Crash
  <2> QED
    BY <1>18, <2>1 DEF Crash, TypeOK, PendingOK, PCs
<1>19. CASE UNCHANGED vars
  BY <1>19 DEF vars, TypeOK, PendingOK
<1> QED
  BY <1>1, <1>2, <1>3, <1>4, <1>5, <1>6, <1>7, <1>8, <1>9, <1>10, <1>11, <1>12, <1>13,
     <1>14, <1>15, <1>16, <1>17, <1>18, <1>19 DEF Next
-----------------------------------------------------------------------------
(* The row buffer. *)

\* A client that was not created has an empty buffer and nothing on the heap.
LEMMA InitBuffer == Init => BufferFits /\ SlotsInOrder /\ Ownership
<1> SUFFICES ASSUME Init PROVE BufferFits /\ SlotsInOrder /\ Ownership
  OBVIOUS
<1>1. slots = <<>> /\ lenRows = 0 /\ cur = 0 /\ pc = "down"
  BY DEF Init
<1> QED
  BY <1>1 DEF BufferFits, SlotsInOrder, Ownership

\* setRowsEventBuffer: a full event is stored from the first slot on, and
\* there is room for it.
LEMMA ParseRowsBuffer ==
    ASSUME TypeOK, PendingOK, BufferFits, ParseRows
    PROVE  /\ cur' = 0 /\ lenRows' > 0 /\ lenRows' <= Len(slots')
           /\ lenRows' = Arrived.nrows
           /\ \A k \in 1 .. lenRows' : slots'[k] = <<rd, k>>
<1> DEFINE n == Arrived.nrows
<1>1. Arrived \in Event /\ IsRows(Arrived) /\ rd \in DOMAIN log /\ Arrived = log[rd]
  BY ArrivedType DEF ParseRows, IsRows, RowsTypes
<1>2. n \in Nat /\ n > 0
  BY <1>1, LogsAssumption DEF TypeOK, WellFormed, GroupsOK, Event
<1>3. NewCap(n) \in Nat /\ NewCap(n) >= n
  <2>1. lenRows \in Nat /\ Len(slots) \in Nat /\ lenRows <= Len(slots)
    BY DEF TypeOK, BufferFits
  <2> QED
    BY <1>2, <2>1 DEF NewCap
<1> DEFINE s(k) == IF k <= n THEN <<rd, k>> ELSE slots[k]
<1>4. slots' = [k \in 1 .. NewCap(n) |-> s(k)] /\ lenRows' = n /\ cur' = 0
  BY DEF ParseRows
<1>5. Len(slots') = NewCap(n)
  BY <1>3, <1>4
<1>6. \A k \in 1 .. n : slots'[k] = <<rd, k>>
  BY <1>2, <1>3, <1>4
<1> QED
  BY <1>2, <1>3, <1>4, <1>5, <1>6

\* setRowsEventBuffer, fetchFromBuffer: accesses stay within the allocation, and
\* a slot holds the row of its number.
LEMMA BufferStep ==
    TypeOK /\ PendingOK /\ BufferFits /\ SlotsInOrder /\ [Next]_vars
        => BufferFits' /\ SlotsInOrder'
<1> SUFFICES ASSUME TypeOK, PendingOK, BufferFits, SlotsInOrder, [Next]_vars
             PROVE  BufferFits' /\ SlotsInOrder'
  OBVIOUS
<1> USE DEF BufferFits, SlotsInOrder
<1>1. CASE ParseRows
  <2>1. \A k \in 1 .. lenRows' : slots'[k][2] = k
    BY <1>1, ParseRowsBuffer
  <2>2. pc' = "pop"
    BY <1>1 DEF ParseRows
  <2>3. lenRows' > 0 /\ lenRows' <= Len(slots') /\ cur' = 0
    BY <1>1, ParseRowsBuffer
  <2> QED
    BY <2>1, <2>2, <2>3, TypeStep DEF TypeOK
<1>2. CASE ConnectDataSource \/ ConnectRefused
  <2>1. slots' = <<>> /\ lenRows' = 0 /\ cur' = 0 /\ pc' \in {"idle", "ended"}
    BY <1>2 DEF ConnectDataSource, ConnectRefused, NewClient
  <2> QED
    BY <2>1
<1>3. CASE FreeBinlogClient
  <2>1. slots' = <<>> /\ lenRows' = 0 /\ cur' = 0 /\ pc' = "down"
    BY <1>3 DEF FreeBinlogClient
  <2> QED
    BY <2>1
<1>4. CASE FetchOne
  BY <1>4 DEF FetchOne, EnterFetch, buffer, TypeOK
<1>5. CASE SkipRow
  BY <1>5 DEF SkipRow, EnterFetch, TypeOK
<1>6. CASE DeliverRow
  BY <1>6 DEF DeliverRow, TypeOK
<1>7. CASE FetchFails
  BY <1>7 DEF FetchFails, buffer, TypeOK
<1>8. CASE \/ MasterWrites \/ ConnLost \/ ParseFDE \/ IgnoreEvent \/ ParseTableMap
           \/ ParseRotate \/ SaveCheckpoint \/ UNCHANGED vars
  <2>1. UNCHANGED <<slots, lenRows, cur, pc>>
    BY <1>8 DEF MasterWrites, ConnLost, ParseFDE, IgnoreEvent, ParseTableMap, ParseRotate,
                SaveCheckpoint, vars, buffer
  <2> QED
    BY <2>1
<1>9. CASE AssertFails \/ FreeBinlogRow \/ Crash
  <2>1. UNCHANGED <<slots, lenRows, cur>> /\ pc' \in {"abort", "idle", "down"}
    BY <1>9 DEF AssertFails, FreeBinlogRow, Crash, buffer
  <2> QED
    BY <2>1
<1> QED
  BY <1>1, <1>2, <1>3, <1>4, <1>5, <1>6, <1>7, <1>8, <1>9 DEF Next
-----------------------------------------------------------------------------
(* Ownership of the row images. *)

\* Rows in different slots share no image.
LEMMA ImagesDisjoint ==
    ASSUME NEW r, NEW s, r[2] # s[2]
    PROVE  ImagesOf(r) \cap ImagesOf(s) = {}
  BY DEF ImagesOf

\* Taking the next row out of the buffer takes exactly its images out.
LEMMA UndeliveredSplit ==
    ASSUME TypeOK, SlotsInOrder, cur < lenRows, cur' = cur + 1,
           UNCHANGED <<log, slots, lenRows>>
    PROVE  /\ Undelivered = ImagesOf(slots[cur + 1]) \union Undelivered'
           /\ ImagesOf(slots[cur + 1]) \cap Undelivered' = {}
<1>1. \A r : ImagesOf(r)' = ImagesOf(r)
  BY DEF ImagesOf
<1>2. Undelivered' = UNION {ImagesOf(slots[k]) : k \in cur + 2 .. lenRows}
  BY <1>1 DEF Undelivered, TypeOK
<1>3. cur + 1 .. lenRows = {cur + 1} \union (cur + 2 .. lenRows)
  BY DEF TypeOK
<1>4. \A k \in cur + 2 .. lenRows : ImagesOf(slots[cur + 1]) \cap ImagesOf(slots[k]) = {}
  <2> SUFFICES ASSUME NEW k \in cur + 2 .. lenRows
               PROVE  ImagesOf(slots[cur + 1]) \cap ImagesOf(slots[k]) = {}
    OBVIOUS
  <2>1. cur \in Nat /\ lenRows \in Nat
    BY DEF TypeOK
  <2>2. cur + 1 \in 1 .. lenRows /\ k \in 1 .. lenRows /\ k # cur + 1
    BY <2>1
  <2>3. slots[cur + 1][2] = cur + 1 /\ slots[k][2] = k
    BY <2>2 DEF SlotsInOrder
  <2> QED
    BY <2>2, <2>3, ImagesDisjoint
<1> QED
  BY <1>2, <1>3, <1>4 DEF Undelivered

\* parseRowsEvent, freeBinlogRow, the skipping loop: images are allocated and
\* freed with the rows that own them.
LEMMA OwnershipStep ==
    TypeOK /\ PendingOK /\ BufferFits /\ SlotsInOrder /\ Ownership /\ [Next]_vars
        => Ownership'
<1> SUFFICES ASSUME TypeOK, PendingOK, BufferFits, SlotsInOrder, Ownership, [Next]_vars
             PROVE  Ownership'
  OBVIOUS
<1> DEFINE Open == {"idle", "get", "pop", "holding", "ended"}
<1>0. ASSUME UNCHANGED <<log, slots, lenRows, cur>>
      PROVE  /\ Undelivered' = Undelivered
             /\ ImagesOf(Held)' = ImagesOf(Held)
  BY <1>0 DEF Undelivered, ImagesOf, Held
<1>1. CASE ParseRows
  <2>1. Undelivered = {}
    BY <1>1 DEF ParseRows, Receives, BufferFits, Undelivered, TypeOK
  <2>2. images = {}
    BY <1>1, <2>1 DEF ParseRows, Receives, Ownership
  <2>3. \A r : ImagesOf(r)' = ImagesOf(r)
    BY <1>1 DEF ParseRows, world, ImagesOf
  <2>4. Undelivered' = UNION {ImagesOf(<<rd, k>>) : k \in 1 .. lenRows'}
    <3>1. cur' + 1 .. lenRows' = 1 .. lenRows'
      BY <1>1, ParseRowsBuffer
    <3>2. Undelivered' = UNION {ImagesOf(slots'[k]) : k \in 1 .. lenRows'}
      BY <2>3, <3>1 DEF Undelivered
    <3> QED
      BY <1>1, <3>2, ParseRowsBuffer
  <2>5. images' = images \union UNION {ImagesOf(<<rd, k>>) : k \in 1 .. lenRows'}
    BY <1>1 DEF ParseRows
  <2>6. pc' = "pop"
    BY <1>1 DEF ParseRows
  <2> QED
    BY <2>2, <2>4, <2>5, <2>6 DEF Ownership
<1>2. CASE ConnectDataSource \/ ConnectRefused
  <2>1. lenRows' = 0 /\ cur' = 0 /\ pc' \in {"idle", "ended"} /\ images' = {}
    BY <1>2 DEF ConnectDataSource, ConnectRefused, NewClient
  <2> QED
    BY <2>1 DEF Ownership, Undelivered
<1>3. CASE SkipRow
  <2>1. /\ images' = images \ ImagesOf(slots[cur + 1]) /\ images = Undelivered
        /\ pc' \in Open \ {"holding"}
    BY <1>3 DEF SkipRow, FreedImages, EnterFetch, Ownership
  <2>2. images' = Undelivered'
    BY <1>3, <2>1, UndeliveredSplit DEF SkipRow, BufferFits, world
  <2> QED
    BY <2>1, <2>2 DEF Ownership
<1>4. CASE DeliverRow
  <2>1. images' = images /\ images = Undelivered /\ pc' = "holding" /\ cur' = cur + 1
    BY <1>4 DEF DeliverRow, Ownership
  <2>2. UNCHANGED <<log, slots, lenRows>> /\ cur < lenRows
    BY <1>4 DEF DeliverRow, BufferFits, world
  <2>3. ImagesOf(Held)' = ImagesOf(slots[cur + 1])
    BY <2>1, <2>2 DEF Held, ImagesOf
  <2> QED
    BY <2>1, <2>2, <2>3, UndeliveredSplit DEF Ownership
<1>5. CASE FreeBinlogRow
  <2>1. /\ images' = images \ ImagesOf(Held) /\ pc' = "idle"
        /\ images = Undelivered \union ImagesOf(Held)
    BY <1>5 DEF FreeBinlogRow, FreedImages, Held, Ownership
  <2>2. Undelivered' = Undelivered
    BY <1>0, <1>5 DEF FreeBinlogRow, buffer, world
  <2>3. cur > 0 /\ cur \in 1 .. lenRows
    BY <1>5 DEF FreeBinlogRow, BufferFits, TypeOK
  <2>4. \A k \in cur + 1 .. lenRows : ImagesOf(Held) \cap ImagesOf(slots[k]) = {}
    <3> SUFFICES ASSUME NEW k \in cur + 1 .. lenRows
                 PROVE  ImagesOf(Held) \cap ImagesOf(slots[k]) = {}
      OBVIOUS
    <3>1. cur \in Nat /\ lenRows \in Nat
      BY DEF TypeOK
    <3>2. k \in 1 .. lenRows /\ k # cur
      BY <2>3, <3>1
    <3>3. Held[2] = cur /\ slots[k][2] = k
      BY <2>3, <3>2 DEF SlotsInOrder, Held
    <3> QED
      BY <3>2, <3>3, ImagesDisjoint
  <2>5. ImagesOf(Held) \cap Undelivered = {}
    BY <2>4 DEF Undelivered
  <2> QED
    BY <2>1, <2>2, <2>5 DEF Ownership
<1>6. CASE FreeBinlogClient \/ Crash \/ AssertFails
  <2>1. pc' \in {"down", "abort"}
    BY <1>6 DEF FreeBinlogClient, Crash, AssertFails
  <2> QED
    BY <2>1 DEF Ownership
<1>7. CASE \/ MasterWrites \/ ConnLost \/ ParseFDE \/ IgnoreEvent \/ ParseTableMap
           \/ ParseRotate \/ SaveCheckpoint \/ UNCHANGED vars
  <2>1. UNCHANGED <<log, slots, lenRows, cur, pc, images>>
    BY <1>7 DEF MasterWrites, ConnLost, ParseFDE, IgnoreEvent, ParseTableMap, ParseRotate,
                SaveCheckpoint, vars, buffer, world
  <2> QED
    BY <1>0, <2>1 DEF Ownership
<1>8. CASE FetchOne \/ FetchFails
  <2>1. /\ UNCHANGED <<log, slots, lenRows, cur, images>>
        /\ pc \in {"idle", "get"} /\ pc' \in {"get", "pop", "ended"}
    BY <1>8 DEF FetchOne, FetchFails, EnterFetch, buffer, world
  <2> QED
    BY <1>0, <2>1 DEF Ownership
<1> QED
  BY <1>1, <1>2, <1>3, <1>4, <1>5, <1>6, <1>7, <1>8 DEF Next
-----------------------------------------------------------------------------
(* The table of the rows in the buffer. *)

\* No table map is read while rows of the buffer are in use.
TableOfBuffer ==
    pc \in {"idle", "pop", "holding"} =>
        \A k \in 1 .. lenRows : log[slots[k][1]].tableid = tableid

\* parseTableMapEvent, parseRowsEvent: the current table changes only while no row
\* of the last one is in the buffer.
LEMMA TableStep ==
    IInv /\ TableOfBuffer /\ [Next]_vars => TableOfBuffer'
<1> SUFFICES ASSUME IInv, TableOfBuffer, [Next]_vars PROVE TableOfBuffer'
  OBVIOUS
<1>1. CASE ParseRows
  <2>1. Receives(RowsTypes) /\ TableMatches(Arrived) /\ UNCHANGED <<log, tableid>>
    BY <1>1 DEF ParseRows, world, parser
  <2>2. Arrived = log[rd]
    BY <2>1, ArrivedType DEF IInv, RowsTypes
  <2>3. \A k \in 1 .. lenRows' : slots'[k][1] = rd
    BY <1>1, ParseRowsBuffer DEF IInv
  <2> QED
    BY <2>1, <2>2, <2>3 DEF TableOfBuffer, TableMatches
<1>2. CASE \/ MasterWrites \/ ConnLost \/ FetchOne \/ SkipRow \/ DeliverRow
           \/ SaveCheckpoint \/ FreeBinlogRow \/ UNCHANGED vars
  <2>1. /\ UNCHANGED <<log, slots, lenRows, tableid>>
        /\ pc' \in {"idle", "pop", "holding"} => pc \in {"idle", "pop", "holding"}
    BY <1>2 DEF MasterWrites, ConnLost, FetchOne, SkipRow, DeliverRow, SaveCheckpoint,
                FreeBinlogRow, EnterFetch, vars, world, parser, buffer
  <2> QED
    BY <2>1 DEF TableOfBuffer
<1>3. CASE ConnectDataSource
  <2>1. lenRows' = 0
    BY <1>3 DEF ConnectDataSource, NewClient
  <2> QED
    BY <2>1 DEF TableOfBuffer
<1>4. CASE \/ ConnectRefused \/ ParseFDE \/ IgnoreEvent \/ ParseTableMap \/ ParseRotate
           \/ AssertFails \/ FetchFails \/ FreeBinlogClient \/ Crash
  <2>1. pc' \notin {"idle", "pop", "holding"}
    BY <1>4 DEF ConnectRefused, ParseFDE, IgnoreEvent, ParseTableMap, ParseRotate, Receives,
                AssertFails, FetchFails, FreeBinlogClient, Crash
  <2> QED
    BY <2>1 DEF TableOfBuffer
<1> QED
  BY <1>1, <1>2, <1>3, <1>4 DEF Next
-----------------------------------------------------------------------------
(* Theorems. *)

\* The invariant is inductive; everything below follows from it.
THEOREM Invariant == Spec => []IInv
<1>1. Init => IInv
  BY InitType, InitBuffer DEF IInv
<1>2. IInv /\ [Next]_vars => IInv'
  BY TypeStep, BufferStep, OwnershipStep DEF IInv
<1> QED
  BY <1>1, <1>2, PTL DEF Spec

\* Every variable keeps its type: in particular the position computed from a
\* table map is a 32-bit position, and _startidx never falls below zero.
THEOREM TypeCorrect == Spec => []TypeOK
<1>1. IInv => TypeOK
  BY DEF IInv
<1> QED
  BY <1>1, Invariant, PTL

\* Every access to the row buffer is inside its allocation.
THEOREM BufferSafe == Spec => []BufferFits
<1>1. IInv => BufferFits
  BY DEF IInv
<1> QED
  BY <1>1, Invariant, PTL

\* Until the client is freed no row image leaks and none is freed twice.
THEOREM OwnershipHolds == Spec => []Ownership
<1>1. IInv => Ownership
  BY DEF IInv
<1> QED
  BY <1>1, Invariant, PTL

\* The table a caller finds in the client is the table of the row it holds.
THEOREM TableRight == Spec => []TableOfRow
<1>1. Init => TableOfBuffer
  BY DEF Init, TableOfBuffer
<1>2. IInv /\ TableOfBuffer => TableOfRow
  <2> SUFFICES ASSUME IInv, TableOfBuffer, pc = "holding"
               PROVE  log[Held[1]].tableid = tableid
    BY DEF TableOfRow
  <2>1. cur \in 1 .. lenRows
    BY DEF IInv, TypeOK, BufferFits
  <2> QED
    BY <2>1 DEF TableOfBuffer, Held
<1> QED
  BY <1>1, <1>2, Invariant, TableStep, PTL DEF Spec
=============================================================================
