----------------------------- MODULE ResumeProofs -----------------------------
(***************************************************************************)
(* The checkpoint of BinlogClient stands for the rows delivered, and the   *)
(* client implements RowStream, for every set of well-formed logs and both *)
(* sources: the first start is one that exists, for a file its beginning.  *)
(***************************************************************************)
EXTENDS BinlogClientProofs

\* The rows up to r, and the rows read from the source and no longer in the
\* buffer.
UpTo(l, r) == {q \in Rows(l) : ~RowLess(r, q)}
ConsumedAt(c) == {q \in Rows(log) : q[1] < rd /\ \A k \in c + 1 .. lenRows : slots[k] # q}
Consumed == ConsumedAt(cur)

\* The session may still deliver: it does not wait on a broken connection.
Live == pc \in {"idle", "pop", "holding"} \/ (pc = "get" /\ up)

\* The start of the session is event s.
StartsAt(s) == s \in DOMAIN log /\ s <= rd /\ IsEventAt(log, s, req.file, req.pos)

\* The index of the start exists: what ValidStart says of event s.
IndexExists(s) ==
    \/ req.idx = 0 /\ ~IsRows(log[s])
    \/ /\ IsTableMap(log[s])
       /\ \E q \in Rows(log) : InGroup(log, q[1], s) /\ log[q[1]].base + q[2] = req.idx

\* No table map, no rows event, no rotation was read since event a.
NoneSince(types, a) == \A d \in a .. rd - 1 : log[d].type \notin types

\* The header length is known by the time it is needed.
HeaderInv(s) ==
    /\ pending # <<>> => rd = s
    /\ \/ hdrlen = HdrLen
       \/ pending # <<>>
       \/ rd = s /\ log[s].type = "FDE"

\* logfile is the file of the event to come.
FileInv == rd \in DOMAIN log => logfile = log[rd].file

\* The buffer holds the rows of the last rows event read, and that event is
\* the last one read while rows are in use.
BufferOf(s, e) ==
    /\ e \in s .. rd - 1
    /\ IsRows(log[e]) /\ NoneSince(RowsTypes, e + 1)
    /\ lenRows = log[e].nrows
    /\ \A k \in 1 .. lenRows : slots[k] = <<e, k>>
    /\ pc # "get" => e = rd - 1
BufferInv(s) ==
    \/ lenRows = 0 /\ NoneSince(RowsTypes, s)
    \/ lenRows > 0 /\ \E e \in DOMAIN log : BufferOf(s, e)

\* index counts the rows taken since the table map in force, t.
CountedFrom(t) ==
    \/ NoneSince(RowsTypes, t) /\ index = 0
    \/ \E e \in t .. rd - 1 : /\ IsRows(log[e]) /\ NoneSince(RowsTypes, e + 1)
                              /\ index = log[e].base + cur
InForce(t) ==
    /\ t \in 1 .. rd - 1
    /\ IsTableMap(log[t]) /\ NoneSince({"TABLE_MAP"}, t + 1)
    /\ NoneSince({"ROTATE"}, t + 1) => position = log[t].start /\ logfile = log[t].file
    /\ CountedFrom(t)
TableInv(s) ==
    \/ tableid = NoTable /\ lenRows = 0 /\ index = 0 /\ NoneSince({"TABLE_MAP"}, s)
    \/ tableid # NoTable /\ \E t \in s .. rd - 1 : InForce(t)

\* While rows are skipped, the table map in force is the one of the start.
SkipInv(s) ==
    /\ startidx = 0 => UpTo(log, last) = Consumed
    /\ startidx > 0 => /\ UpTo(log, last) = SkippedFrom(log, s, req.idx)
                       /\ index + startidx = req.idx
                       /\ NoneSince({"TABLE_MAP"}, s + 1)
    /\ pc = "holding" => startidx = 0

\* What is known of a session that began at event s, whether or not the index
\* it asked for exists; and of one whose index does.
Tracked(s) == StartsAt(s) /\ HeaderInv(s) /\ FileInv /\ BufferInv(s) /\ TableInv(s)
SessionOf(s) == Tracked(s) /\ IndexExists(s) /\ SkipInv(s)
Session == Live => \E s \in DOMAIN log : SessionOf(s)

SavedInv == Denotes(log, saved, committed) /\ ValidStart(log, saved)

\* openFile reads from the first event whatever start it is given, so a file
\* is only asked for from there: nothing is saved on the way, or skipped.
FileFromStart == Source = "file" => ~AppSaves /\ MaxStart = 4
StartHonoured == Source = "file" => saved.pos = 4 /\ saved.idx = 0 /\ startidx = 0

RInv == Session /\ SavedInv /\ StartHonoured
-----------------------------------------------------------------------------
(* The log. *)

\* What every log gives: files in order, groups behind their table maps, types.
LEMMA LogFacts ==
    ASSUME TypeOK
    PROVE  /\ log \in Seq(Event) /\ Len(log) \in Nat /\ DOMAIN log = 1 .. Len(log)
           /\ HeadersOK(log) /\ GroupsOK(log) /\ FilesOK(log)
           /\ \A e \in DOMAIN log : /\ log[e].type \in EventTypes /\ log[e].nrows \in Nat
                                    /\ log[e].base \in Nat /\ log[e].file \in Files
                                    /\ log[e].tableid \in Nat \ {0} /\ log[e].start \in Nat
<1>1. log \in Seq(Event) /\ HeadersOK(log) /\ GroupsOK(log) /\ FilesOK(log)
  BY LogsAssumption DEF TypeOK, WellFormed
<1>2. Len(log) \in Nat /\ DOMAIN log = 1 .. Len(log)
  BY <1>1
<1>3. ASSUME NEW e \in DOMAIN log
      PROVE  /\ log[e].type \in EventTypes /\ log[e].nrows \in Nat
             /\ log[e].base \in Nat /\ log[e].file \in Files
             /\ log[e].tableid \in Nat \ {0} /\ log[e].start \in Nat
  <2>1. log[e] \in Event
    BY <1>1
  <2> QED
    BY <2>1 DEF Event
<1> QED
  BY <1>1, <1>2, <1>3

\* The client's counters and its place in the log are natural numbers.
LEMMA Numbers ==
    ASSUME TypeOK
    PROVE  /\ rd \in Nat /\ index \in Nat /\ startidx \in Nat
           /\ cur \in Nat /\ lenRows \in Nat
           /\ DOMAIN log \subseteq Nat
<1>1. rd \in 1 .. Len(log) + 1 /\ index \in Nat /\ startidx \in Nat
      /\ cur \in Nat /\ lenRows \in Nat
  BY Zenon DEF TypeOK
<1>2. DOMAIN log = 1 .. Len(log) /\ Len(log) \in Nat
  BY LogFacts
<1> QED
  BY <1>1, <1>2

\* A row is the i-th of a rows event.
LEMMA RowsAre ==
    ASSUME NEW l, NEW q
    PROVE  q \in Rows(l) <=> \E e \in DOMAIN l : \E i \in 1 .. l[e].nrows :
                                IsRows(l[e]) /\ q = <<e, i>>
  BY DEF Rows

\* The rows up to the c-th of event e are those a start at its table map with
\* index base + c leaves out: the arithmetic of a checkpoint.
LEMMA PrefixIsSkipped ==
    ASSUME TypeOK, NEW e \in DOMAIN log, NEW t \in DOMAIN log, IsRows(log[e]),
           InGroup(log, e, t), NEW c \in 0 .. log[e].nrows
    PROVE  {q \in Rows(log) : q[1] < e \/ (q[1] = e /\ q[2] <= c)}
             = SkippedFrom(log, t, log[e].base + c)
<1> DEFINE Before(q) == q[1] < e \/ (q[1] = e /\ q[2] <= c)
           Skipped(q) == \/ q[1] < t
                         \/ InGroup(log, q[1], t) /\ log[q[1]].base + q[2] <= log[e].base + c
<1>0. log[e].base \in Nat /\ log[e].nrows \in Nat /\ c \in Nat /\ e \in Nat /\ t \in Nat
  BY LogFacts
<1> SUFFICES ASSUME NEW q \in Rows(log) PROVE Before(q) <=> Skipped(q)
  BY DEF SkippedFrom
<1>1. PICK d \in DOMAIN log : \E i \in 1 .. log[d].nrows : IsRows(log[d]) /\ q = <<d, i>>
  BY RowsAre
<1>11. PICK i \in 1 .. log[d].nrows : IsRows(log[d]) /\ q = <<d, i>>
  BY <1>1
<1>2. q[1] = d /\ q[2] = i /\ d \in Nat /\ i \in Nat /\ log[d].base \in Nat /\ log[d].nrows \in Nat
      /\ i <= log[d].nrows /\ i >= 1
  BY <1>11, LogFacts
<1>3. t < e /\ IsTableMap(log[t]) /\ \A m \in DOMAIN log : t < m /\ m < e => ~IsTableMap(log[m])
  BY DEF InGroup
<1>4. d # t
  BY <1>11, <1>3 DEF IsRows, RowsTypes, IsTableMap
<1>5. CASE d < e
  <2>1. CASE d < t
    BY <1>2, <1>5, <2>1
  <2>2. CASE ~(d < t)
    <3>1. t < d
      BY <1>0, <1>2, <1>4, <2>2
    <3>2. InGroup(log, d, t)
      BY <1>2, <1>0, <1>3, <1>5, <3>1, LogFacts DEF InGroup
    <3>3. d \in {x \in t + 1 .. e - 1 : IsRows(log[x])}
      BY <1>0, <1>11, <1>2, <1>5, <3>1
    <3>4. log[d].base + log[d].nrows <= log[e].base
      BY <3>3, LogFacts DEF GroupsOK
    <3> QED
      BY <1>0, <1>2, <1>5, <3>2, <3>4
  <2> QED
    BY <2>1, <2>2
<1>6. CASE d = e
  BY <1>0, <1>2, <1>3, <1>6
<1>7. CASE d > e
  <2>1. ~Before(q)
    BY <1>0, <1>2, <1>7
  <2>2. ~(d < t)
    BY <1>0, <1>2, <1>3, <1>7
  <2>3. ASSUME InGroup(log, d, t) PROVE log[d].base + i > log[e].base + c
    <3>1. e \in {x \in t + 1 .. d - 1 : IsRows(log[x])}
      BY <1>0, <1>2, <1>3, <1>7
    <3>2. log[e].base + log[e].nrows <= log[d].base
      BY <1>11, <2>3, <3>1, LogFacts DEF GroupsOK
    <3> QED
      BY <1>0, <1>2, <3>2
  <2> QED
    BY <1>0, <1>2, <2>1, <2>2, <2>3
<1> QED
  BY <1>0, <1>2, <1>5, <1>6, <1>7

\* A place in a file names one event.
LEMMA EventAtUnique ==
    ASSUME TypeOK, NEW f, NEW p, NEW d, NEW e,
           IsEventAt(log, d, f, p), IsEventAt(log, e, f, p)
    PROVE  d = e
  BY LogFacts DEF IsEventAt, FilesOK
-----------------------------------------------------------------------------
(* The checkpoint. *)

\* With the last event in the buffer and c of its rows taken, the rows
\* consumed end at its row c.
LEMMA ConsumedInBuffer ==
    ASSUME TypeOK, NEW e \in DOMAIN log, NEW s, BufferOf(s, e), e = rd - 1,
           NEW c \in 0 .. lenRows
    PROVE  ConsumedAt(c) = {q \in Rows(log) : q[1] < e \/ (q[1] = e /\ q[2] <= c)}
<1>0. rd \in Nat /\ c \in Nat /\ lenRows \in Nat /\ c <= lenRows
  BY LogFacts DEF TypeOK
<1>1. lenRows = log[e].nrows /\ \A k \in 1 .. lenRows : slots[k] = <<e, k>>
  BY DEF BufferOf
<1> SUFFICES ASSUME NEW q \in Rows(log)
             PROVE  (q[1] < rd /\ \A k \in c + 1 .. lenRows : slots[k] # q)
                      <=> (q[1] < e \/ (q[1] = e /\ q[2] <= c))
  BY DEF ConsumedAt
<1>2. PICK d \in DOMAIN log : \E i \in 1 .. log[d].nrows : q = <<d, i>>
  BY RowsAre
<1>3. PICK i \in 1 .. log[d].nrows : q = <<d, i>>
  BY <1>2
<1>4. q[1] = d /\ q[2] = i /\ d \in Nat /\ e \in Nat /\ i \in Nat /\ i >= 1 /\ i <= log[d].nrows
  BY <1>3, LogFacts
<1>5. \A k \in c + 1 .. lenRows : slots[k] = <<e, k>>
  BY <1>0, <1>1
<1>6. (\A k \in c + 1 .. lenRows : slots[k] # q) <=> ~(d = e /\ i \in c + 1 .. lenRows)
  BY <1>3, <1>5
<1> QED
  BY <1>0, <1>1, <1>4, <1>6

\* With an empty buffer, every row read is consumed.
LEMMA ConsumedAll ==
    ASSUME cur = lenRows, lenRows \in Nat
    PROVE  Consumed = {q \in Rows(log) : q[1] < rd}
  BY DEF Consumed, ConsumedAt

\* A rows event read after the table map in force belongs to it.
LEMMA InForceGroup ==
    ASSUME TypeOK, NEW t, InForce(t), NEW e \in DOMAIN log, t <= e, e <= rd, IsRows(log[e])
    PROVE  t \in DOMAIN log /\ t < e /\ InGroup(log, e, t)
<1>0. t \in Nat /\ e \in Nat /\ rd \in Nat /\ t \in DOMAIN log /\ IsTableMap(log[t])
  BY LogFacts, Numbers DEF InForce
<1>1. t # e
  BY <1>0 DEF IsRows, RowsTypes, IsTableMap
<1>2. \A m \in DOMAIN log : t < m /\ m < e => ~IsTableMap(log[m])
  <2> SUFFICES ASSUME NEW m \in DOMAIN log, t < m, m < e PROVE ~IsTableMap(log[m])
    OBVIOUS
  <2>1. m \in t + 1 .. rd - 1
    BY <1>0, LogFacts
  <2> QED
    BY <2>1 DEF InForce, NoneSince, IsTableMap
<1> QED
  BY <1>0, <1>1, <1>2 DEF InGroup

\* In the middle of an event, position and index name its table map and the
\* row cur; c rows of it make a checkpoint.
LEMMA CheckpointOfBuffer ==
    ASSUME TypeOK, BufferFits, NEW s \in DOMAIN log, Tracked(s), Live, pc # "get", lenRows > 0
    PROVE  \E t \in DOMAIN log : \E e \in DOMAIN log :
              /\ t >= s /\ InForce(t) /\ InGroup(log, e, t) /\ IsRows(log[e])
              /\ BufferOf(s, e) /\ e = rd - 1
              /\ lenRows = log[e].nrows /\ index = log[e].base + cur
              /\ IsEventAt(log, t, logfile, position)
              /\ \A c \in 0 .. lenRows : ConsumedAt(c) = SkippedFrom(log, t, log[e].base + c)
<1>0. rd \in Nat /\ s \in Nat /\ cur \in Nat /\ lenRows \in Nat /\ cur <= lenRows
  BY Numbers DEF BufferFits
<1>1. PICK e \in DOMAIN log : BufferOf(s, e)
  BY <1>0 DEF Tracked, BufferInv
<1>2. e = rd - 1 /\ IsRows(log[e]) /\ lenRows = log[e].nrows /\ e \in Nat
  BY <1>1, LogFacts DEF BufferOf
<1>3. PICK t \in s .. rd - 1 : InForce(t)
  BY <1>0 DEF Tracked, TableInv
<1>4. t \in DOMAIN log /\ t < e /\ InGroup(log, e, t) /\ t \in Nat
  BY <1>0, <1>2, <1>3, InForceGroup
<1>5. index = log[e].base + cur
  <2>1. ~NoneSince(RowsTypes, t)
    BY <1>0, <1>2, <1>4 DEF NoneSince, IsRows
  <2>2. PICK d \in t .. rd - 1 : /\ IsRows(log[d]) /\ NoneSince(RowsTypes, d + 1)
                                 /\ index = log[d].base + cur
    BY <1>3, <2>1 DEF InForce, CountedFrom
  <2>3. d = e
    BY <1>0, <1>2, <2>2 DEF NoneSince, IsRows
  <2> QED
    BY <2>2, <2>3
<1>6. NoneSince({"ROTATE"}, t + 1)
  <2>1. \A d \in t + 1 .. e - 1 : log[d].type # "ROTATE"
    BY <1>2, <1>4, LogFacts DEF GroupsOK
  <2>2. log[e].type # "ROTATE"
    BY <1>2 DEF IsRows, RowsTypes
  <2> QED
    BY <1>0, <1>2, <1>4, <2>1, <2>2 DEF NoneSince
<1>7. position = log[t].start /\ logfile = log[t].file /\ IsTableMap(log[t])
  BY <1>3, <1>6 DEF InForce
<1>8. log[t].start >= 4
  BY <1>4, <1>7, LogFacts DEF HeadersOK
<1>9. IsEventAt(log, t, logfile, position)
  BY <1>4, <1>7, <1>8 DEF IsEventAt
<1>10. \A c \in 0 .. lenRows : ConsumedAt(c) = SkippedFrom(log, t, log[e].base + c)
  <2> SUFFICES ASSUME NEW c \in 0 .. lenRows
               PROVE  ConsumedAt(c) = SkippedFrom(log, t, log[e].base + c)
    OBVIOUS
  <2>1. ConsumedAt(c) = {q \in Rows(log) : q[1] < e \/ (q[1] = e /\ q[2] <= c)}
    BY <1>1, <1>2, ConsumedInBuffer
  <2> QED
    BY <1>2, <1>4, <2>1, PrefixIsSkipped
<1> QED
  BY <1>0, <1>1, <1>2, <1>3, <1>4, <1>5, <1>9, <1>10

\* A row in hand: the public checkpoint stands for the rows delivered, and is
\* a start that exists.
LEMMA HereIsRight ==
    ASSUME TypeOK, BufferFits, Session, pc = "holding"
    PROVE  Denotes(log, Here, last) /\ ValidStart(log, Here)
<1>1. PICK s \in DOMAIN log : SessionOf(s)
  BY DEF Session, Live
<1>2. cur > 0 /\ lenRows > 0 /\ cur \in Nat /\ lenRows \in Nat /\ cur <= lenRows
  BY DEF BufferFits, TypeOK
<1>3. PICK t \in DOMAIN log : \E e \in DOMAIN log :
              /\ InGroup(log, e, t) /\ IsRows(log[e])
              /\ lenRows = log[e].nrows /\ index = log[e].base + cur
              /\ IsEventAt(log, t, logfile, position)
              /\ Consumed = SkippedFrom(log, t, index)
  BY <1>1, <1>2, CheckpointOfBuffer DEF Live, Consumed, SessionOf
<1>4. PICK e \in DOMAIN log :
              /\ InGroup(log, e, t) /\ IsRows(log[e])
              /\ lenRows = log[e].nrows /\ index = log[e].base + cur
  BY <1>3
<1>5. UpTo(log, last) = Consumed
  BY <1>1 DEF SessionOf, SkipInv
<1>6. Denotes(log, Here, last)
  BY <1>3, <1>5 DEF Denotes, Here, UpTo
<1>7. <<e, cur>> \in Rows(log)
  BY <1>2, <1>4, RowsAre
<1>8. ValidStart(log, Here)
  <2>1. /\ <<e, cur>>[1] = e /\ <<e, cur>>[2] = cur
    OBVIOUS
  <2> QED
    BY <1>3, <1>4, <1>7, <2>1 DEF ValidStart, Here
<1> QED
  BY <1>6, <1>8
-----------------------------------------------------------------------------
(* A session begins. *)

\* Whatever index is asked for, the source begins at the event asked for.
LEMMA TrackedConnect ==
    ASSUME Source = "file" => saved.pos = 4, TypeOK, ConnectDataSource
    PROVE  \E e \in DOMAIN log :
              /\ Tracked(e)' /\ rd' = e /\ IsEventAt(log, e, saved.file, saved.pos)
              /\ \A types : NoneSince(types, e)' /\ NoneSince(types, e + 1)'
<1>1. PICK e \in 1 .. written : IsEventAt(log, e, saved.file, saved.pos) /\ rd' = e
  BY SourceAssumption DEF ConnectDataSource, FirstEvent
<1>2. /\ UNCHANGED log /\ req' = saved /\ last' = committed /\ startidx' = saved.idx
      /\ lenRows' = 0 /\ cur' = 0 /\ index' = 0 /\ tableid' = NoTable
      /\ logfile' = saved.file /\ pc' = "idle" /\ saved.idx \in Nat
  BY DEF ConnectDataSource, NewClient, world, TypeOK, Checkpoint
<1>3. e \in DOMAIN log /\ log[e].file = saved.file /\ log[e].start = saved.pos /\ e \in Nat
      /\ saved.pos >= 4 /\ saved.pos \in Nat
  BY <1>1, LogFacts DEF IsEventAt, TypeOK, Checkpoint, Position
<1>4. StartsAt(e)'
  BY <1>1, <1>2, <1>3 DEF StartsAt
<1>5. HeaderInv(e)'
  <2>1. Source = "mysql" => pending' = AfterReply(Preamble(saved.file, saved.pos))
    BY DEF ConnectDataSource
  <2>2. CASE saved.pos > 4
    <3>0. Source = "mysql"
      BY <2>2, SourceAssumption
    <3>1. Preamble(saved.file, saved.pos)
            = <<FakeRotate(saved.file, saved.pos), FakeFDE(saved.file)>>
      BY <2>2 DEF Preamble
    <3>2. pending' = <<FakeFDE(saved.file)>>
      BY <2>1, <3>0, <3>1 DEF AfterReply
    <3> QED
      BY <1>1, <3>2 DEF HeaderInv
  <2>3. CASE ~(saved.pos > 4)
    <3>1. log[e].start = 4
      BY <1>3, <2>3
    <3>2. log[e].type = "FDE"
      BY <1>3, <3>1, LogFacts DEF FilesOK
    <3> QED
      BY <1>1, <1>2, <3>2 DEF HeaderInv
  <2> QED
    BY <2>2, <2>3
<1>6. FileInv'
  BY <1>1, <1>2, <1>3 DEF FileInv
<1>7. \A types : NoneSince(types, e)' /\ NoneSince(types, e + 1)'
  BY <1>1, <1>3 DEF NoneSince
<1>8. BufferInv(e)' /\ TableInv(e)'
  BY <1>2, <1>7 DEF BufferInv, TableInv
<1> QED
  BY <1>1, <1>3, <1>4, <1>5, <1>6, <1>7, <1>8 DEF Tracked

\* connectDataSource, sendDumpCommand: a new session starts at the event its
\* checkpoint names, with the rows behind it to be skipped.
LEMMA SessionConnect ==
    ASSUME StartHonoured, TypeOK, SavedInv, ConnectDataSource
    PROVE  Session'
<1>1. PICK e \in DOMAIN log :
              /\ Tracked(e)' /\ rd' = e /\ IsEventAt(log, e, saved.file, saved.pos)
              /\ \A types : NoneSince(types, e)' /\ NoneSince(types, e + 1)'
  BY TrackedConnect DEF StartHonoured
<1>2. /\ UNCHANGED log /\ req' = saved /\ last' = committed /\ startidx' = saved.idx
      /\ lenRows' = 0 /\ cur' = 0 /\ index' = 0 /\ pc' = "idle" /\ saved.idx \in Nat
  BY DEF ConnectDataSource, NewClient, world, TypeOK, Checkpoint
<1>3. e \in Nat
  BY LogFacts
<1>4. \/ saved.idx = 0 /\ ~IsRows(log[e])
      \/ /\ IsTableMap(log[e])
         /\ \E q \in Rows(log) : InGroup(log, q[1], e) /\ log[q[1]].base + q[2] = saved.idx
  <2>1. PICK d \in DOMAIN log :
          /\ IsEventAt(log, d, saved.file, saved.pos)
          /\ \/ saved.idx = 0 /\ ~IsRows(log[d])
             \/ \E q \in Rows(log) : InGroup(log, q[1], d) /\ log[q[1]].base + q[2] = saved.idx
    BY DEF SavedInv, ValidStart
  <2>2. d = e
    BY <1>1, <2>1, EventAtUnique
  <2> QED
    BY <2>1, <2>2 DEF InGroup
<1>5. SkippedFrom(log, e, saved.idx) = UpTo(log, committed)
  <2>1. PICK d \in DOMAIN log : /\ IsEventAt(log, d, saved.file, saved.pos)
                                /\ SkippedFrom(log, d, saved.idx) = UpTo(log, committed)
    BY DEF SavedInv, Denotes, UpTo
  <2> QED
    BY <1>1, <2>1, EventAtUnique
<1>6. SkipInv(e)'
  <2>1. UpTo(log, last)' = SkippedFrom(log, e, saved.idx)
    BY <1>2, <1>5 DEF UpTo
  <2>2. saved.idx = 0 => SkippedFrom(log, e, saved.idx) = {q \in Rows(log) : q[1] < e}
    <3>1. \A q \in Rows(log) : ~(log[q[1]].base + q[2] <= 0)
      <4> SUFFICES ASSUME NEW q \in Rows(log) PROVE ~(log[q[1]].base + q[2] <= 0)
        OBVIOUS
      <4>1. PICK d \in DOMAIN log : \E i \in 1 .. log[d].nrows : q = <<d, i>>
        BY RowsAre
      <4>2. q[1] = d /\ q[2] \in Nat /\ q[2] > 0 /\ log[d].base \in Nat
        BY <4>1, LogFacts
      <4> QED
        BY <4>2
    <3> QED
      BY <3>1 DEF SkippedFrom
  <2>3. Consumed' = {q \in Rows(log) : q[1] < e}
    BY <1>1, <1>2, <1>3 DEF Consumed, ConsumedAt
  <2> QED
    BY <1>1, <1>2, <2>1, <2>2, <2>3 DEF SkipInv
<1>7. IndexExists(e)'
  BY <1>2, <1>4 DEF IndexExists
<1> QED
  BY <1>1, <1>2, <1>6, <1>7 DEF Session, SessionOf

\* Steps that move neither the source nor the buffer keep the session.
LEMMA SessionFrame ==
    ASSUME NEW s, Tracked(s), HeaderInv(s)',
           UNCHANGED <<log, rd, req, position, index, logfile, tableid, startidx,
                       slots, lenRows, cur, last>>,
           pc' # "get" => pc # "get"
    PROVE  /\ Tracked(s)'
           /\ SessionOf(s) /\ (pc' = "holding" => pc = "holding") => SessionOf(s)'
<1>1. \A types, a : NoneSince(types, a)' = NoneSince(types, a)
  BY DEF NoneSince
<1>2. StartsAt(s)' /\ FileInv'
  BY DEF Tracked, StartsAt, FileInv
<1>3. \A e : BufferOf(s, e) => BufferOf(s, e)'
  BY <1>1 DEF BufferOf
<1>4. BufferInv(s)'
  BY <1>1, <1>3 DEF Tracked, BufferInv
<1>5. \A t : CountedFrom(t)' = CountedFrom(t)
  BY <1>1 DEF CountedFrom
<1>6. \A t : InForce(t)' = InForce(t)
  BY <1>1, <1>5 DEF InForce
<1>7. TableInv(s)'
  BY <1>1, <1>6 DEF Tracked, TableInv
<1>8. Consumed' = Consumed /\ UpTo(log, last)' = UpTo(log, last)
  BY DEF Consumed, ConsumedAt, UpTo
<1>9. SkippedFrom(log, s, req.idx)' = SkippedFrom(log, s, req.idx)
  OBVIOUS
<1>10. SkipInv(s) /\ (pc' = "holding" => pc = "holding") => SkipInv(s)'
  BY <1>1, <1>8, <1>9 DEF SkipInv
<1>11. IndexExists(s)' = IndexExists(s)
  BY DEF IndexExists
<1>12. Tracked(s)'
  BY <1>2, <1>4, <1>7 DEF Tracked
<1> QED
  BY <1>10, <1>11, <1>12 DEF SessionOf
-----------------------------------------------------------------------------
(* An event is read from the log. *)

\* One event further, there is none of some types since event a if there was none
\* before and the one just read has another type.
LEMMA NoneSinceStep ==
    ASSUME TypeOK, NEW types, NEW a \in Nat, rd' = rd + 1, UNCHANGED log, rd \in DOMAIN log
    PROVE  NoneSince(types, a)'
             <=> NoneSince(types, a) /\ (a <= rd => log[rd].type \notin types)
<1>1. rd \in Nat
  BY DEF TypeOK
<1>2. a .. rd = (a .. rd - 1) \union (IF a <= rd THEN {rd} ELSE {})
  BY <1>1
<1> QED
  BY <1>1, <1>2 DEF NoneSince

\* What holds while an event from the log is parsed.
Reading(s) ==
    /\ TypeOK /\ BufferFits /\ Tracked(s) /\ s \in DOMAIN log
    /\ pc = "get" /\ pending = <<>> /\ rd \in DOMAIN log
    /\ rd' = rd + 1 /\ pending' = <<>> /\ UNCHANGED <<log, req, last, startidx>>

\* Only the format description of the file comes without a header length.
LEMMA HeaderKnown ==
    ASSUME NEW s, Tracked(s), pending = <<>>, log[rd].type # "FDE"
    PROVE  hdrlen = HdrLen
  BY DEF Tracked, HeaderInv

\* The buffer is empty while an event is awaited, so index is the base of the
\* rows to come.
LEMMA IndexAtEnd ==
    ASSUME TypeOK, BufferFits, NEW s \in DOMAIN log, Tracked(s), pc = "get",
           NEW t \in s .. rd - 1, CountedFrom(t)
    PROVE  \/ NoneSince(RowsTypes, t) /\ index = 0
           \/ \E e \in t .. rd - 1 : /\ IsRows(log[e]) /\ NoneSince(RowsTypes, e + 1)
                                     /\ index = log[e].base + log[e].nrows
<1>0. rd \in Nat /\ s \in Nat /\ cur = lenRows /\ t \in Nat
  BY Numbers DEF BufferFits
<1> SUFFICES ASSUME NEW e \in t .. rd - 1, IsRows(log[e]), NoneSince(RowsTypes, e + 1),
                    index = log[e].base + cur
             PROVE  lenRows = log[e].nrows
  BY <1>0 DEF CountedFrom
<1>1. ~NoneSince(RowsTypes, s)
  BY <1>0 DEF NoneSince, IsRows
<1>2. PICK d \in DOMAIN log : BufferOf(s, d)
  BY <1>1 DEF Tracked, BufferInv
<1>3. d = e
  BY <1>0, <1>2 DEF BufferOf, NoneSince, IsRows
<1> QED
  BY <1>2, <1>3 DEF BufferOf

\* Reading an event without rows keeps the buffer, the start and the rows
\* consumed.
LEMMA ReadKeeps ==
    ASSUME NEW s, Reading(s), ~IsRows(log[rd]), UNCHANGED <<slots, lenRows, cur, pc>>,
           hdrlen' = HdrLen
    PROVE  StartsAt(s)' /\ HeaderInv(s)' /\ BufferInv(s)' /\ Consumed' = Consumed
<1>0. rd \in Nat /\ s \in Nat /\ cur = lenRows /\ lenRows \in Nat /\ UNCHANGED log
  BY Numbers DEF Reading, BufferFits
<1>1. StartsAt(s)'
  BY <1>0 DEF Reading, Tracked, StartsAt
<1>2. HeaderInv(s)'
  BY DEF Reading, HeaderInv
<1>3. \A a \in Nat : NoneSince(RowsTypes, a) => NoneSince(RowsTypes, a)'
  BY <1>0, NoneSinceStep DEF Reading, IsRows
<1>4. ASSUME NEW e \in DOMAIN log, BufferOf(s, e) PROVE BufferOf(s, e)'
  <2>1. e \in Nat /\ e \in s .. rd' - 1
    BY <1>0, <1>4 DEF BufferOf, Reading
  <2>2. NoneSince(RowsTypes, e + 1)'
    BY <1>3, <1>4, <2>1 DEF BufferOf
  <2>3. pc' = "get"
    BY DEF Reading
  <2> QED
    BY <1>0, <1>4, <2>1, <2>2, <2>3 DEF BufferOf
<1>5. BufferInv(s)'
  <2>1. CASE lenRows = 0 /\ NoneSince(RowsTypes, s)
    BY <1>0, <1>3, <2>1 DEF BufferInv
  <2>2. CASE lenRows > 0 /\ \E e \in DOMAIN log : BufferOf(s, e)
    BY <1>0, <1>4, <2>2 DEF BufferInv
  <2> QED
    BY <2>1, <2>2 DEF Reading, Tracked, BufferInv
<1>6. Consumed' = Consumed
  <2>1. cur' = lenRows' /\ lenRows' \in Nat
    BY <1>0
  <2>2. Consumed' = {q \in Rows(log) : q[1] < rd + 1}
    BY <1>0, <2>1 DEF Consumed, ConsumedAt, Reading
  <2>3. \A q \in Rows(log) : q[1] < rd + 1 <=> q[1] < rd
    <3> SUFFICES ASSUME NEW q \in Rows(log) PROVE q[1] < rd + 1 <=> q[1] < rd
      OBVIOUS
    <3>1. PICK d \in DOMAIN log : \E i \in 1 .. log[d].nrows : IsRows(log[d]) /\ q = <<d, i>>
      BY RowsAre
    <3>2. q[1] = d /\ IsRows(log[d]) /\ d \in Nat
      BY <3>1, LogFacts DEF Reading
    <3>3. d # rd
      BY <3>2
    <3> QED
      BY <1>0, <3>2, <3>3
  <2> QED
    BY <1>0, <2>2, <2>3, ConsumedAll
<1> QED
  BY <1>1, <1>2, <1>5, <1>6

\* A table map in force stays in force.
LEMMA InForceKept ==
    ASSUME NEW s, Reading(s), ~IsRows(log[rd]), ~IsTableMap(log[rd]),
           UNCHANGED <<index, cur>>,
           log[rd].type # "ROTATE" => UNCHANGED <<position, logfile>>,
           NEW t \in s .. rd - 1, InForce(t)
    PROVE  InForce(t)'
<1>0. rd \in Nat /\ s \in Nat /\ t \in Nat /\ UNCHANGED log
  BY Numbers DEF Reading
<1>1. t \in 1 .. rd' - 1 /\ IsTableMap(log[t])'
  BY <1>0 DEF InForce, Reading
<1>2. NoneSince({"TABLE_MAP"}, t + 1)'
  BY <1>0, NoneSinceStep DEF Reading, InForce, IsTableMap
<1>3. (NoneSince({"ROTATE"}, t + 1) => position = log[t].start /\ logfile = log[t].file)'
  <2>1. NoneSince({"ROTATE"}, t + 1)' => NoneSince({"ROTATE"}, t + 1) /\ log[rd].type # "ROTATE"
    BY <1>0, NoneSinceStep DEF Reading
  <2> QED
    BY <1>0, <2>1 DEF InForce
<1>4. \A a \in Nat : NoneSince(RowsTypes, a) => NoneSince(RowsTypes, a)'
  BY <1>0, NoneSinceStep DEF Reading, IsRows
<1>5. CountedFrom(t)'
  <2>1. CASE NoneSince(RowsTypes, t) /\ index = 0
    BY <1>0, <1>4, <2>1 DEF CountedFrom
  <2>2. CASE \E e \in t .. rd - 1 : /\ IsRows(log[e]) /\ NoneSince(RowsTypes, e + 1)
                                    /\ index = log[e].base + cur
    <3>1. PICK e \in t .. rd - 1 : /\ IsRows(log[e]) /\ NoneSince(RowsTypes, e + 1)
                                   /\ index = log[e].base + cur
      BY <2>2
    <3>2. e \in t .. rd' - 1 /\ NoneSince(RowsTypes, e + 1)'
      BY <1>0, <1>4, <3>1 DEF Reading
    <3> QED
      BY <1>0, <3>1, <3>2 DEF CountedFrom
  <2> QED
    BY <2>1, <2>2 DEF InForce, CountedFrom
<1> QED
  BY <1>1, <1>2, <1>3, <1>5 DEF InForce

\* Rotations lead logfile from file to file.
LEMMA FileStep ==
    ASSUME NEW s, Reading(s),
           logfile' = IF log[rd].type = "ROTATE" THEN log[rd].tofile ELSE logfile
    PROVE  FileInv'
<1> SUFFICES ASSUME rd + 1 \in DOMAIN log PROVE logfile' = log[rd + 1].file
  BY DEF FileInv, Reading
<1>1. rd \in 1 .. Len(log) - 1
  BY LogFacts, Numbers DEF Reading
<1>2. log[rd + 1].file = IF log[rd].type = "ROTATE" THEN log[rd].tofile ELSE log[rd].file
  BY <1>1, LogFacts DEF Reading, FilesOK
<1> QED
  BY <1>2 DEF Reading, Tracked, FileInv

\* An event that is neither a table map nor a rows event: a format
\* description, a rotation, or one the client ignores.
LEMMA PlainRead ==
    ASSUME NEW s, Reading(s), ~IsRows(log[rd]), ~IsTableMap(log[rd]),
           UNCHANGED <<slots, lenRows, cur, pc, index, tableid>>, hdrlen' = HdrLen,
           logfile' = IF log[rd].type = "ROTATE" THEN log[rd].tofile ELSE logfile,
           log[rd].type # "ROTATE" => UNCHANGED position
    PROVE  Tracked(s)' /\ (SessionOf(s) => SessionOf(s)')
<1>0. rd \in Nat /\ s \in Nat /\ UNCHANGED log
  BY Numbers DEF Reading
<1>1. StartsAt(s)' /\ HeaderInv(s)' /\ BufferInv(s)' /\ Consumed' = Consumed
  BY ReadKeeps
<1>2. FileInv'
  BY FileStep
<1>3. \A a \in Nat : NoneSince({"TABLE_MAP"}, a) => NoneSince({"TABLE_MAP"}, a)'
  BY <1>0, NoneSinceStep DEF Reading, IsTableMap
<1>4. TableInv(s)'
  <2>1. CASE tableid = NoTable /\ lenRows = 0 /\ index = 0 /\ NoneSince({"TABLE_MAP"}, s)
    BY <1>0, <1>3, <2>1 DEF TableInv
  <2>2. CASE tableid # NoTable /\ \E t \in s .. rd - 1 : InForce(t)
    <3>1. PICK t \in s .. rd - 1 : InForce(t)
      BY <2>2
    <3>2. InForce(t)'
      BY <3>1, InForceKept
    <3>3. t \in s .. rd' - 1 /\ tableid' # NoTable
      BY <1>0, <2>2 DEF Reading
    <3> QED
      BY <3>2, <3>3 DEF TableInv
  <2> QED
    BY <2>1, <2>2 DEF Reading, Tracked, TableInv
<1>5. SessionOf(s) => SkipInv(s)' /\ IndexExists(s)'
  <2>1. UpTo(log, last)' = UpTo(log, last)
        /\ SkippedFrom(log, s, req.idx)' = SkippedFrom(log, s, req.idx)
    BY DEF Reading, UpTo
  <2>2. s + 1 \in Nat /\ startidx' = startidx /\ req' = req /\ pc' = "get"
    BY <1>0 DEF Reading
  <2> QED
    BY <1>1, <1>3, <2>1, <2>2 DEF Reading, SessionOf, SkipInv, IndexExists
<1>6. Tracked(s)'
  BY <1>1, <1>2, <1>4 DEF Tracked
<1> QED
  BY <1>5, <1>6 DEF SessionOf

\* While rows are to be skipped there is none left of the group only if there
\* is none to skip: no second table map is read.
LEMMA SkipBeforeTableMap ==
    ASSUME NEW s, Reading(s), SessionOf(s), IsTableMap(log[rd]), startidx > 0
    PROVE  rd = s
<1>0. rd \in Nat /\ s \in Nat /\ s <= rd /\ startidx \in Nat /\ index \in Nat
      /\ index + startidx = req.idx /\ NoneSince({"TABLE_MAP"}, s + 1)
  BY Numbers DEF Reading, SessionOf, Tracked, StartsAt, SkipInv
<1> SUFFICES ASSUME s < rd PROVE FALSE
  BY <1>0
<1>1. PICK q \in Rows(log) : /\ IsTableMap(log[s])
                             /\ InGroup(log, q[1], s) /\ log[q[1]].base + q[2] = req.idx
  BY <1>0 DEF SessionOf, IndexExists
<1>2. PICK d \in DOMAIN log : \E i \in 1 .. log[d].nrows : IsRows(log[d]) /\ q = <<d, i>>
  BY RowsAre
<1>3. PICK i \in 1 .. log[d].nrows : IsRows(log[d]) /\ q = <<d, i>>
  BY <1>2
<1>4. /\ d \in Nat /\ i \in Nat /\ i <= log[d].nrows /\ log[d].nrows \in Nat
      /\ log[d].base \in Nat
      /\ InGroup(log, d, s) /\ log[d].base + i = req.idx /\ s < d
  BY <1>1, <1>3, LogFacts DEF Reading, InGroup
<1>5. d < rd
  <2>1. d # rd
    BY <1>3 DEF Reading, IsRows, RowsTypes, IsTableMap
  <2>2. ~(rd < d)
    BY <1>4 DEF InGroup, Reading
  <2> QED
    BY <1>0, <1>4, <2>1, <2>2
<1>6. InForce(s)
  <2>1. ~NoneSince({"TABLE_MAP"}, s)
    BY <1>0, <1>1 DEF NoneSince, IsTableMap
  <2>2. PICK t \in s .. rd - 1 : InForce(t)
    BY <2>1 DEF Reading, Tracked, TableInv
  <2>3. t = s
    BY <1>0, <2>2 DEF InForce, NoneSince, IsTableMap
  <2> QED
    BY <2>2, <2>3
<1>7. PICK e \in s .. rd - 1 : /\ IsRows(log[e]) /\ NoneSince(RowsTypes, e + 1)
                               /\ index = log[e].base + log[e].nrows
  <2>1. ~NoneSince(RowsTypes, s)
    BY <1>0, <1>3, <1>4, <1>5 DEF NoneSince, IsRows
  <2>2. s \in s .. rd - 1 /\ CountedFrom(s)
    BY <1>0, <1>6 DEF InForce
  <2> QED
    BY <2>1, <2>2, IndexAtEnd DEF Reading
<1>8. d <= e
  <2> SUFFICES ASSUME ~(d <= e) PROVE FALSE
    OBVIOUS
  <2>1. d \in e + 1 .. rd - 1
    <3>1. d \in Nat /\ e \in Nat /\ rd \in Nat
      BY <1>0, <1>4, <1>7
    <3> QED
      BY <1>5, <3>1
  <2>2. log[d].type \notin RowsTypes
    BY <1>7, <2>1 DEF NoneSince
  <2> QED
    BY <1>3, <2>2 DEF IsRows
<1>9. e \in DOMAIN log /\ e \in Nat /\ log[e].base \in Nat /\ log[e].nrows \in Nat
  <2>1. DOMAIN log = 1 .. Len(log) /\ Len(log) \in Nat /\ rd \in DOMAIN log /\ s \in DOMAIN log
    BY LogFacts DEF Reading
  <2>2. e \in DOMAIN log /\ e \in Nat
    BY <1>0, <1>7, <2>1
  <2> QED
    BY <2>2, LogFacts DEF Reading
<1>10. log[d].base + log[d].nrows <= log[e].base + log[e].nrows
  <2>1. CASE d = e
    BY <1>9, <2>1
  <2>2. CASE d < e
    <3>1. InGroup(log, e, s)
      BY <1>0, <1>6, <1>7, <1>9, InForceGroup DEF Reading
    <3>2. d \in {x \in s + 1 .. e - 1 : IsRows(log[x])}
      BY <1>0, <1>3, <1>4, <1>9, <2>2
    <3>3. log[d].base + log[d].nrows <= log[e].base
      BY <1>7, <1>9, <3>1, <3>2, LogFacts DEF GroupsOK, Reading
    <3> QED
      BY <1>4, <1>9, <3>3
  <2> QED
    BY <1>4, <1>8, <1>9, <2>1, <2>2
<1> QED
  BY <1>0, <1>4, <1>7, <1>9, <1>10

\* A table map comes into force, with nothing counted since.
LEMMA TableMapRead ==
    ASSUME NEW s, Reading(s), IsTableMap(log[rd]), hdrlen' = HdrLen,
           UNCHANGED <<slots, lenRows, cur, pc, logfile>>,
           tableid' = log[rd].tableid, position' = log[rd].start, index' = 0
    PROVE  Tracked(s)' /\ (SessionOf(s) => SessionOf(s)')
<1>0. rd \in Nat /\ s \in Nat /\ s <= rd /\ UNCHANGED log /\ ~IsRows(log[rd])
  BY Numbers DEF Reading, Tracked, StartsAt, IsTableMap, IsRows, RowsTypes
<1>1. StartsAt(s)' /\ HeaderInv(s)' /\ BufferInv(s)' /\ Consumed' = Consumed
  BY <1>0, ReadKeeps
<1>2. FileInv'
  BY FileStep DEF IsTableMap
<1> PICK e \in DOMAIN log : e = rd
  BY DEF Reading
<1>3. \A types : NoneSince(types, e + 1)'
  BY <1>0 DEF NoneSince, Reading
<1>4. InForce(e)'
  <2>1. position' = log[e].start /\ logfile' = log[e].file
    BY DEF Reading, Tracked, FileInv
  <2>2. NoneSince(RowsTypes, e)'
    BY <1>0 DEF NoneSince, Reading, IsRows
  <2>3. e \in 1 .. rd' - 1
    BY <1>0, LogFacts DEF Reading
  <2> QED
    BY <1>0, <1>3, <2>1, <2>2, <2>3 DEF InForce, CountedFrom
<1>5. TableInv(s)'
  <2>1. tableid' # NoTable /\ e \in s .. rd' - 1
    BY <1>0, LogFacts DEF Reading, NoTable
  <2> QED
    BY <1>4, <2>1 DEF TableInv
<1>6. ASSUME SessionOf(s)
      PROVE  SkipInv(s)' /\ IndexExists(s)'
  <2>0. IndexExists(s)'
    BY <1>6 DEF SessionOf, IndexExists, Reading
  <2>1. UpTo(log, last)' = UpTo(log, last)
        /\ SkippedFrom(log, s, req.idx)' = SkippedFrom(log, s, req.idx)
    BY DEF Reading, UpTo
  <2>2. CASE startidx > 0
    <3>1. rd = s /\ e = s
      BY <1>6, <2>2, SkipBeforeTableMap
    <3>2. index = 0
      BY <1>0, <3>1 DEF Reading, Tracked, TableInv
    <3>3. NoneSince({"TABLE_MAP"}, s + 1)'
      BY <1>3, <3>1
    <3> QED
      BY <1>6, <2>0, <2>1, <2>2, <3>2, <3>3 DEF Reading, SessionOf, SkipInv
  <2>3. CASE ~(startidx > 0)
    BY <1>1, <1>6, <2>0, <2>1, <2>3 DEF Reading, SessionOf, SkipInv
  <2> QED
    BY <2>2, <2>3
<1>7. Tracked(s)'
  BY <1>1, <1>2, <1>5 DEF Tracked
<1> QED
  BY <1>6, <1>7 DEF SessionOf
-----------------------------------------------------------------------------
(* Rows enter and leave the buffer. *)

\* The rows event read next begins where index stands.
LEMMA BaseIsIndex ==
    ASSUME NEW s, Reading(s), IsRows(log[rd]), tableid # NoTable
    PROVE  \E t \in s .. rd - 1 : InForce(t) /\ log[rd].base = index
<1>0. rd \in Nat /\ s \in Nat /\ s <= rd
  BY Numbers DEF Reading, Tracked, StartsAt
<1>1. PICK t \in s .. rd - 1 : InForce(t)
  BY DEF Reading, Tracked, TableInv
<1>2. t \in DOMAIN log /\ t \in Nat /\ t < rd /\ InGroup(log, rd, t)
  BY <1>0, <1>1, InForceGroup DEF Reading
<1> DEFINE Earlier == {d \in t + 1 .. rd - 1 : IsRows(log[d])}
<1>3. /\ Earlier = {} => log[rd].base = 0
      /\ \A d \in Earlier : (\A c \in Earlier : c <= d)
                              => log[d].base + log[d].nrows = log[rd].base
  BY <1>2, LogFacts DEF Reading, GroupsOK
<1>4. ~IsRows(log[t])
  BY <1>1 DEF InForce, IsTableMap, IsRows, RowsTypes
<1>5. CASE NoneSince(RowsTypes, t) /\ index = 0
  <2>1. Earlier = {}
    BY <1>0, <1>2, <1>5 DEF NoneSince, IsRows
  <2> QED
    BY <1>1, <1>3, <1>5, <2>1
<1>6. CASE \E e \in t .. rd - 1 : /\ IsRows(log[e]) /\ NoneSince(RowsTypes, e + 1)
                                  /\ index = log[e].base + log[e].nrows
  <2>1. PICK e \in t .. rd - 1 : /\ IsRows(log[e]) /\ NoneSince(RowsTypes, e + 1)
                                 /\ index = log[e].base + log[e].nrows
    BY <1>6
  <2>2. e \in Earlier
    BY <1>0, <1>2, <1>4, <2>1
  <2>3. \A c \in Earlier : c <= e
    BY <1>0, <1>2, <2>1 DEF NoneSince, IsRows
  <2> QED
    BY <1>1, <1>3, <2>1, <2>2, <2>3
<1> QED
  BY <1>1, <1>5, <1>6, IndexAtEnd DEF Reading, InForce

\* parseRowsEvent and setRowsEventBuffer.
LEMMA RowsRead ==
    ASSUME NEW s, Reading(s), IsRows(log[rd]), tableid # NoTable, hdrlen = HdrLen,
           UNCHANGED <<hdrlen, tableid, position, index, logfile>>,
           cur' = 0, lenRows' = log[rd].nrows, lenRows' > 0, pc' = "pop",
           \A k \in 1 .. lenRows' : slots'[k] = <<rd, k>>
    PROVE  Tracked(s)' /\ (SessionOf(s) => SessionOf(s)')
<1>0. rd \in Nat /\ s \in Nat /\ s <= rd /\ UNCHANGED <<log, req, last, startidx>>
      /\ cur = lenRows /\ lenRows \in Nat
  BY Numbers DEF Reading, Tracked, StartsAt, BufferFits
<1> PICK e \in DOMAIN log : e = rd
  BY DEF Reading
<1>01. e \in Nat /\ e \in s .. rd' - 1 /\ rd' = e + 1 /\ log[e].nrows \in Nat
  BY <1>0, LogFacts DEF Reading
<1>1. StartsAt(s)'
  BY <1>0 DEF Reading, Tracked, StartsAt
<1>2. HeaderInv(s)'
  BY DEF Reading, HeaderInv
<1>3. FileInv'
  BY FileStep DEF IsRows, RowsTypes
<1>4. \A types : NoneSince(types, e + 1)'
  BY <1>01 DEF NoneSince
<1>5. BufferOf(s, e)'
  BY <1>0, <1>01, <1>4 DEF BufferOf
<1>6. BufferInv(s)'
  BY <1>0, <1>5 DEF BufferInv
<1>7. PICK t \in s .. rd - 1 : InForce(t) /\ log[rd].base = index
  BY BaseIsIndex
<1>8. InForce(t)'
  <2>1. t \in 1 .. rd' - 1 /\ IsTableMap(log[t])' /\ t + 1 \in Nat
    BY <1>0, <1>01, <1>7 DEF InForce
  <2>2. NoneSince({"TABLE_MAP"}, t + 1)'
    BY <1>7, <2>1, NoneSinceStep DEF Reading, InForce, IsRows, RowsTypes
  <2>3. NoneSince({"ROTATE"}, t + 1)' => NoneSince({"ROTATE"}, t + 1)
    BY <2>1, NoneSinceStep DEF Reading
  <2>4. index' = log'[e].base + cur'
    <3>1. log[e].base \in Nat
      BY LogFacts DEF Reading
    <3> QED
      BY <1>0, <1>7, <3>1
  <2>5. e \in t .. rd' - 1
    BY <1>0, <1>01, <1>7
  <2>6. CountedFrom(t)'
    BY <1>0, <1>4, <2>4, <2>5 DEF CountedFrom
  <2> QED
    BY <1>0, <1>7, <2>1, <2>2, <2>3, <2>6 DEF InForce
<1>9. TableInv(s)'
  <2>1. t \in s .. rd' - 1
    BY <1>0, <1>01, <1>7
  <2> QED
    BY <1>8, <2>1 DEF TableInv
<1>10. Consumed' = Consumed
  <2>1. Consumed = {q \in Rows(log) : q[1] < rd}
    BY <1>0, ConsumedAll
  <2> SUFFICES ASSUME NEW q \in Rows(log)
               PROVE  q[1] < e <=> (q[1] < e + 1 /\ \A k \in 1 .. lenRows' : slots'[k] # q)
    BY <1>0, <1>01, <2>1 DEF Consumed, ConsumedAt
  <2>2. PICK d \in DOMAIN log : \E i \in 1 .. log[d].nrows : q = <<d, i>>
    BY RowsAre
  <2>3. PICK i \in 1 .. log[d].nrows : q = <<d, i>>
    BY <2>2
  <2>4. q[1] = d /\ d \in Nat
    BY <2>3, LogFacts DEF Reading
  <2>5. (\A k \in 1 .. lenRows' : slots'[k] # q) <=> d # e
    BY <2>3, <2>4
  <2> QED
    BY <1>01, <2>4, <2>5
<1>11. SessionOf(s) => SkipInv(s)' /\ IndexExists(s)'
  <2>1. UpTo(log, last)' = UpTo(log, last)
        /\ SkippedFrom(log, s, req.idx)' = SkippedFrom(log, s, req.idx)
    BY <1>0 DEF UpTo
  <2>2. NoneSince({"TABLE_MAP"}, s + 1) => NoneSince({"TABLE_MAP"}, s + 1)'
    BY <1>0, NoneSinceStep DEF Reading, IsRows, RowsTypes
  <2> QED
    BY <1>0, <1>10, <2>1, <2>2 DEF Reading, SessionOf, SkipInv, IndexExists
<1>12. Tracked(s)'
  BY <1>1, <1>2, <1>3, <1>6, <1>9 DEF Tracked
<1> QED
  BY <1>11, <1>12 DEF SessionOf

\* What taking a row out of the buffer keeps.
Popping(s) ==
    /\ TypeOK /\ BufferFits /\ Tracked(s) /\ s \in DOMAIN log /\ pc = "pop"
    /\ cur' = cur + 1 /\ index' = index + 1
    /\ UNCHANGED <<log, rd, pending, req, position, logfile, hdrlen, tableid,
                   slots, lenRows>>

\* fetchFromBuffer: a row that leaves the buffer changes nothing of what is known
\* about the session but the number of rows consumed.
LEMMA PopKeeps ==
    ASSUME NEW s, Popping(s)
    PROVE  /\ Tracked(s)' /\ (IndexExists(s) => IndexExists(s)')
           /\ Consumed' = ConsumedAt(cur + 1)
           /\ \A types, a : NoneSince(types, a)' = NoneSince(types, a)
<1>0. rd \in Nat /\ s \in Nat /\ cur \in Nat /\ cur < lenRows /\ lenRows \in Nat /\ Live
  BY Numbers DEF Popping, BufferFits, Live
<1>1. \A types, a : NoneSince(types, a)' = NoneSince(types, a)
  BY DEF NoneSince, Popping
<1>2. StartsAt(s)' /\ HeaderInv(s)' /\ FileInv'
  BY DEF Popping, Tracked, StartsAt, HeaderInv, FileInv
<1>3. PICK t \in DOMAIN log : \E e \in DOMAIN log :
         t >= s /\ InForce(t) /\ InGroup(log, e, t) /\ IsRows(log[e])
         /\ BufferOf(s, e) /\ e = rd - 1 /\ index = log[e].base + cur
  BY <1>0, CheckpointOfBuffer DEF Popping
<1>4. PICK e \in DOMAIN log :
         InGroup(log, e, t) /\ IsRows(log[e])
         /\ BufferOf(s, e) /\ e = rd - 1 /\ index = log[e].base + cur
  BY <1>3
<1>5. e \in Nat /\ t \in Nat /\ t < e /\ log[e].base \in Nat
  BY <1>4, LogFacts DEF InGroup, Popping
<1>6. BufferOf(s, e)'
  BY <1>1, <1>4 DEF Popping, BufferOf
<1>7. BufferInv(s)'
  BY <1>0, <1>6 DEF BufferInv, Popping
<1>8. CountedFrom(t)'
  <2>1. e \in t .. rd' - 1 /\ IsRows(log'[e]) /\ NoneSince(RowsTypes, e + 1)'
    BY <1>0, <1>1, <1>4, <1>5 DEF Popping, BufferOf
  <2>2. index' = log'[e].base + cur'
    BY <1>0, <1>4, <1>5 DEF Popping
  <2> QED
    BY <2>1, <2>2 DEF CountedFrom
<1>9. InForce(t)'
  BY <1>1, <1>3, <1>8 DEF InForce, Popping
<1>10. TableInv(s)'
  <2>1. tableid # NoTable
    BY <1>0 DEF Popping, Tracked, TableInv
  <2>2. t \in s .. rd' - 1 /\ tableid' # NoTable
    BY <1>0, <1>3, <1>4, <1>5, <2>1 DEF Popping
  <2> QED
    BY <1>9, <2>2 DEF TableInv
<1>11. Consumed' = ConsumedAt(cur + 1)
  BY DEF Popping, Consumed, ConsumedAt
<1>12. IndexExists(s) => IndexExists(s)'
  BY DEF IndexExists, Popping
<1> QED
  BY <1>1, <1>2, <1>7, <1>10, <1>11, <1>12 DEF Tracked

\* The loop that skips rows: when the last one is skipped, the rows consumed
\* are those the start leaves out.
LEMMA SkipKeeps ==
    ASSUME NEW s, Popping(s), SessionOf(s), startidx > 0, startidx' = startidx - 1, UNCHANGED last,
           pc' # "holding"
    PROVE  SessionOf(s)'
<1>0. /\ rd \in Nat /\ cur \in Nat /\ cur < lenRows /\ lenRows \in Nat /\ Live
      /\ startidx \in Nat /\ index \in Nat
  BY Numbers DEF Popping, BufferFits, Live
<1>01. s \in Nat
  BY LogFacts DEF Popping
<1>1. /\ UpTo(log, last) = SkippedFrom(log, s, req.idx)
      /\ index + startidx = req.idx /\ NoneSince({"TABLE_MAP"}, s + 1)
  BY DEF Popping, SessionOf, SkipInv
<1>2. UpTo(log, last)' = UpTo(log, last)
      /\ SkippedFrom(log, s, req.idx)' = SkippedFrom(log, s, req.idx)
  BY DEF Popping, UpTo
<1>3. startidx' = 0 => Consumed' = SkippedFrom(log, s, req.idx)
  <2> SUFFICES ASSUME startidx' = 0 PROVE ConsumedAt(cur + 1) = SkippedFrom(log, s, req.idx)
    BY PopKeeps
  <2>1. PICK t \in DOMAIN log : \E e \in DOMAIN log :
          /\ t >= s /\ InForce(t) /\ IsRows(log[e]) /\ e = rd - 1
          /\ index = log[e].base + cur /\ InGroup(log, e, t)
          /\ \A c \in 0 .. lenRows : ConsumedAt(c) = SkippedFrom(log, t, log[e].base + c)
    BY <1>0, CheckpointOfBuffer DEF Popping
  <2>2. PICK e \in DOMAIN log :
          /\ e = rd - 1 /\ index = log[e].base + cur
          /\ \A c \in 0 .. lenRows : ConsumedAt(c) = SkippedFrom(log, t, log[e].base + c)
    BY <2>1
  <2>3. t = s
    BY <1>0, <1>01, <1>1, <2>1 DEF NoneSince, InForce, IsTableMap
  <2>4. log[e].base \in Nat
    BY LogFacts DEF Popping
  <2>5. log[e].base + (cur + 1) = req.idx
    BY <1>0, <1>1, <2>2, <2>4
  <2>6. cur + 1 \in 0 .. lenRows
    BY <1>0
  <2> QED
    BY <2>2, <2>3, <2>5, <2>6
<1>4. index' + startidx' = req'.idx
  BY <1>0, <1>1 DEF Popping
<1>5. SkipInv(s)'
  BY <1>1, <1>2, <1>3, <1>4, PopKeeps DEF SkipInv
<1> QED
  BY <1>5, PopKeeps DEF SessionOf

\* fetchFromBuffer: the row returned is the one after the last, and now the
\* last.
LEMMA DeliverKeeps ==
    ASSUME NEW s, Popping(s), SessionOf(s), startidx = 0, UNCHANGED startidx, last' = slots[cur + 1]
    PROVE  SessionOf(s)' /\ IsNextRow(log, last, last')
<1>0. cur \in Nat /\ cur < lenRows /\ lenRows \in Nat /\ Live
  BY Numbers DEF Popping, BufferFits, Live
<1>1. PICK t \in DOMAIN log : \E e \in DOMAIN log :
        IsRows(log[e]) /\ BufferOf(s, e) /\ e = rd - 1 /\ lenRows = log[e].nrows
  BY <1>0, CheckpointOfBuffer DEF Popping
<1>2. PICK e \in DOMAIN log :
        IsRows(log[e]) /\ BufferOf(s, e) /\ e = rd - 1 /\ lenRows = log[e].nrows
  BY <1>1
<1>3. last' = <<e, cur + 1>> /\ last'[1] = e /\ last'[2] = cur + 1 /\ e \in Nat
  <2>1. last' = <<e, cur + 1>>
    BY <1>0, <1>2 DEF BufferOf
  <2> QED
    BY <2>1, Numbers DEF Popping
<1>4. \A c \in {cur, cur + 1} :
        ConsumedAt(c) = {q \in Rows(log) : q[1] < e \/ (q[1] = e /\ q[2] <= c)}
  BY <1>0, <1>2, ConsumedInBuffer DEF Popping
<1>5. \A q \in Rows(log) : q[1] \in Nat /\ q[2] \in Nat
  <2> SUFFICES ASSUME NEW q \in Rows(log) PROVE q[1] \in Nat /\ q[2] \in Nat
    OBVIOUS
  <2>1. PICK d \in DOMAIN log : \E i \in 1 .. log[d].nrows : q = <<d, i>>
    BY RowsAre
  <2> QED
    BY <2>1, LogFacts DEF Popping
<1>6. UpTo(log, last') = ConsumedAt(cur + 1)
  <2>1. \A q \in Rows(log) : ~RowLess(last', q) <=> (q[1] < e \/ (q[1] = e /\ q[2] <= cur + 1))
    BY <1>0, <1>3, <1>5 DEF RowLess
  <2> QED
    BY <1>4, <2>1 DEF UpTo
<1>7. SkipInv(s)'
  <2>1. UpTo(log, last)' = UpTo(log, last')
    BY DEF UpTo, Popping
  <2> QED
    BY <1>6, <2>1, PopKeeps DEF SkipInv
<1>8. IsNextRow(log, last, last')
  <2>1. \A q \in Rows(log) :
          RowLess(last, q) <=> ~(q[1] < e \/ (q[1] = e /\ q[2] <= cur))
    BY <1>4 DEF Popping, SessionOf, SkipInv, UpTo, Consumed
  <2>2. last' \in Rows(log)
    BY <1>0, <1>2, <1>3, RowsAre
  <2>3. RowLess(last, last')
    BY <1>0, <1>3, <2>1, <2>2
  <2>4. \A q \in Rows(log) : ~(RowLess(last, q) /\ RowLess(q, last'))
    BY <1>0, <1>3, <1>5, <2>1 DEF RowLess
  <2> QED
    BY <2>2, <2>3, <2>4 DEF IsNextRow
<1> QED
  BY <1>7, <1>8, PopKeeps DEF SessionOf
-----------------------------------------------------------------------------
(* Every step keeps the session. *)

\* getRowsEvent has an event of the log in hand.
LEMMA ReadFromLog ==
    ASSUME IInv, NEW s \in DOMAIN log, Tracked(s), NEW types, Receives(types), pending = <<>>,
           Consume, UNCHANGED <<log, req, last, startidx>>
    PROVE  Reading(s) /\ Arrived = log[rd] /\ log[rd].type \in types
<1>1. rd \in DOMAIN log
  BY LogFacts DEF IInv, Receives, Available, TypeOK
<1>2. Arrived = log[rd] /\ rd' = rd + 1 /\ pending' = <<>>
  BY DEF Arrived, Consume
<1> QED
  BY <1>1, <1>2 DEF IInv, Receives, Reading

\* One round of getRowsEvent keeps what is known of the session.
LEMMA SessionParse ==
    ASSUME IInv, NEW s \in DOMAIN log, Tracked(s),
           ParseFDE \/ IgnoreEvent \/ ParseTableMap \/ ParseRotate \/ ParseRows
    PROVE  Tracked(s)' /\ (SessionOf(s) => SessionOf(s)')
<1>0. UNCHANGED <<log, req, last, startidx>> /\ Consume /\ pc = "get"
  BY DEF ParseFDE, IgnoreEvent, ParseTableMap, ParseRotate, ParseRows, world, app, Receives
<1>1. CASE ParseFDE
  <2>0. /\ UNCHANGED <<slots, lenRows, cur, pc, index, tableid, logfile, position>>
        /\ hdrlen' = HdrLen /\ Receives({"FDE"})
    BY <1>1 DEF ParseFDE, buffer, ds
  <2>1. CASE pending = <<>>
    <3>1. Reading(s) /\ log[rd].type = "FDE"
      BY <1>0, <2>0, <2>1, ReadFromLog
    <3> QED
      BY <2>0, <3>1, PlainRead DEF IsRows, RowsTypes, IsTableMap
  <2>2. CASE pending # <<>>
    <3>1. pending' = <<>> /\ rd' = rd
      BY <1>0, <2>2 DEF IInv, PendingOK, Consume
    <3>2. HeaderInv(s)'
      BY <2>0, <3>1 DEF HeaderInv
    <3> QED
      BY <1>0, <2>0, <3>1, <3>2, SessionFrame
  <2> QED
    BY <2>1, <2>2
<1>2. CASE IgnoreEvent
  <2>0. /\ UNCHANGED <<slots, lenRows, cur, pc, index, tableid, logfile, position, hdrlen>>
        /\ Receives({"QUERY"})
    BY <1>2 DEF IgnoreEvent, buffer, ds, parser
  <2>1. pending = <<>>
    BY <2>0, ArrivedType DEF IInv
  <2>2. Reading(s) /\ log[rd].type = "QUERY"
    BY <1>0, <2>0, <2>1, ReadFromLog
  <2>3. hdrlen' = HdrLen
    BY <2>0, <2>1, <2>2, HeaderKnown
  <2> QED
    BY <2>0, <2>2, <2>3, PlainRead DEF IsRows, RowsTypes, IsTableMap
<1>3. CASE ParseRotate
  <2>0. /\ UNCHANGED <<slots, lenRows, cur, pc, index, tableid, hdrlen>>
        /\ Receives({"ROTATE"})
    BY <1>3 DEF ParseRotate, buffer, parser
  <2>1. pending = <<>>
    BY <2>0, ArrivedType DEF IInv
  <2>2. Reading(s) /\ log[rd].type = "ROTATE" /\ Arrived = log[rd]
    BY <1>0, <2>0, <2>1, ReadFromLog
  <2>3. hdrlen = HdrLen
    BY <2>1, <2>2, HeaderKnown
  <2>4. logfile' = log[rd].tofile
    BY <1>3, <2>2, <2>3 DEF ParseRotate
  <2> QED
    BY <2>0, <2>2, <2>3, <2>4, PlainRead DEF IsRows, RowsTypes, IsTableMap
<1>4. CASE ParseTableMap
  <2>0. /\ UNCHANGED <<slots, lenRows, cur, pc, logfile, hdrlen>>
        /\ Receives({"TABLE_MAP"})
    BY <1>4 DEF ParseTableMap, buffer
  <2>1. pending = <<>>
    BY <2>0, ArrivedType DEF IInv
  <2>2. Reading(s) /\ log[rd].type = "TABLE_MAP" /\ Arrived = log[rd]
    BY <1>0, <2>0, <2>1, ReadFromLog
  <2>3. hdrlen = HdrLen
    BY <2>1, <2>2, HeaderKnown
  <2>4. tableid' = log[rd].tableid /\ index' = 0 /\ position' = TableMapStart(log[rd])
    BY <1>4, <2>2, <2>3 DEF ParseTableMap, IndexAtTableMap
  <2>5. IsTableMap(log[rd])
    BY <2>2 DEF IsTableMap
  <2>6. TableMapStart(log[rd]) = log[rd].start
    BY <2>2, <2>5, TableMapStartIsStart, LogsAssumption DEF Reading, TypeOK
  <2> QED
    BY <2>0, <2>2, <2>3, <2>4, <2>5, <2>6, TableMapRead
<1>5. CASE ParseRows
  <2>0. /\ UNCHANGED <<hdrlen, tableid, position, index, logfile>>
        /\ Receives(RowsTypes) /\ TableMatches(Arrived) /\ cur' = 0 /\ pc' = "pop"
    BY <1>5 DEF ParseRows, ds, parser
  <2>1. pending = <<>> /\ Arrived \in Event
    BY <2>0, ArrivedType DEF IInv, RowsTypes
  <2>2. Reading(s) /\ IsRows(log[rd]) /\ Arrived = log[rd]
    BY <1>0, <2>0, <2>1, ReadFromLog DEF IsRows
  <2>3. hdrlen = HdrLen /\ tableid # NoTable
    BY <2>0, <2>1 DEF TableMatches, NoTable, Event
  <2>4. lenRows' > 0 /\ lenRows' = log[rd].nrows /\ \A k \in 1 .. lenRows' : slots'[k] = <<rd, k>>
    BY <1>5, <2>2, ParseRowsBuffer DEF IInv
  <2> QED
    BY <2>0, <2>2, <2>3, <2>4, RowsRead
<1> QED
  BY <1>1, <1>2, <1>3, <1>4, <1>5

\* The library is about to take a row.
LEMMA PopReady ==
    ASSUME IInv, NEW s \in DOMAIN log, Tracked(s), SkipRow \/ DeliverRow
    PROVE  Popping(s)
  BY DEF IInv, Popping, SkipRow, DeliverRow, world, source, parser

\* Every step keeps the session: the events read, the rows in the buffer, the rows
\* still to skip.
LEMMA SessionStep ==
    ASSUME StartHonoured, IInv, Session, SavedInv, [Next]_vars
    PROVE  Session'
<1>1. CASE ConnectDataSource
  BY <1>1, SessionConnect DEF IInv
<1>2. CASE ParseFDE \/ IgnoreEvent \/ ParseTableMap \/ ParseRotate \/ ParseRows
  <2>1. Live /\ UNCHANGED log
    BY <1>2 DEF Live, Receives, ParseFDE, IgnoreEvent, ParseTableMap, ParseRotate, ParseRows, world
  <2> QED
    BY <1>2, <2>1, SessionParse DEF Session, SessionOf
<1>3. CASE SkipRow
  <2>1. /\ Live /\ UNCHANGED <<log, last>> /\ startidx > 0 /\ startidx' = startidx - 1
        /\ pc' # "holding"
    BY <1>3 DEF Live, SkipRow, Skips, SkipCounted, EnterFetch, world, app
  <2> QED
    BY <1>3, <2>1, PopReady, SkipKeeps DEF Session, SessionOf
<1>4. CASE DeliverRow
  <2>1. /\ Live /\ UNCHANGED <<log, startidx>> /\ startidx = 0 /\ last' = slots[cur + 1]
    BY <1>4 DEF Live, DeliverRow, Skips, world, IInv, TypeOK
  <2> QED
    BY <1>4, <2>1, PopReady, DeliverKeeps DEF Session, SessionOf
<1>5. CASE \/ MasterWrites \/ ConnLost \/ FetchOne \/ SaveCheckpoint \/ FreeBinlogRow
           \/ UNCHANGED vars
  <2> SUFFICES ASSUME Live' PROVE \E s \in DOMAIN log' : SessionOf(s)'
    BY DEF Session
  <2>1. /\ UNCHANGED <<log, rd, pending, req, position, index, logfile, hdrlen, tableid,
                       startidx, slots, lenRows, cur, last>>
        /\ Live
        /\ pc' # "get" => pc # "get"
        /\ pc' = "holding" => pc = "holding"
    BY <1>5 DEF Live, EnterFetch, MasterWrites, ConnLost, FetchOne, SaveCheckpoint, FreeBinlogRow,
                vars, world, source, ds, parser, buffer, app
  <2>2. PICK s \in DOMAIN log : SessionOf(s)
    BY <2>1 DEF Session
  <2>3. HeaderInv(s)'
    BY <2>1, <2>2 DEF SessionOf, Tracked, HeaderInv
  <2>4. SessionOf(s)'
    BY <2>1, <2>2, <2>3, SessionFrame DEF SessionOf
  <2> QED
    BY <2>1, <2>4
<1>6. CASE ConnectRefused \/ AssertFails \/ FetchFails \/ FreeBinlogClient \/ Crash
  <2>1. CASE FetchFails
    <3>1. Source = "file" => pc' = "ended"
      BY <2>1 DEF FetchFails, Skips, StartHonoured
    <3>2. Source = "mysql" => pc' = "ended" \/ ~up'
      BY <2>1 DEF FetchFails, source
    <3>3. pc' \in {"ended", "get"}
      BY <2>1 DEF FetchFails
    <3> QED
      BY <3>1, <3>2, <3>3, SourceAssumption DEF Live, Session
  <2>2. CASE ConnectRefused \/ AssertFails \/ FreeBinlogClient \/ Crash
    <3>1. ~Live'
      BY <2>2 DEF Live, ConnectRefused, AssertFails, FreeBinlogClient, Crash
    <3> QED
      BY <3>1 DEF Session
  <2> QED
    BY <1>6, <2>1, <2>2
<1> QED
  BY <1>1, <1>2, <1>3, <1>4, <1>5, <1>6 DEF Next
-----------------------------------------------------------------------------
(* The checkpoint the application keeps. *)

\* The application's checkpoint stands for the rows it had committed, and exists.
LEMMA SavedStep ==
    ASSUME IInv, Session, SavedInv, [Next]_vars
    PROVE  SavedInv'
<1>1. CASE SaveCheckpoint
  <2>1. UNCHANGED log /\ saved' = Here /\ committed' = last /\ pc = "holding"
    BY <1>1 DEF SaveCheckpoint, Here, world
  <2> QED
    BY <2>1, HereIsRight DEF IInv, SavedInv
<1>2. CASE ~SaveCheckpoint
  <2>1. UNCHANGED <<log, saved, committed>>
    BY <1>2 DEF Next, MasterWrites, ConnLost, ConnectDataSource, ConnectRefused, NewClient,
        FetchOne, ParseFDE, IgnoreEvent, ParseTableMap, ParseRotate, ParseRows, AssertFails,
        FetchFails, SkipRow, DeliverRow, FreeBinlogRow, FreeBinlogClient, Crash,
        world, app, vars
  <2> QED
    BY <2>1 DEF SavedInv
<1> QED
  BY <1>1, <1>2

\* Only SaveCheckpoint moves the start that will be asked for.
LEMMA StartStep ==
    ASSUME FileFromStart, StartHonoured, [Next]_vars
    PROVE  StartHonoured'
<1> SUFFICES ASSUME Source = "file"
             PROVE  saved' = saved /\ startidx' = 0
  BY DEF StartHonoured
<1>1. saved.idx = 0 /\ startidx = 0 /\ ~AppSaves
  BY DEF FileFromStart, StartHonoured
<1>2. saved' = saved
  BY <1>1 DEF Next, MasterWrites, ConnLost, ConnectDataSource, ConnectRefused, NewClient,
      FetchOne, ParseFDE, IgnoreEvent, ParseTableMap, ParseRotate, ParseRows, AssertFails,
      FetchFails, SkipRow, DeliverRow, SaveCheckpoint, FreeBinlogRow, FreeBinlogClient,
      Crash, app, vars
<1>3. startidx' \in {startidx, saved.idx}
  BY <1>1 DEF Next, MasterWrites, ConnLost, ConnectDataSource, ConnectRefused, NewClient,
      FetchOne, ParseFDE, IgnoreEvent, ParseTableMap, ParseRotate, ParseRows, AssertFails,
      FetchFails, SkipRow, Skips, DeliverRow, SaveCheckpoint, FreeBinlogRow,
      FreeBinlogClient, Crash, vars
<1> QED
  BY <1>1, <1>2, <1>3

\* The first start.
LEMMA ResumeInit ==
    ASSUME FileFromStart, ValidStartOnly, Init
    PROVE  RInv
<1>1. Denotes(log, saved, committed) /\ ValidStart(log, saved)
  BY DEF Init
<1>2. pc = "down"
  BY DEF Init
<1>3. StartHonoured
  <2> SUFFICES ASSUME Source = "file"
               PROVE  saved.pos = 4 /\ saved.idx = 0 /\ startidx = 0
    BY DEF StartHonoured
  <2>1. saved.pos = 4 /\ startidx = 0
    BY DEF Init, FileFromStart
  <2>2. PICK e \in DOMAIN log :
          /\ IsEventAt(log, e, saved.file, 4)
          /\ \/ saved.idx = 0
             \/ \E q \in Rows(log) : InGroup(log, q[1], e)
    BY <1>1, <2>1 DEF ValidStart
  <2>3. log[e].type = "FDE"
    BY <2>2, LogsAssumption DEF Init, WellFormed, FilesOK, IsEventAt
  <2> QED
    BY <2>1, <2>2, <2>3 DEF InGroup, IsTableMap
<1> QED
  BY <1>1, <1>2, <1>3 DEF RInv, SavedInv, Session, Live
-----------------------------------------------------------------------------
(* Theorems. *)

\* fetchOne across crashes and lost connections: the inductive invariant of a
\* resumed read.
THEOREM ResumeInvariant ==
    ASSUME FileFromStart, ValidStartOnly
    PROVE  Spec => [](IInv /\ RInv)
<1>1. Init => IInv /\ RInv
  BY InitType, InitBuffer, ResumeInit DEF IInv
<1>2. IInv /\ RInv /\ [Next]_vars => (IInv /\ RInv)'
  BY TypeStep, BufferStep, OwnershipStep, SessionStep, SavedStep, StartStep DEF IInv, RInv
<1> QED
  BY <1>1, <1>2, PTL DEF Spec

\* fetchOne: while a row is held, (logfile, position, index) stands for the
\* rows up to that row and no other.
THEOREM CheckpointHolds ==
    ASSUME FileFromStart, ValidStartOnly
    PROVE  Spec => []CheckpointRight
<1>1. IInv /\ RInv => CheckpointRight
  BY HereIsRight DEF IInv, RInv, CheckpointRight
<1> QED
  BY <1>1, ResumeInvariant, PTL

\* The row order of the abstract specification is this one.
LEMMA SameNextRow ==
    ASSUME NEW l, NEW r, NEW s
    PROVE  Stream!IsNextRow(l, r, s) <=> IsNextRow(l, r, s)
  BY DEF IsNextRow, RowLess, Rows, IsRows, RowsTypes, Stream!IsNextRow, Stream!RowLess,
         Stream!Rows, Stream!IsRows, Stream!RowsTypes

\* A step of the client is a step of the row stream, or none.
LEMMA StreamStep ==
    ASSUME IInv, RInv, [Next]_vars
    PROVE  [Stream!Next]_Stream!stream
<1>1. CASE DeliverRow
  <2>1. /\ Live /\ UNCHANGED <<log, committed, startidx>> /\ startidx = 0
        /\ last' = slots[cur + 1] /\ handed' = handed + 1
    BY <1>1 DEF Live, DeliverRow, Skips, world, IInv, TypeOK
  <2>2. PICK s \in DOMAIN log : SessionOf(s)
    BY <2>1 DEF RInv, Session
  <2>3. IsNextRow(log, last, last')
    BY <1>1, <2>1, <2>2, PopReady, DeliverKeeps DEF SessionOf
  <2> QED
    BY <2>1, <2>3, SameNextRow DEF Stream!Next, Stream!Deliver
<1>2. CASE SaveCheckpoint
  BY <1>2 DEF SaveCheckpoint, world, Stream!Next, Stream!Commit
<1>3. CASE ConnectDataSource \/ ConnectRefused
  BY <1>3 DEF ConnectDataSource, ConnectRefused, NewClient, world, Stream!Next, Stream!Resume
<1>4. CASE ~DeliverRow /\ ~SaveCheckpoint /\ ~ConnectDataSource /\ ~ConnectRefused
  <2>1. UNCHANGED <<log, last, committed, handed>>
    BY <1>4 DEF Next, MasterWrites, ConnLost, FetchOne, ParseFDE, IgnoreEvent, ParseTableMap,
        ParseRotate, ParseRows, AssertFails, FetchFails, SkipRow, FreeBinlogRow,
        FreeBinlogClient, Crash, world, app, vars
  <2> QED
    BY <2>1 DEF Stream!stream
<1> QED
  BY <1>1, <1>2, <1>3, <1>4

\* connectDataSource and fetchOne: with restarts from saved checkpoints, lost
\* connections and crashes, every row fetchOne returns is the one after the
\* last, or after the saved one when a session begins: none is lost, handed over
\* again or out of order.
THEOREM ImplementsRowStream ==
    ASSUME FileFromStart, ValidStartOnly
    PROVE  Spec => ExactlyOnce
<1>1. Init => Stream!Init
  BY DEF Init, Stream!Init
<1>2. IInv /\ RInv /\ [Next]_vars => [Stream!Next]_Stream!stream
  BY StreamStep
<1> QED
  BY <1>1, <1>2, ResumeInvariant, PTL DEF Spec, ExactlyOnce, Stream!Spec
-----------------------------------------------------------------------------
(* "If someone specify an index which is invalid, we should know": with a  *)
(* master whose log is one file, a session whose start does not exist      *)
(* never delivers a row, whatever it asks for and however often it is      *)
(* tried.  (With a second file it may: the run index_two_files.)           *)

\* The log never goes on in another file.
NeverRotates == \A l \in Logs : \A e \in DOMAIN l : l[e].type # "ROTATE"

\* A start amid rows: the client has no table for the first event it gets.
AmidRows(s) == rd = s /\ tableid = NoTable

\* The index asked for is never reached.  As long as the client has read no
\* table map but the one at its start, it counts towards req.idx, past the rows
\* there are; behind the next table map the position has moved, and a row that
\* is skipped then ends the session.
CountsInVain ==
    /\ startidx > 0 /\ logfile = req.file
    /\ tableid = NoTable \/ pc = "idle" => position = req.pos
    /\ pc \in {"get", "pop"} => oldpos = req.pos
    /\ position = req.pos => index + startidx = req.idx

Astray(s) ==
    /\ Tracked(s) /\ pc # "holding"
    /\ IF IsRows(log[s]) THEN AmidRows(s) ELSE CountsInVain

\* The invariant of a session whose start does not exist.
StrayInv == Live /\ ~ValidStart(log, req) => \E s \in DOMAIN log : Astray(s)
-----------------------------------------------------------------------------
\* connectDataSource with a start that does not exist.
LEMMA StrayConnect ==
    ASSUME Source = "mysql", TypeOK, ConnectDataSource
    PROVE  StrayInv'
<1>1. PICK s \in DOMAIN log : Tracked(s)' /\ rd' = s /\ IsEventAt(log, s, saved.file, saved.pos)
  BY TrackedConnect
<1>2. /\ UNCHANGED log /\ req' = saved /\ startidx' = saved.idx /\ index' = 0 /\ pc' = "idle"
      /\ tableid' = NoTable /\ position' = saved.pos /\ logfile' = saved.file /\ saved.idx \in Nat
  BY DEF ConnectDataSource, NewClient, world, TypeOK, Checkpoint
<1>3. ~ValidStart(log, saved) /\ ~IsRows(log[s]) => saved.idx # 0
  BY <1>1 DEF ValidStart
<1>4. ~ValidStart(log, saved) => Astray(s)'
  BY <1>1, <1>2, <1>3 DEF Astray, AmidRows, CountsInVain
<1> QED
  BY <1>2, <1>4 DEF StrayInv

\* A rows event amid which the client was started is for no table it knows.
LEMMA AmidRowsParse ==
    ASSUME IInv, NEW s \in DOMAIN log, Tracked(s), IsRows(log[s]), AmidRows(s),
           ParseFDE \/ IgnoreEvent \/ ParseTableMap \/ ParseRotate \/ ParseRows
    PROVE  UNCHANGED <<log, rd, tableid, pc>>
<1>1. UNCHANGED log
  BY DEF ParseFDE, IgnoreEvent, ParseTableMap, ParseRotate, ParseRows, world
<1>2. CASE pending # <<>>
  <2>1. ParseFDE
    BY <1>2, ArrivedType DEF IInv, IgnoreEvent, ParseTableMap, ParseRotate, ParseRows, RowsTypes
  <2> QED
    BY <1>1, <1>2, <2>1 DEF ParseFDE, Consume
<1>3. CASE pending = <<>>
  <2>1. Arrived = log[s] /\ log[s].type \in RowsTypes
    BY <1>3 DEF Arrived, AmidRows, IsRows
  <2>2. ParseRows
    BY <2>1 DEF RowsTypes, Receives, ParseFDE, IgnoreEvent, ParseTableMap, ParseRotate
  <2>3. log[s].tableid = NoTable
    BY <2>1, <2>2 DEF ParseRows, TableMatches, AmidRows
  <2> QED
    BY <2>3, LogFacts DEF IInv, NoTable
<1> QED
  BY <1>2, <1>3

\* Reading on counts no row, and a new table map has a place of its own.
LEMMA VainParse ==
    ASSUME NeverRotates, IInv, NEW s \in DOMAIN log, Tracked(s), CountsInVain,
           ParseFDE \/ IgnoreEvent \/ ParseTableMap \/ ParseRotate \/ ParseRows
    PROVE  CountsInVain'
<1>1. /\ UNCHANGED <<log, req, startidx, oldpos>> /\ pc = "get" /\ pc' \in {"get", "pop"}
  BY DEF ParseFDE, IgnoreEvent, ParseTableMap, ParseRotate, ParseRows, world, Receives
<1>2. CASE ParseFDE \/ IgnoreEvent \/ ParseRows
  BY <1>1, <1>2 DEF ParseFDE, IgnoreEvent, ParseRows, ds, parser, CountsInVain
<1>3. CASE ParseRotate
  <2>1. pending = <<>> /\ Receives({"ROTATE"})
    BY <1>3, ArrivedType DEF IInv, ParseRotate
  <2>2. rd \in DOMAIN log /\ log[rd].type = "ROTATE"
    BY <2>1, LogFacts, SMTT(30) DEF IInv, Receives, Available, Arrived, TypeOK
  <2> QED
    BY <2>2 DEF NeverRotates, IInv, TypeOK
<1>4. CASE ParseTableMap
  <2>1. pending = <<>> /\ Receives({"TABLE_MAP"})
    BY <1>4, ArrivedType DEF IInv, ParseTableMap
  <2>2. rd \in DOMAIN log /\ Arrived = log[rd] /\ log[rd].type = "TABLE_MAP"
    BY <2>1, LogFacts DEF IInv, Receives, Available, Arrived, TypeOK
  <2>3. hdrlen = HdrLen
    BY <2>1, <2>2, HeaderKnown
  <2>4. position' = log[rd].start /\ tableid' = log[rd].tableid /\ index' = 0 /\ logfile' = logfile
    <3>1. TableMapStart(log[rd]) = log[rd].start
      BY <2>2, TableMapStartIsStart, LogsAssumption DEF IInv, TypeOK, IsTableMap
    <3> QED
      BY <1>4, <2>2, <2>3, <3>1 DEF ParseTableMap, IndexAtTableMap
  <2>5. tableid' # NoTable
    BY <2>2, <2>4, LogFacts DEF IInv, NoTable
  <2>6. position' = req.pos => rd = s
    <3>1. log[rd].file = req.file /\ req.pos >= 4
      BY <2>2 DEF Tracked, FileInv, CountsInVain, StartsAt, IsEventAt
    <3>2. position' = req.pos => IsEventAt(log, rd, req.file, req.pos)
      BY <2>2, <2>4, <3>1 DEF IsEventAt
    <3> QED
      BY <3>2, EventAtUnique DEF IInv, Tracked, StartsAt
  <2>7. rd = s => index = 0 /\ tableid = NoTable
    BY Numbers DEF IInv, Tracked, TableInv
  <2> QED
    BY <1>1, <2>4, <2>5, <2>6, <2>7 DEF CountsInVain
<1> QED
  BY <1>2, <1>3, <1>4

\* A row that is skipped is not the one asked for: no row of the group is.
LEMMA VainSkip ==
    ASSUME IInv, NEW s \in DOMAIN log, Astray(s), ~ValidStart(log, req), SkipRow, Live'
    PROVE  Astray(s)'
<1>0. Popping(s) /\ Tracked(s) /\ Live /\ pc = "pop"
  <2>1. Tracked(s)
    BY DEF Astray
  <2>2. Popping(s)
    BY <2>1, PopReady
  <2> QED
    BY <2>1, <2>2 DEF Popping, Live
<1>1. cur \in Nat /\ lenRows \in Nat /\ cur < lenRows /\ index \in Nat /\ startidx \in Nat
  BY <1>0, Numbers DEF IInv, BufferFits
<1>2. PICK t \in DOMAIN log : \E e \in DOMAIN log :
        /\ InGroup(log, e, t) /\ IsRows(log[e])
        /\ lenRows = log[e].nrows /\ index = log[e].base + cur
        /\ IsEventAt(log, t, logfile, position)
  BY <1>0, <1>1, CheckpointOfBuffer DEF IInv
<1>3. PICK e \in DOMAIN log :
        /\ InGroup(log, e, t) /\ IsRows(log[e])
        /\ lenRows = log[e].nrows /\ index = log[e].base + cur
  BY <1>2
<1>4. tableid # NoTable
  BY <1>0, <1>1 DEF Tracked, TableInv
<1>5. CountsInVain /\ ~IsRows(log[s])
  BY <1>4 DEF Astray, AmidRows
<1>6. /\ oldpos = position /\ oldpos' = position /\ pc' \in {"get", "pop"}
      /\ startidx' = startidx - 1 /\ index' = index + 1
      /\ UNCHANGED <<log, req, position, logfile, tableid>>
  BY DEF SkipRow, PassedTableMap, SkipCounted, EnterFetch, Live, world, ds, parser
<1>7. position = req.pos /\ logfile = req.file /\ index + startidx = req.idx /\ startidx > 0
  BY <1>0, <1>5, <1>6 DEF CountsInVain
<1>8. t = s
  BY <1>0, <1>2, <1>7, EventAtUnique DEF IInv, Tracked, StartsAt
<1>9. startidx # 1
  <2> SUFFICES ASSUME startidx = 1 PROVE ValidStart(log, req)
    OBVIOUS
  <2>1. <<e, cur + 1>> \in Rows(log)
    BY <1>1, <1>3, RowsAre
  <2>2. <<e, cur + 1>>[1] = e /\ <<e, cur + 1>>[2] = cur + 1
    OBVIOUS
  <2>0. log[e].base \in Nat
    BY LogFacts DEF IInv
  <2>3. log[e].base + (cur + 1) = req.idx
    BY <1>1, <1>3, <1>7, <2>0
  <2> QED
    BY <1>0, <1>3, <1>8, <2>1, <2>2, <2>3 DEF ValidStart, Tracked, StartsAt
<1>10. CountsInVain'
  BY <1>1, <1>6, <1>7, <1>9 DEF CountsInVain
<1>11. Tracked(s)'
  BY <1>0, PopKeeps
<1> QED
  BY <1>5, <1>6, <1>10, <1>11 DEF Astray

\* Every step keeps a session that began nowhere from delivering.
LEMMA StrayStep ==
    ASSUME Source = "mysql", NeverRotates, IInv, StrayInv, [Next]_vars
    PROVE  StrayInv'
<1>1. CASE ConnectDataSource
  BY <1>1, StrayConnect DEF IInv
<1>2. CASE ConnectRefused \/ AssertFails \/ FetchFails \/ FreeBinlogClient \/ Crash
  <2>1. ~Live'
    BY <1>2 DEF Live, ConnectRefused, AssertFails, FetchFails, FreeBinlogClient, Crash, source
  <2> QED
    BY <2>1 DEF StrayInv
<1>3. CASE ~ConnectDataSource /\ ~(ConnectRefused \/ AssertFails \/ FetchFails \/ FreeBinlogClient \/ Crash)
  <2> SUFFICES ASSUME Live', ~ValidStart(log, req)' PROVE \E s \in DOMAIN log' : Astray(s)'
    BY DEF StrayInv
  <2>1. UNCHANGED <<log, req>> /\ Live
    BY <1>3 DEF Next, Live, Receives, MasterWrites, ConnLost, FetchOne, EnterFetch, ParseFDE, IgnoreEvent, ParseTableMap,
        ParseRotate, ParseRows, SkipRow, DeliverRow, SaveCheckpoint, FreeBinlogRow, world, source, vars
  <2>2. PICK s \in DOMAIN log : Astray(s)
    BY <2>1 DEF StrayInv
  <2>3. CASE ParseFDE \/ IgnoreEvent \/ ParseTableMap \/ ParseRotate \/ ParseRows
    <3>1. Tracked(s)' /\ pc' # "holding"
      BY <2>2, <2>3, SessionParse
         DEF Astray, ParseFDE, IgnoreEvent, ParseTableMap, ParseRotate, ParseRows, Receives
    <3>2. CASE IsRows(log[s])
      <4>1. UNCHANGED <<log, rd, tableid>>
        BY <2>2, <2>3, <3>2, AmidRowsParse DEF Astray
      <4> QED
        BY <2>2, <3>1, <3>2, <4>1 DEF Astray, AmidRows
    <3>3. CASE ~IsRows(log[s])
      <4>1. CountsInVain'
        BY <2>2, <2>3, <3>3, VainParse DEF Astray
      <4> QED
        BY <2>1, <2>2, <3>1, <3>3, <4>1 DEF Astray
    <3> QED
      BY <2>1, <3>2, <3>3
  <2>4. CASE SkipRow
    BY <2>1, <2>2, <2>4, VainSkip
  <2>5. CASE DeliverRow
    <3>1. lenRows # 0 /\ startidx = 0
      BY <2>5 DEF DeliverRow, Skips, IInv, TypeOK, BufferFits
    <3> QED
      BY <2>2, <3>1 DEF Astray, AmidRows, CountsInVain, Tracked, TableInv
  <2>6. CASE SaveCheckpoint \/ FreeBinlogRow
    BY <2>2, <2>6 DEF Astray, SaveCheckpoint, FreeBinlogRow
  <2>7. CASE MasterWrites \/ ConnLost \/ FetchOne \/ UNCHANGED vars
    <3>1. /\ UNCHANGED <<log, rd, pending, req, position, index, logfile, hdrlen, tableid,
                         startidx, slots, lenRows, cur, last>>
          /\ \/ UNCHANGED <<pc, oldpos>>
             \/ pc = "idle" /\ pc' \in {"get", "pop"} /\ oldpos' = position
      BY <2>7 DEF EnterFetch, MasterWrites, ConnLost, FetchOne, vars, world, source, ds, parser,
                  buffer, app
    <3>2. Tracked(s) /\ HeaderInv(s)'
      BY <2>2, <3>1 DEF Astray, Tracked, HeaderInv
    <3>3. Tracked(s)'
      BY <3>1, <3>2, SessionFrame
    <3>4. CASE IsRows(log[s])
      BY <2>2, <3>1, <3>3, <3>4 DEF Astray, AmidRows
    <3>5. CASE ~IsRows(log[s])
      BY <2>2, <3>1, <3>3, <3>5 DEF Astray, CountsInVain
    <3> QED
      BY <2>1, <3>4, <3>5
  <2> QED
    BY <1>3, <2>3, <2>4, <2>5, <2>6, <2>7 DEF Next
<1> QED
  BY <1>1, <1>2, <1>3
\* fetchOne, "if someone specify an index which is invalid, we should know":
\* in a log of one file no session delivers from a start that does not exist.
THEOREM ImpossibleIndexIsReported ==
    ASSUME Source = "mysql", NeverRotates
    PROVE  Spec => []ImpossibleIndexReported
<1>1. Init => StrayInv
  BY DEF Init, StrayInv, Live
<1>2. IInv /\ IInv' /\ StrayInv /\ [Next]_vars => StrayInv'
  BY StrayStep
<1>3. StrayInv => ImpossibleIndexReported
  BY DEF StrayInv, Astray, Live, ImpossibleIndexReported
<1> QED
  BY <1>1, <1>2, <1>3, Invariant, PTL DEF Spec
=============================================================================
