# libbinlog: a TLA+ verification project

libbinlog reads a MySQL binary log, from a master over the network or from a
file, and hands an application one row at a time together with a checkpoint
`(logfile, position, index)` from which it can go on later. This directory
holds a model of the library, the TLC runs that check it on small instances,
and theorems about it that the TLA+ proof system checks for every instance.
Paths below are relative to the repository's root, shown here as `src/`.

Contents: 1 inventory, 2 what each module models, 3 runs, 4 assumptions and
fairness, 5 proofs, 6 findings, 7 what is not modelled, 8 plan.

## 1. Inventory

| Component | Source | State it keeps | Operations |
|---|---|---|---|
| client core | `src/src/libbinlog.c`, `libbinlog.h`, `datasource.h` | `DataSource` (`position`, `index`, `logfile`, all public), the row buffer `_rows`, `_lenRows`, `_cur`, `_startidx`, `err` | `connectDataSource`, `fetchOne`, `freeBinlogRow`, `freeBinlogClient` |
| event parser | `src/src/logevent.c`, `logevent.h` | `Binlog`: header length from the format description, the current table with its metadata | `parseFDE`, `parseTableMapEvent`, `parseRotateEvent`, `parseRowsEvent`, row images |
| MySQL driver | `src/src/netdriver.c`, `mysql.c` | socket, packet number, `buf` and `newbuf` | connect, dump request, `getEventFromServer`, `freeEventFromServer`, close |
| wire protocol | `src/src/protocol/*.c`, `src/src/anet.c` | none of its own | packet headers, handshake, authentication, OK/ERR/EOF replies, exact reads and writes |
| file driver | `src/src/filedriver.c` | `FILE*`, `buf`, `newbuf` | open, `getEventFromFile`, close, URL parsing |
| decimal | `src/src/decimal.c` (vendored from MySQL) | none | `bin2decimal` and `decimal2string` for DECIMAL cells |
| SHA-1 | `src/src/protocol/sha1.c` (vendored) | digest context | used by the 4.1 password reply |
| applications | `src/src/bldump.c`, `src/bindings/python/binlog.py` | the checkpoint an application writes down | loop over `fetchOne`, free the row, close |

**How they interact.** Everything is synchronous calls in one thread:
application -> client core -> (driver through four function pointers of
`DataSource`) and (parser). The parser writes into the `Binlog` the client
owns; the driver owns the bytes of an event until `dsFreeEvent`; row images
pass from the parser to the buffer and from there to the application, which
gives them back with `freeBinlogRow`. The concurrency is with the outside: the
master appends while the client reads, the connection can go at any time, and
the application can die between any two of its steps.

**What is hard here.**

* *Two clocks.* `position` and `index` move when events are **read**, rows are
  handed over later, from a buffer. The public triple must nevertheless stand
  for the row just returned.
* *Resuming.* A checkpoint names a table map and a number of rows behind it.
  `fetchOne` starts by skipping that number of rows, possibly over several rows
  events, and must notice when the number is impossible.
* *Positions wrap.* They are `uint32_t`, and a table map's start is computed
  from its end.
* *Ownership.* An image is freed by the skipping loop, by the application, or by
  nobody; an update has two.
* *A buffer that is grown by comparing with the last event*, not with its
  capacity.
* *A swallowed packet.* `msendcmd` reads a reply to `COM_BINLOG_DUMP`; there is
  none, so it takes the first event, whose leading zero looks like OK.
* *Results that are not looked at*: a header that could not be read, a marker
  that was never set, an event shorter than its packet, a greeting that never
  came, a file that could not be opened.
* *Widths.* A cell's width comes from its type, its metadata and sometimes a
  length in front of it. One wrong width shifts everything behind it, and the
  loop over the rows ends by comparing the cursor with the event's length.
* *A login in two protocols*, with packet numbers that go on within the
  handshake and start again with the command, and several ways out that each
  have their own idea of who closes the socket.
* *A file that is still written*, by a master that may die within an event.
* *Errors inside the skipping loop*, which calls a dead source again and again.

**Properties that make each component correct.** Client core: rows arrive once
and in order across restarts (`ExactlyOnce`), the public checkpoint is right
(`CheckpointRight`), accesses stay in the buffer (`BufferFits`), images have one
owner (`Ownership`), impossible starts are reported
(`ImpossibleIndexReported`), `fetchOne` comes back (`LossEndsFetch`), everything
is delivered in the end (`AllDelivered`). Parser: the current table is the row's
table (`TableOfRow`, `NoAbort`), its columns are those the master declared
(`TableAsWritten`), the cursor is on a row of the master whenever one is decoded (`CursorOnRow`), the rows are those the master wrote
(`RowsAsWritten`), lengths are read as they were coded (`LengthsDecoded`), rows
stay within their arrays (`ArraysFit`), and the heap holds what is alive
(`HeapExact`). MySQL driver: what the client gets
is a prefix of what was sent, in order (`InOrder`), each buffer freed once
(`BufferDiscipline`), NULL has a reason (`EndsForReason`), reads end
(`LossEndsRead`) and find what arrived (`ArrivedIsHanded`). Login: the URL's
fields are those written (`UrlFields`), the token is right exactly when the
password is (`AuthRight`), packets have the number the master expects
(`InSequence`), both sides agree on the outcome (`ConnectedIsAccepted`), sockets
are accounted for (`SocketsAccounted`), the two sides never wait for each other (`ConnectEnds`).
File driver: `InOrder`, `BufferDiscipline`, `WholeIsHanded`, `PathOpened`.
Decimals: nothing is lost without an error (`NothingLostSilently`), the text is
the number (`TextIsNumber`).

`PROJECT.json` lists the hazards at their lines, with the properties that cover
them.

## 2. Modules

| Module | What it is |
|---|---|
| `BinlogLog` | the log as data: events, rows, table-map groups, what a checkpoint stands for (`SkippedFrom`, `Denotes`), which starts exist (`ValidStart`), what a master guarantees (`WellFormed`) |
| `RowStream` | abstract specification: rows are delivered in log order, each delivery counted, a commit remembers the last one, a restart goes back to the last commit |
| `BinlogClient` | the client with the master, the connection and the application around it; states the properties and the refinement of `RowStream` |
| `EventSource` | abstract specification: what a source promises the client. Events in order, none left out, none after a NULL; at most the last one torn |
| `NetSource` | the MySQL driver: `msendcmd`, `msaferead`, `getEventFromServer`, `freeEventFromServer`, over a stream of packets that can be cut at any byte; states the refinement of `EventSource` |
| `FileSource` | the file driver: `openFile`, `getEventFromFile` in its two reads, `freeEventFromFile`, `closeFile`, over a file that is still written; states the refinement of `EventSource`, too |
| `UrlParse` | `parseMySQLUrl` and `parseFileUrl` as functions of the URL's bytes |
| `Sha1` | `SHA1Init`, `SHA1Update`, `SHA1Final`: blocks, counters and padding; the block function is a constant |
| `Handshake` | the packets of a login: `readHandshakePkt`, `cooksalt`, `cooksaltOld`, `writeAuthPkt` |
| `Connect` | `connectDataSource` with a MySQL URL: socket, greeting, authentication, the old password, the command and its reply, and the master on the other side |
| `Decimal` | `bin2decimal`, `decimal2string`, `decimal_bin_size` |
| `PackedDecimal` | how a master packs a DECIMAL and how the number reads: the reference for `Decimal` |
| `DecimalCell` | a DECIMAL cell from its bytes to its text |
| `RowImage` | the bytes of an event: coded lengths, bitmaps, metadata, `value2Cell`, one row image |
| `MasterEvent` | how a master writes format descriptions, table maps and rows events: the reference for `RowImage` |
| `EventParse` | `parseFDE`, `parseTableMapEvent`, `parseRowsEvent` byte by byte, the client that takes the rows, and what is allocated and freed |
| `MCBinlogClient`, `MCNetSource`, `MCFileSource`, `MCConnect`, `MCEventParse` | small logs, packets, files, accounts and tables for TLC |
| `BinlogClientProofs` | types, buffer, ownership, table of the row |
| `ResumeProofs` | the checkpoint and the refinement of `RowStream`, for both sources; impossible starts are reported |
| `NetSourceProofs` | the refinement of `EventSource`, the driver's buffers, what NULL means, types |
| `FileSourceProofs` | the refinement of `EventSource`, the driver's buffers, the path of the URL, types |
| `ConnectProofs` | the login: sockets, packet numbers, agreement of both sides, the fields of the URL, types |
| `CodecProofs` | what `MasterEvent` writes, `RowImage` reads: lengths, bitmaps, metadata, cells, images, events |
| `EventParseProofs` | what the parser allocates and frees, and what it reads |
| `LeastElement` | facts of arithmetic: least elements, the steps from 0 to n, functions given by a first value and a step, with values of any kind |

How they fit together: `Connect` ends where `NetSource` begins: both have the dump
command's reply, `Connect` by what it says, `NetSource` by its bytes; `NetSource` and `FileSource` both implement `EventSource`, which
`BinlogClient` assumes of its source; `BinlogClient` has what the parsers do to
the client's state, `EventParse` what they do with the bytes; `BinlogClient`
implements `RowStream`.

`BinlogClient` corresponds to the code as follows.

| Model | Code |
|---|---|
| `position`, `index`, `logfile` | `DataSource`'s public members |
| `hdrlen`, `tableid` | `Binlog.fde.hdrlen`, `Binlog.table.tableid` |
| `slots`, `lenRows`, `cur`, `startidx` | `_rows`, `_lenRows`, `_cur`, `_startidx`; `Len(slots)` is the allocation |
| `oldpos` | the local of `fetchOne` |
| `images` | row images allocated by `parseRowsEvent` and not yet freed |
| `err` | `BinlogClient.err`, by cause |
| `up`, `rd`, `pending` | the source: connection alive, next event of the log, events the master makes up |
| `saved` | the checkpoint an application keeps (`entry['pos']` in `binlog.py`) |
| `last`, `committed`, `handed`, `req` | history: last row delivered, last row saved, how many rows the session has delivered, start asked for |
| `pc` | `down` (no client), `idle` (between calls), `get` (in `getRowsEvent`, waiting), `pop` (about to take a row), `holding` (a row is with the application), `ended` (`fetchOne` returned NULL), `abort` (assertion failed) |

One action is one handler: `ConnectDataSource` and `ConnectRefused` are
`connectDataSource`; `FetchOne` enters `fetchOne`; `ParseFDE`, `ParseTableMap`,
`ParseRotate`, `IgnoreEvent`, `ParseRows`, `AssertFails` are one round of the
loop in `getRowsEvent` each, with everything the round does (`ParseRows`
includes `setRowsEventBuffer`, which resets the cursor and keeps stale pointers
in the slots past the event); `FetchFails` is the NULL from the source with the
counting-down it causes in `fetchOne`; `SkipRow` and `DeliverRow` are one row out of
the buffer, skipped or returned. `fetchOne` is cut into steps only where the
outside can move in between, while it waits for the source, and per row.

`NetSource` corresponds to the code as follows. `wire` is what the master has
written, `bytes` how much of it will arrive, `at` how much is read; `conn` is
`open`, `fin` (closed) or `rst` (reset; the next read that runs dry returns -1,
later ones 0). One action is one call of `anetRead` with the code behind it up
to the next call: `ReadPktHeader`, `ReadMarker` (with `left -= 1` and the
branch), `ReadOkPkt`, `ReadErrorPkt`, `ReadEofPkt` with what `msendcmd` or
`msaferead` makes of their results, `ReadBody` (with the choice of the buffer
and `getEventFromServer`'s reading of `nread`). `mode` says which of the two
readers runs: `readReplyPkt` for the reply, `msaferead` for an event. Locals that
are read without having been set (`marker` and `plen` behind a failed read,
`isok`, the error message) are chosen freely, `plen` from all an `int32_t` holds
(`Ints`), and freeing or copying an unset pointer may end the process (`abort`).
What such a length does further on is in `BodyRead`, `Longer` and `Malloc`: a
negative one is a huge `size_t` and a count below zero for `read`. `got`, `torn` and `over` record what was
handed on. `BinlogClient` takes `EventSource` without torn events as its source: its
`ConnLost` drops what has not been read, its `FetchFails` is `Stop`.

`FileSource` corresponds to the code as follows. `file` is the list of events
the master has begun, `size` the bytes that are there, `at` the position of the
`FILE*`, `eof` whether a read has met the end. `getEventFromFile` is two
actions, one per `fread`, because the file may grow between them. `fread` with
one item returns 0 or 1, so the code's test for -1 never holds, and a body that
is cut short is handed on. In C libraries with a sticky end of file nothing is
read after the first short read; in older ones the next read goes on where the
bytes ended, `io.sticky` says which. With such a library and a master that shows parts of events the
driver loses its place, see section 6; `SettingsAssumption` leaves that out.

`Connect` corresponds to the code as follows. `pc` is the place in
`anetTcpConnect`, `mconnect` and `msendcmd`: `socket`, `connecting`, then three reads
(`greeting`, `reply`, `reply2`), `connected` (mconnect returned 1), the fourth read
(`dumpreply`), and `dumping` when connectDataSource has returned a client with a data
source; `failed` is a client without one, which `freeBinlogClient` cannot close.
One action is what the code does between two waits: `ReadGreeting` parses the
handshake packet, refuses the protocol or writes the authentication packet;
`ReadReply` is done, fails and closes, or sends the old password; `SendDump` writes
the command, and `ReadDumpReply` takes an OK or EOF packet for a dump that began and
fails on an error, without closing anything. `MissGreeting`,
`MissReply` and `MissDumpReply` are the same with a connection that has gone: the results of
the reads are ignored, so header, flags and pointers are what the stack and the
heap held. `fds` are the process's open sockets, `leaks` counts those that
nobody has any more. The master's actions are external: it greets, checks the
packet's number and the token against the hash it stores (with SHA-1 as the
standard states it, on the whole message, where the code works block by block),
asks an account with an old password for the old token, answers, checks
the command's number, and answers the dump with its first event (which is read as
OK), with an EOF packet or with an error. A refused command is one whose number is
wrong, or any other: a log that is not there, a user without the privilege.

`Handshake` has the exclusive or of two numbers as a constant, `XorOf`, so that
`Connect` can be proved about; `MCConnect` gives it the bitwise one.

In `UrlParse` a URL is a sequence of bytes, the flags `s_user` .. `s_file` are the
set `open`, and a field ends at the first separator that was overwritten with 0
(`cuts`).

`EventParse` has one action per call: `ParseFDE`, `ParseTableMap`, the head of
`parseRowsEvent` with its assertions (`ParseRowsHead`), one round of its loop
(`DecodeRow`), its end (`RowsParsed`), then `SetRowsEventBuffer`, `FreeBinlogRow`,
`RowsevFreeRows` and `FreeBinlogClient` for what becomes of the memory. `ev` is
the event, byte by byte, as `MasterEvent` writes it; `cur` the cursor; `heap`
counts blocks by what they hold. A read behind the event's end gives `Behind`.
The text of a date is the sequence of its numbers.

`Decimal` keeps the code's words: `DIG_PER_DEC1` digits each (9 in the code, a
constant here so that small instances have several words), the widths of whole
and partial words, the sign by complement, and the cases in which a number does
not fit.

An event of `BinlogLog` carries two annotations the code never sees: its true byte offset
(`start`) and the number of rows between its table map and itself (`base`).
They are what the computed `position` and `index` are compared with.

## 3. Runs

| Run | Checks | Shows |
|---|---|---|
| `client_resume` | `TypeOK`, `BufferFits`, `Ownership`, `CheckpointRight`, `ExactlyOnce`, `LossEndsFetch`, `AllDelivered` | MySQL source, logs `OneFile`, `TwoFiles`, `Wrapped`; two crashes or early closes, two lost or refused connections; first start any event and index that exist; under fairness |
| `client_anystart` | `ImpossibleIndexReported`, `TableOfRow` | starts that do not exist: any event, any index up to the bound, on the one-file logs and on `Stacked` (a statement over two tables) |
| `client_file` | `CheckpointRight`, `ExactlyOnce` | file source, an application without checkpoints (`bldump`), the file still growing |
| `net_source` | `TypeOK`, `BufferDiscipline`, `EndsForReason`, `InOrder`, `LossEndsRead`, `ArrivedIsHanded` | the MySQL driver on all streams of up to three packets, long and short events, an error or EOF packet at the end, closed or reset at every byte; under fairness |
| `file_source` | `TypeOK`, `BufferDiscipline`, `PathOpened`, `InOrder`, `WholeIsHanded` | the file driver on all files of up to three events, written while they are read, whole or in parts, ended at any byte; three settings of library and master; under fairness |
| `connect` | `TypeOK`, `UrlFields`, `AuthRight`, `InSequence`, `ConnectedIsAccepted`, `SocketsAccounted`, `ConnectEnds` | two calls of `connectDataSource`, URLs with and without password and port, right and wrong, accounts with new, old and no password, greetings of every length, the dump served, ended at once or refused, the connection lost anywhere; under fairness |
| `parse_rows` | `TypeOK`, `ArraysFit`, `TableAsWritten`, `LengthsDecoded`, `CursorOnRow`, `RowsAsWritten`, `HeapExact` | eight tables that between them have every field type, both widths of each prefix, one and two bytes of bitmap, and one whose images leave columns out; inserts, updates and deletes of one or two rows |
| `decimal_cell` | `TypeOK`, `NothingLostSilently`, `TextIsNumber` | all numbers of up to five digits out of 0, 4, 9, both signs, each split at the point, unpacked into buffers that are too short and long enough |
| `index_two_files`, `stacked_table_maps`, `torn_event`, `set_cell` | one property each, violated | the findings of section 6 |

`CHECK_DEADLOCK FALSE` in all of them: the client blocks in `read` when the
master has nothing more to say, a failed assertion ends the process, and the
bounds on restarts and losses run out; a file that was read to its end, a
client that is connected and a cell that is printed have nothing left to do.

**Bounds and why they are enough.** `MaxRestarts` and `MaxLosses` bound
crashes and lost connections; a second one after a resume from a *saved*
checkpoint is what distinguishes a right checkpoint from a lucky one, a third
repeats the second. The logs are chosen for the shapes the code tells apart:
several rows events per table map (index runs over events), rows events that
shrink and grow again (the buffer), updates (two images), a rotation between
groups, an ignored event, two groups for the same table, and a table map that ends past
the largest position (`Wrapped`). `PosMod = 1000` stands for 2^32: only the wrap
matters. In `client_anystart`, `MaxIndex` exceeds the largest group by one, so that
indexes past the end of every group occur; `MaxStart` limits the positions asked for at first.
In `net_source`, bytes have three values (`Base`), so that a packet of length 10
needs all three bytes of its header and a header cut short yields a smaller
length; `IntMax` 27 is the largest `int32_t`, one more than three such bytes hold;
`BufSize` 8 separates the two event sizes. Three packets give what is
taken for the reply and two events (long after short, short after long), or one
and an end; each packet is read by the same code, and `NetSourceProofs` has the
safety properties for streams of any length.
In `file_source`, headers have two bytes and the buffer four, so that lengths 2, 3
and 6 give an empty body, one that fits and one that needs a buffer of its own;
three events give long, short, long. The paths are a plain name, a relative one
with directories, an absolute one and one with a colon.
In `connect`, a block of the hash has 8 bytes, a counter one and a hash 12 (64, 4
and 20 in the code), so that messages end within a block, at its end, and so
near to it that the padding takes a block of its own, and one is long enough to
carry into the counter's upper half; a small mixing function stands for the
block function. Two calls are needed to see what a failed one leaves
open. `MaxName` 3 makes log names of three bytes too long.
In `parse_rows`, `InitRows` 1 (8 in the code) makes two rows enough for the arrays
to grow. Values are chosen for their bytes: signs, high and low ends, zeroes in
front. In `decimal_cell`, words of two digits (9 in the code) make five digits
span three words with partial ones at both ends; `Lens` are buffers of 1, 2 and 3
words, and the 128 the library uses.
What needs larger instances is proved (section 5).

## 4. Assumptions and fairness

**Of the master** (`WellFormed`): a rows event has rows; no rotation comes
between a table map and its rows; a file begins with a format description at
offset 4; no two events share an offset of a file; a table map starts below
2^32 (it may end above). After `COM_BINLOG_DUMP` it sends an artificial rotate
event, then, for a start behind offset 4, an artificial format description.
Events carry no checksum (`binlog_checksum=NONE`): the code reads none.
A packet is shorter than 16 MiB, an event's body and an error's message are
not empty, an EOF packet has fewer than 8 bytes behind its marker
(`BodiesAssumption`), and nothing follows an error or EOF packet but the close
of the connection. Memory can be allocated for a packet of a real length.
A reading from a position that is no event's start does not happen: a master
answers that with an error packet.

**Of the application**: it frees a row before it fetches the next, as
`bldump.c` and `binlog.py` do, and saves only while it holds a row.

**Of the process**: no signal interrupts a `read`, so that `anetRead` returns -1 only
when the connection was reset (`NetSource`). With a handler that does not restart system
calls `read` fails with `EINTR` while the connection stands, and `anetRead`, which
does not try again (`anet.c:237`), returns -1 in the middle of a packet; that case is not
modelled.

**Of the master's login** (`Connect`): it greets with a packet numbered 0 and
expects the next number of each packet, 0 with a command; accounts have a new
(SHA-1) or old password, or none; what is on its way arrives whole or not at all
(cuts within packets are in `NetSource`).

**Of the tables** (`EventParse`): `TablesAssumption` says `TableOK`, which
`MasterEvent` defines: 1 to 4096 columns (`MostFields`) of the types a master
up to 5.5 sends, with what their declarations allow (`ColumnOK`, `LenLimits`) and the
values they can hold (`ValueOK`). It leaves out GEOMETRY and negative TIME values,
which the library misreads (section 6). The year 0000 is in, and `YearShown` says
what the library makes of it. The number of event types a format
description lists is a byte (`PosthdrsAssumption`).

**Of the rows** (`EventParse`): an event is at most 1 GiB long (`MaxPacket`, the
largest `max_allowed_packet`), so that no cursor leaves an `int`; images leave
columns out only in a table of up to eight columns without NULLs
(`PartialAssumption`), and are never empty.

**Of DECIMAL values** (`DecimalsRead`): each, alone, is read as it was written.
This is no property of the tables but of the library, so it is the hypothesis
of two theorems and not an assumption of the module; TLC evaluates it for the
tables of `parse_rows` (`DecimalsAssumption` of `MCEventParse`), and the run
`decimal_cell` is about it.

**Of a file's URL** (`FileSource`): `PathOpened` is stated of relative paths without a
colon (`Plain`). `libbinlog.h:36` documents `file://path-to-binlog`; behind a
further colon the parser begins again, and of an absolute path it drops the slash.

**Of a MySQL URL** (`Connect`, `UrlsAssumption`): each field is made of any bytes
but 0 and the separators `parseMySQLUrl` stops at there (`Text`): `:` and `@` in a
user's name and a password, `:` and `/` in a host, `/` in a log's name. A password
or a port may be missing; a port that is written has two digits. A URL has
no way to quote a separator, so what the parser finds behind one is no promise of
the library. TLC checks the assumption for the URLs of `connect`.

**Fairness** (`FairSpec` of each module). `BinlogClient`: weak fairness of the
library (`LibraryStep`: a call that can go on does, there is no scheduler to
withhold it), of the master's writing (it writes the rest of its log), and of
the application's loop (`AppStep`: call `fetchOne`, free the row, and after
NULL close and connect again). Nothing is assumed of `SaveCheckpoint`: an
application may never save, and then it starts over from its first checkpoint.
`NetSource`: weak fairness of the driver with its client's loop
(`DriverStep`) and of `MasterCloses`: a dump thread that has sent an error or EOF
packet ends its connection. Nothing is assumed of `ConnLost` there either, and
`MasterSends` is not forced: a master may have nothing to say.
`FileSource`: weak fairness of `DriverStep`, again the driver with its client's
loop; nothing of the master, which may never finish an event, or of
`CloseFile`.
`Connect`: weak fairness of the client's steps, of the master's answers and of
its closing a connection it has refused or whose dump is over; the first two are stated by the control
variable they move (`ClientMoves`, `MasterMoves`), which says the same, as each is
enabled exactly when a step of the client (the master) is. That the master greets, and
answers what it gets while the connection stands, is an assumption about the
master: there is no timeout in the code, and from a master that is silent
`connectDataSource` does not come back. What `ConnectEnds` says is that nothing else
is needed: whatever packet is refused, left out or lost, the two sides never wait
for each other, and a connection that goes ends every read.
In `BinlogClient` there is no fairness of `ConnLost`, `ConnectRefused`, `Crash`,
and all three are bounded: `AllDelivered` would be false of a connection that breaks for ever.

## 5. Proofs

Every theorem holds for every value of the constants that satisfies the named
assumptions of its module, so for logs, streams, files, tables, accounts and
bounds of every size. Each rests on an inductive invariant, proved one action
after the other.

`BinlogClientProofs`:

* `TypeCorrect`, `BufferSafe`, `OwnershipHolds` rest on the inductive invariant
  `IInv == TypeOK /\ PendingOK /\ BufferFits /\ SlotsInOrder /\ Ownership`.
  `PendingOK` (a made-up event still to come is a format description) is needed
  because a made-up rows event would have no number to put in a slot;
  `SlotsInOrder` (slot `k` holds row `k`) makes the images in the buffer
  disjoint, so that freeing one row leaves the others.
* `TableRight` (`TableOfRow`) adds `TableOfBuffer`: the table is right for all
  the rows still in the buffer, since a table map is only read when it is
  empty. It needs the assertion of `parseRowsEvent`; without it
  (mutant `AnyTable`) the property fails.

`ResumeProofs`, for the MySQL source and a first start that exists
(`ValidStartOnly`), and for a file that is read from its first event by an
application that keeps no checkpoints (`FileFromStart`: the driver ignores the
position it is given, section 6, and with one the property would be false):

* `CheckpointHolds` (`CheckpointRight`) and `ImplementsRowStream`
  (`ExactlyOnce`, that is `Stream!Spec`), by the refinement mapping that keeps
  `log`, `last`, `committed` and `handed`: `DeliverRow` is `Deliver`, `SaveCheckpoint`
  is `Commit`, connecting is `Resume`, everything else stutters. `handed` counts what
  `fetchOne` returns within a session, so a row that is handed over again is a
  step, which `Deliver` does not allow: a loop that skips one row too few
  (mutant `SkipsAllButOne`) violates it at the first fetch of a resumed session.
* The inductive invariant is `RInv`: the saved checkpoint denotes the committed
  rows and exists (`SavedInv`), and while the session is alive there is an event
  `s` it started at (`Session`, `SessionOf`) such that the header length is known when
  needed, `logfile` is the file of the next event, the buffer holds the rows of
  the last rows event read, some table map `t` at or behind `s` is in force with
  `index` rows counted since (`TableInv`), and either the rows delivered are
  exactly those read and no longer in the buffer, or `startidx` rows are still
  to be skipped and `t` is `s` (`SkipInv`).
* The arithmetic of a checkpoint is the lemma `PrefixIsSkipped`: the rows up to
  the `c`-th of an event are those that a start at its table map with index
  `base + c` leaves out. `TableMapStartIsStart` says that the 32-bit subtraction
  gives the true start although `nextpos` may have wrapped.
  `SkipBeforeTableMap` says that with a start that exists no second table map
  is read while rows are being skipped.

There, too, for the MySQL source and logs without a rotation (`NeverRotates`; with a
second file the property is false, finding 1 of section 6):

* `ImpossibleIndexIsReported` (`ImpossibleIndexReported`). The invariant
  `StrayInv` follows a session whose start does not exist, from the part of
  `Session` that needs no valid start (`Tracked`): it begins amid rows and fails at
  the first event, or it counts in vain (`CountsInVain`): until the next table
  map `index + startidx` stays the number asked for, which the group does not
  have, and behind it the position has moved, so that the next skipped row ends
  the session. Such a client never reaches `DeliverRow`.

`NetSourceProofs`, for packets of every size, any value of `Base`, and streams of
any length:

* `ImplementsEventSource` (`InOrder`), `BuffersApart` (`BufferDiscipline`) and
  `EndsOnlyForReason` (`EndsForReason`). The refinement maps the events sent to
  the byte ranges of their bodies, so that an event is handed on rightly only
  when the driver read exactly its bytes.
* The inductive invariant `SInv` says that packets lie one behind the other
  (`WireInv`), that the bodies handed on are those of the first packets
  (`GotInv`), and where the driver is (`InStep`): in step with the packet it
  reads, or behind the packet that ends the stream (`Done`), or at the end of a
  broken stream (`Dead`), where reads return nothing whatever was in the locals
  that were never set. `HeapInv` adds that a buffer left behind implies such an
  end, at which a header has length 0 and no further buffer is allocated.
* `TookCases` is `anetRead`'s contract, `PacketIsThere` says that the packet at
  the driver's place is unique, `InPacketFacts` that a body is where its packet
  says.

* `WidthsKept` (`TypeOK`) adds `WidthInv`: a length the driver works with is one that
  three bytes hold, also when only some of them arrive. Behind a header whose read
  failed it is any `int32_t`, and `UnreadAtEnd` says that the connection then has
  nothing more to read, which is why no body is ever taken by such a length.

`FileSourceProofs`, for files of any events, growing between any two reads:

* `FileImplementsSource` (`InOrder`), `BufferLivesWithEvent` (`BufferDiscipline`) and
  `OffsetsKept` (`TypeOK`), from `FInv`: events lie one behind the other
  (`FileInv`), those handed on are the first ones of the file (`GotInv`), the
  driver stands at an event's end, or behind the header of the next (`InStep`),
  unless it is stuck, which is all it can be after a torn event or a NULL
  (`EndInv`). It is stuck when the end of file is sticky, or the master is gone
  and nothing is left to read. This is where `SettingsAssumption` is needed.
* `PathIsOpened` (`PathOpened`), for paths of any length and any bytes.
  `FileScanned` gives `parseFileUrl`'s loop as a function of its rounds;
  `PlainPathFound` follows it: four rounds to the colon of the scheme, where the
  field `path` begins, and one for each byte behind it, none of which is a
  separator. That `opened` is what was parsed is invariant.

`ConnectProofs`, for any number of calls, any accounts, URLs, log names and
greetings, and a connection lost anywhere:

* `SocketsAreAccounted` (`SocketsAccounted`), `PacketsInSequence` (`InSequence`),
  `AcceptedWhenConnected` (`ConnectedIsAccepted`) and `ConnectTypes` (`TypeOK`).
* The invariant `CInv` has, beside `TypeOK`, one conjunct per place of `mconnect`
  that says what the other side can have done meanwhile (`CallInv`: while the
  client waits for the greeting, for the first or the second reply, behind
  them, for the reply to the dump command, after a failure), the wire (`WireInv`: a read finds nothing only on a
  lost connection) and the sockets (`SocketInv`: each call opens one at most,
  and the one in use is not among those left open). `FreeFd` is the lowest free
  descriptor; that there is one is `FreeFdIsFree`, by counting.
* `UrlIsUnderstood` (`UrlFields`), for fields of any length, with or without a
  password and a port. `MySQLScanned` gives `parseMySQLUrl`'s loop as a function
  of the bytes it has passed, `Layout` where each part of a written URL stands,
  `Met` what the scanner meets there. `UserScanned`, `PasswdScanned`,
  `HostScanned`, `PortScanned` and `AllScanned` take it from part to part (the
  bytes of a part are none of those it looks for, `Passes`), and say which field
  begins where and which separators were cut; `FieldIs` that a field ends at the
  first cut behind its beginning. `FieldsFound` puts them together. That `url` and
  `ds` are set by one step and kept by all others is the induction.
* The hash and the exclusive or stay constants there: these results do not
  depend on them.

`EventParseProofs`, for all tables, rows events and numbers of rows and fields:

* `HeapIsExact` (`HeapExact`) and `RowsFitArrays` (`ArraysFit`), from
  `PInv == RowsInv /\ ReaderInv /\ ArraysFit /\ HeapExact`. `RowsInv` says that
  `rows` and `rowsold` are sequences of images (`AreRows`), so that their values can be
  counted, and that no row is taken before the buffer is set; `ReaderInv` that
  the length of a header is 0 until it is known and 19 then.
* The values held are a cardinality; `OneRowMore` adds a row to it, from which
  `RowAppended` (`parseRowsEvent` stores a row) and `RowTaken` (`freeBinlogRow` frees
  one) follow. A new table must differ from no table, or its arrays would count
  as none: `TableParsed`.
* `TablesAreAsWritten` (`TableAsWritten`), `CursorIsOnRow` (`CursorOnRow`),
  `RowsAreAsWritten` (`RowsAsWritten`), `LengthsAreDecoded` (`LengthsDecoded`) and
  `ParserTypeCorrect` (`TypeOK`). The second and third have the hypothesis
  `DecimalsRead`. They rest on
  `ReadInv == PInv /\ TableInv /\ EventInv /\ ProgressInv /\ HeapCounts /\ pc \in PCs`.
  `TableInv` says that the table is the one of the last table map (`TableIs`), `EventInv`
  that while rows are read the event is the one the master wrote and the
  columns in use are those it announced (`HeadRead`), `ProgressInv` that the cursor is on a
  row and the rows read so far are those sent, the last of them half an update
  at times. The properties alone are not inductive: where the cursor will be
  next depends on the metadata and the bitmaps, of which they say nothing.
* `EventRead` and `EventRows` give what `CodecProofs` says of one event as facts about
  a round of the loop; `RowDecoded` is the round, `RowStepped` the step of
  `ProgressInv`.

`CodecProofs`, for every table, every value and every place in an event:

* *Places.* `At(e, c, b)` says that the bytes `b` stand in `e` behind `c`, `After` where they
  end. `AtParts` and `AtWithin` take such a fact apart, `FlatAt` says where each of
  many sequences is when they are put together. What is read is then a matter
  of the bytes read alone, wherever they stand.
* *Numbers.* `LittleRead`, `UintAt` and `LengthRead`: what is written in as many
  bytes as it takes is read back, and a length's first byte tells its width.
  `DivModRead` does so for a DATETIME, a product of eight bytes that is divided
  again, byte by byte. `BitRead` reads a bit of a bitmap.
* *Tables.* `MetadataRead`: `decodeMetadata`'s place in the metadata is where the master
  put those of the field, by the widths of all fields before it. `TableMapRead`
  puts them behind the header, the names and the coded length.
* *Cells.* One lemma for each way of `value2Cell` (`FixedRead`, `MediumRead`,
  `PrefixedRead`, `TimeRead`, `DateRead`, `YearRead`, `MomentRead`, `EnumRead`, `SetRead`,
  `BitCellRead`, `DecimalPlaced`), together `CellRead`: the cursor behind the cell is
  behind its bytes, and but for a SET and the year 0000 the value is the one written.
* *Images.* `NullsRead`: the null bits the parser takes for all columns are those
  of the columns present, which needs `PartialAssumption`. `ImageRead` follows
  `DecodeImage` column by column, `RowRead` reads one row of an event, an update's
  with both images, and `RowsPlaced` says that rows lie one behind the other and
  the last ends with the event.
* Functions defined step by step (`Uint`, `LittleBytes`, `MulAdd`, `decodeMetadata`,
  `DecodeImage`, `FlattenSeq`) are reasoned about without induction over data:
  `StepsExist` of `LeastElement` shows that such a function exists, `Upwards` what
  holds along it.

Only model-checked:

* liveness (`LossEndsFetch`, `AllDelivered`, `LossEndsRead`, `ArrivedIsHanded`,
  `WholeIsHanded`, `ConnectEnds`), which this prover cannot reach;
* `AuthRight`: the token, which depends on the hash;
* everything about `DecimalCell`, digits word by word, and with it `DecimalsRead`.

## 6. Findings

Found by a run:

1. `index_two_files`: the check for an impossible index compares positions and not
   file names, so a table map at the same offset of the next file passes.
2. `stacked_table_maps`: one slot for the current table; a statement that
   changes two tables sends both table maps first, and the assertion of
   `parseRowsEvent` ends the process.
3. `torn_event`: only 0 and -1 count as a lost connection. A connection that
   closes inside a packet leaves a shorter event, which is handed on and parsed.
4. `set_cell`: the value of a SET is copied from the head of the event
   (`logevent.c:368`) and not from the cursor: it is bytes of the timestamp.

Deviations met while modelling, which the models have as the code does and no
run is about:

* *Checkpoint behind NULL*: when the source fails, `_fetchOne` sets `index` to 0
  and leaves `position` at the last table map (`libbinlog.c:149`). An application
  that reads the triple after NULL gets the start of the group, whose rows it
  has seen. `bldump` and the Python binding read it with each row.
* *Start position of a file*: the file driver computes a position and never uses
  it (`filedriver.c:17`); a file is always read from its first event.
* *EOF packets*: for one, `msaferead` sets `isok` to 1 and looks at `iseof` only
  when `isok` is 0 (`mysql.c:160`), so "Read EOF packet" is never reported; the
  packet is read again as an event and the end shows up as a lost connection.
* *Null bits of a table map* are read at the wrong place and length
  (`logevent.c:626`); nothing reads them.
* *Images that leave columns out* are read right only while the bitmaps have the
  same number of bytes and no column is null: the null bits count the columns
  present, the parser takes them for all columns (`logevent.c:711`).
* *GEOMETRY* has metadata and no case in `value2Cell`: the cursor does not move,
  and what follows is read from within it. *A negative TIME* is shown as one of
  1676 hours and more (`logevent.c:266`). *The year 0000*, which is stored as
  byte 0, is shown as 1900 (`logevent.c:326`), which is no year of a YEAR column:
  `RowsAsWritten` asks for 1900 there, and for the year itself of 1901 to 2155. *A two-byte ENUM* is stored with four
  bytes in a block of one (`logevent.c:353`).
* *Closing* frees neither the images of rows not fetched nor the arrays of the
  current table (`libbinlog.c:234`).
* *decimal2string* with a buffer that is too short puts the final 0 where that
  of the whole text would be (`decimal.c:415`); the library's 512 bytes always
  suffice.
* *URLs*: an empty password (`user:@host`) sends a token of 20 bytes, which an
  account without a password refuses; with the form `mysql://host:port/` of
  `src/src/README.md:7` the host becomes the user; the path of `file:///x` is
  `x`, and what `fopen` returns is not looked at (`filedriver.c:57`).
* *Masters before 4.1*: a greeting that ends behind the capacity fails
  `readBinary`'s assertion, so "Imcompatible protocol" (`mysql.c:19`) is not
  reached for it, and a plugin name that was never set is freed. An error in
  place of a greeting is read as protocol 255 and its message lost.
* *Sockets* stay open when `setsockopt` fails, when the greeting is refused, and
  when the dump command cannot be sent, is refused or is never answered
  (`netdriver.c:102`): `connectDataSource` returns a client without a data source
  (`libbinlog.c:214`), and `freeBinlogClient` closes nothing.
* *A partly written file* and a C library that reads on behind the end: the
  driver takes the rest of an event for a header.

## 7. Not modelled, or only in part

* `decimal.c` except for what a DECIMAL cell uses: the library calls no
  arithmetic, rounding or conversion other than `bin2decimal`, `decimal2string`
  and `decimal_bin_size`.
* `SHA1Transform`: eighty rounds without a branch. `Sha1` takes it as a constant
  and has everything around it.
* `anet.c`'s server side, Unix sockets, `anetResolve` and options;
  `vioNetRead`, `vioNetWrite` and the file calls of `vio.c`: the library does not
  call them.
* What the parser makes of a torn event: `EventParse` parses whole events. The
  contents of an OK reply: the code reads and ignores them.
* Header fields no decision depends on, names of databases and tables, rotate
  events' names beyond `BinlogClient`.
* `printCell`, `bldump`'s output, ctypes declarations: formatting.
* The tests, and `src/test/scheme.c`, a copy of the URL parser.
* Images that outlive `freeBinlogClient`: `NewClient` begins with an empty heap
  although the unread rows of a closed client leak until the process ends;
  `Ownership` and `HeapExact` are therefore stated of open clients.

## 8. Plan

What is left to prove, most important first:

1. `TextIsNumber` of `DecimalCell`, for every precision: the words of a number are its
   digits in nines, zeroes in front are dropped by words and then by digits.
   `DecimalsRead` follows, and the hypothesis of `CursorIsOnRow` and
   `RowsAreAsWritten` goes.
2. `AuthRight` of `Connect`, given that the hash of `Sha1`, block by block, is that of the
   whole message.
