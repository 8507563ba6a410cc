----------------------------- MODULE NetSource -----------------------------
(***************************************************************************)
(* The MySQL driver below the client: msendcmd sends COM_BINLOG_DUMP and   *)
(* reads a reply, then each getEventFromServer reads one packet with       *)
(* msaferead, until the master ends the stream or the connection goes.     *)
(*                                                                         *)
(* A packet is 4 bytes of header (3 of length, 1 of number), a marker byte *)
(* and `left' more bytes.  anetRead returns what was asked for, less when  *)
(* the stream is closed, -1 once when it was reset; each call of anetRead  *)
(* is one action, because the connection may change while it waits.        *)
(***************************************************************************)
EXTENDS Integers, Sequences

CONSTANTS
    Bodies,     \* the packets a master may send, [marker, left]
    Base,       \* values of a byte of a header
    IntMax,     \* the largest int32_t
    BufSize,    \* BL_EVENT_BUF_SIZE
    MaxPackets  \* bound: packets the master sends

Markers == {"ok", "err", "eof", "other"}    \* 0, 0xFF, 0xFE and the rest
Plens   == 0 .. Base * Base * Base - 1      \* what a header may hold
Ints    == -IntMax - 1 .. IntMax            \* what an int32_t may hold

ASSUME BaseAssumption   == Base \in Nat \ {0, 1}
ASSUME IntMaxAssumption == IntMax \in Nat /\ Plens \subseteq Ints
ASSUME BodiesAssumption == \A b \in Bodies :
                               /\ b.marker \in {"ok", "err", "eof"}
                               /\ b.left \in Nat /\ b.left + 1 \in Plens
                               /\ b.marker # "eof" => b.left > 0
                               /\ b.marker = "eof" => b.left < 8
ASSUME SizesAssumption  == BufSize \in Nat /\ BufSize >= 8 /\ MaxPackets \in Nat

NoBuf == 0      \* the null pointer

VARIABLES
    wire, bytes, conn,  \* packets written, bytes that will arrive, the connection
    at,                 \* bytes read
    pc, mode,           \* where the driver is, and for whom it reads
    plen, marker, left, \* locals of msaferead and readReplyPkt
    newbuf, heap,       \* driver.net.newbuf, and the buffers on the heap
    cause,              \* errstr, by cause
    got, torn, over     \* history: bodies handed on, one cut short, NULL returned

net   == <<wire, bytes, conn, at>>
pkt   == <<plen, marker, left>>
bufs  == <<newbuf, heap>>
hist  == <<got, torn, over>>
vars  == <<net, pc, mode, pkt, bufs, cause, hist>>

Reading == {"header", "marker", "okpkt", "errpkt", "eofpkt", "body"}
PCs == Reading \union {"send", "ready", "handed", "ended", "refused", "closed", "abort"}

End(p)  == p.start + 5 + p.left
Total   == IF wire = <<>> THEN 0 ELSE End(wire[Len(wire)])
Body(p) == <<p.start + 5, End(p)>>
IsEvent(p) == p.marker = "ok"
StreamEnded == wire # <<>> /\ ~IsEvent(wire[Len(wire)])
-----------------------------------------------------------------------------
(* anetRead(fd, buf, n).  A count below zero is read's EFAULT. *)
ReadyIgnoringClose(n) == bytes - at >= n
ReadyOneLate(n) == bytes - at > n \/ conn # "open"
Ready(n) == bytes - at >= n \/ conn # "open"
Read(n)  == IF n < 0 THEN -1
            ELSE IF bytes - at >= n THEN n ELSE IF conn = "rst" THEN -1 ELSE bytes - at
Took(n)  == /\ at' = IF n < 0 THEN at ELSE IF bytes - at >= n THEN at + n ELSE bytes
            /\ conn' = IF conn = "rst" /\ bytes - at < n THEN "fin" ELSE conn
            /\ UNCHANGED <<wire, bytes>>

\* The packet whose byte n the driver is about to read.
PacketAt(n) == {p \in {wire[i] : i \in DOMAIN wire} : p.start + n = at}

\* readPktHeader: missing bytes count as 0.  After an error it returns before it
\* sets plen, and the callers go on with what their stack held, any int32_t.
PlensThere == IF PacketAt(0) = {} THEN Plens ELSE {p.left + 1 : p \in PacketAt(0)}
FourBytes(n, k) == IF k = 4 THEN n + Base * Base * Base ELSE n
LowBytes(n, k) == IF k = 0 THEN 0 ELSE IF k = 1 THEN n % Base
                  ELSE IF k = 2 THEN n % (Base * Base) ELSE n
PlensRead  == IF Read(4) = -1 THEN Ints ELSE {LowBytes(n, Read(4)) : n \in PlensThere}

\* The marker keeps what was on the stack when nothing was read.
MarkersRead == IF Read(1) = 1 /\ PacketAt(4) # {} THEN {p.marker : p \in PacketAt(4)}
                                                   ELSE Markers

\* left = plen - 1 in size_t, where what is below 0 here is huge.
MarkerCounted(n) == n
BodyLeft(n) == n - 1
IsEof(m, l) == m = "eof" /\ l \in 0 .. 7

\* anetRead on left, for msaferead.  Its count is an int: a huge left is a count
\* below zero or, from the smallest plen, wraps to the largest; nothing is read.
BodyRead == IF left < 0 THEN {-1, 0} ELSE {Read(left)}

\* A body that arrived in full.
Whole == left > 0 /\ Read(left) = left

NewbufKept == newbuf
NoNewbuf == NoBuf
Address == IF 1 \in heap THEN 2 ELSE 1

\* blen < header.plen compares in size_t.  malloc gives room for the length of a
\* packet, none for a huge one, and may or may not for what lies between.
Longer == plen < 0 \/ plen > BufSize
Malloc == IF plen < 0 THEN {NoBuf} ELSE IF plen \in Plens THEN {Address} ELSE {Address, NoBuf}

LostUnlessPlen(n) == n # plen
NothingRead(n) == n = 0
-----------------------------------------------------------------------------
Packet == [marker : {"ok", "err", "eof"}, left : Nat, start : Nat]

\* A length of more than three bytes was never read: the connection has failed
\* and nothing is left on it.
TypeOK ==
    /\ wire \in Seq(Packet)
    /\ bytes \in 0 .. Total
    /\ conn \in {"open", "fin", "rst"}
    /\ at \in 0 .. bytes
    /\ pc \in PCs
    /\ mode \in {"reply", "event"}
    /\ plen \in Ints
    /\ plen \in Plens \/ (conn = "fin" /\ at = bytes)
    /\ marker \in Markers
    /\ left \in -IntMax - 2 .. IntMax - 1
    /\ newbuf \in Nat
    /\ heap \subseteq Nat \ {NoBuf}
    /\ cause \in {"none", "message", "garbage", "eof", "lost", "errno"}
    /\ got \in Seq(Nat \X Nat)
    /\ torn \in BOOLEAN
    /\ over \in BOOLEAN

Init ==
    /\ wire = <<>> /\ bytes = 0 /\ conn = "open" /\ at = 0
    /\ pc = "send" /\ mode = "reply"
    /\ plen = 0 /\ marker \in Markers /\ left = 0
    /\ newbuf = NoBuf /\ heap = {}
    /\ cause = "none"
    /\ got = <<>> /\ torn = FALSE /\ over = FALSE
-----------------------------------------------------------------------------
(* The master and the connection.  An error or an EOF packet is the last. *)
MasterSends ==
    /\ conn = "open" /\ pc # "send"
    /\ Len(wire) < MaxPackets /\ ~StreamEnded
    /\ \E b \in Bodies :
         LET p == [marker |-> b.marker, left |-> b.left, start |-> Total] IN
           wire' = Append(wire, p) /\ bytes' = End(p)
    /\ UNCHANGED <<conn, at, pc, mode, pkt, bufs, cause, hist>>

MasterCloses ==
    /\ conn = "open" /\ StreamEnded
    /\ conn' = "fin"
    /\ UNCHANGED <<wire, bytes, at, pc, mode, pkt, bufs, cause, hist>>

\* What has not been read may arrive or not, cut at any byte.
ConnLost ==
    /\ conn = "open"
    /\ conn' \in {"fin", "rst"}
    /\ bytes' \in at .. bytes
    /\ UNCHANGED <<wire, at, pc, mode, pkt, bufs, cause, hist>>
-----------------------------------------------------------------------------
(* connectMySQL, msendcmd: writing to a connection that is gone fails, or  *)
(* ends the process with SIGPIPE.                                          *)
SendCommand ==
    /\ pc = "send"
    /\ pc' \in IF conn = "open" THEN {"header"} ELSE {"header", "refused", "abort"}
    /\ UNCHANGED <<net, mode, pkt, bufs, cause, hist>>

ReadPktHeader ==
    /\ pc = "header" /\ Ready(4)
    /\ plen' \in PlensRead
    /\ Took(4)
    /\ pc' = "marker"
    /\ UNCHANGED <<mode, marker, left, bufs, cause, hist>>

\* Both readers read the marker and branch on it.  In readReplyPkt, when the
\* read fails isok and iseof are never set; a marker that is none of the
\* three is an error whose message is not set.
AfterMarker(m, l) ==
    IF m = "err" THEN {"errpkt"}
    ELSE IF IsEof(m, l) THEN {"eofpkt"}
    ELSE IF mode = "event" THEN {"body"}
    ELSE IF m = "ok" THEN {"okpkt"} ELSE {"refused", "abort"}

ReadMarker ==
    /\ pc = "marker" /\ Ready(1)
    /\ left' = BodyLeft(plen)
    /\ marker' \in MarkersRead
    /\ Took(1)
    /\ pc' \in IF Read(1) # -1 THEN AfterMarker(marker', left')
               ELSE IF mode = "event" THEN {"ended"} ELSE {"ready", "refused", "abort"}
    /\ over' = (over \/ pc' = "ended")
    /\ UNCHANGED <<mode, plen, bufs, cause, got, torn>>

\* readOkPkt.  Cut short, it leaves the message unset and tryFreeReply frees it.
ReadOkPkt ==
    /\ pc = "okpkt" /\ Ready(left)
    /\ Took(left)
    /\ IF Whole THEN pc' = "ready" /\ got' = Append(got, <<at, at + left>>)
                ELSE pc' \in {"ready", "abort"} /\ UNCHANGED got
    /\ UNCHANGED <<mode, pkt, bufs, cause, torn, over>>

\* readErrorPkt.  Cut short, it leaves the message unset and the caller copies it.
ReadErrorPkt ==
    /\ pc = "errpkt" /\ Ready(left)
    /\ Took(left)
    /\ LET failed == IF mode = "reply" THEN "refused" ELSE "ended" IN
         IF Whole THEN pc' = failed /\ cause' = "message"
                  ELSE pc' \in {failed, "abort"} /\ cause' = "garbage"
    /\ over' = (over \/ pc' = "ended")
    /\ UNCHANGED <<mode, pkt, bufs, got, torn>>

\* readEofPkt.  msaferead looks at iseof only when isok is 0, which an EOF
\* packet does not make it: the body is read again.
ReadEofPkt ==
    /\ pc = "eofpkt" /\ Ready(left)
    /\ Took(left)
    /\ pc' = IF mode = "reply" THEN "ready" ELSE "body"
    /\ UNCHANGED <<mode, pkt, bufs, cause, hist>>

\* The rest of msaferead, and getEventFromServer on its result.
ReadBody ==
    /\ pc = "body" /\ Ready(left)
    /\ Took(left)
    /\ newbuf' \in IF Longer THEN Malloc ELSE {NoNewbuf}
    /\ heap' = heap \union (IF Longer THEN {newbuf'} \ {NoBuf} ELSE {})
    /\ \E n \in BodyRead :
         \/ /\ n = -1
            /\ pc' = "ended" /\ over' = TRUE /\ cause' = "errno"
            /\ UNCHANGED <<got, torn>>
         \/ /\ n # -1 /\ NothingRead(n)
            /\ pc' = "ended" /\ over' = TRUE /\ cause' = "lost"
            /\ UNCHANGED <<got, torn>>
         \/ /\ n # -1 /\ ~NothingRead(n)
            /\ pc' = "handed"
            /\ IF Whole THEN got' = Append(got, <<at, at + left>>) /\ UNCHANGED torn
                        ELSE torn' = TRUE /\ UNCHANGED got
            /\ UNCHANGED <<over, cause>>
    /\ UNCHANGED <<mode, pkt>>
-----------------------------------------------------------------------------
(* The client: dsFreeEvent after each event, dsGetEvent for the next, also *)
(* after a NULL while fetchOne has rows to skip, dsClose at the end.  A    *)
(* client whose dump was refused has no data source, and nothing closes    *)
(* its connection (Connect counts it).                                     *)
FreeEvent ==
    /\ pc = "handed"
    /\ heap' = heap \ {newbuf}
    /\ pc' = "ready"
    /\ UNCHANGED <<net, mode, pkt, newbuf, cause, hist>>

GetEvent ==
    /\ pc \in {"ready", "ended"}
    /\ pc' = "header" /\ mode' = "event"
    /\ UNCHANGED <<net, pkt, bufs, cause, hist>>

CloseMySQL ==
    /\ pc \in {"ready", "ended"}
    /\ pc' = "closed"
    /\ UNCHANGED <<net, mode, pkt, bufs, cause, hist>>
-----------------------------------------------------------------------------
DriverStep == \/ SendCommand \/ ReadPktHeader \/ ReadMarker \/ ReadOkPkt \/ ReadErrorPkt
              \/ ReadEofPkt \/ ReadBody \/ FreeEvent \/ GetEvent

Next == \/ MasterSends \/ MasterCloses \/ ConnLost
        \/ SendCommand \/ ReadPktHeader \/ ReadMarker \/ ReadOkPkt \/ ReadErrorPkt
        \/ ReadEofPkt \/ ReadBody \/ FreeEvent \/ GetEvent \/ CloseMySQL

Spec == Init /\ [][Next]_vars

\* The driver runs on, its client asks for the next event, and a master that
\* has sent an error or an EOF packet closes the connection.
FairSpec == Spec /\ WF_vars(DriverStep) /\ WF_vars(MasterCloses)
-----------------------------------------------------------------------------
(* Properties. *)

\* msendcmd and msaferead: the driver stays in step with the packets, so that
\* what it hands on are the bodies of the events, in order, wherever the stream
\* is cut, and nothing follows a NULL.
Events == IF StreamEnded THEN Len(wire) - 1 ELSE Len(wire)
SentBodies == [i \in 1 .. Events |-> Body(wire[i])]
Source == INSTANCE EventSource WITH sent <- SentBodies
InOrder == Source!Spec

\* msaferead and freeEventFromServer: an event too long for the driver's buffer
\* has one of its own, on the heap exactly while the client holds the event;
\* at most one such buffer is left behind, by a read that failed.
BufferDiscipline ==
    /\ pc = "handed" => heap = {newbuf} \ {NoBuf}
    /\ pc # "handed" /\ ~over => heap = {}
    /\ \A b1, b2 \in heap : b1 = b2

\* getEventFromServer: while the connection stands, NULL means that the master
\* has ended the stream and that the packet saying so was read to its end.
EndsForReason ==
    pc \in {"ended", "refused"} /\ conn = "open" => StreamEnded /\ at = Total

\* anetRead: once the connection is gone no read waits for ever.
LossEndsRead == (conn # "open" /\ pc \in Reading) ~> pc \notin Reading

\* getEventFromServer: an event whose bytes all arrive is handed on in the end,
\* whatever way the connection goes afterwards.
ArrivedIsHanded ==
    \A n \in 1 .. MaxPackets :
        (n <= Len(SentBodies) /\ bytes = Total) ~>
            (n <= Len(got) \/ bytes < Total \/ pc = "closed")

\* getEventFromServer, "Lost connection to master": an event that a lost
\* connection cut short is reported as lost, not handed on.
TornIsLost == ~torn
=============================================================================
