--------------------------- MODULE NetSourceProofs ---------------------------
(***************************************************************************)
(* Proofs about NetSource: it implements EventSource, and it keeps its     *)
(* buffers apart, for packets of every size and streams of every length,   *)
(* cut at every byte.                                                      *)
(***************************************************************************)
EXTENDS NetSource, TLAPS

\* Nothing is left to read: every read returns nothing, or -1 once.
Dead == conn # "open" /\ at = bytes

\* The packet that ends the stream has been read.
Done == StreamEnded /\ at = Total

\* Where packet k + 1 begins.
Start(k) == IF k = 0 THEN 0 ELSE End(wire[k])

Types ==
    /\ wire \in Seq(Packet)
    /\ bytes \in Nat /\ at \in Nat /\ at <= bytes /\ bytes <= Total
    /\ conn \in {"open", "fin", "rst"} /\ (conn = "open" => bytes = Total)
    /\ pc \in PCs /\ mode \in {"reply", "event"}
    /\ plen \in Int /\ left \in Int /\ marker \in Markers
    /\ got \in Seq(Nat \X Nat) /\ torn \in BOOLEAN /\ over \in BOOLEAN
    /\ newbuf \in Nat /\ heap \subseteq Nat \ {NoBuf}

\* Packets lie one behind the other, and only the last is no event.
WireInv ==
    /\ \A i \in 1 .. Len(wire) : wire[i].start = Start(i - 1)
    /\ \A i, j \in 1 .. Len(wire) : i < j => End(wire[i]) <= wire[j].start
    /\ \A i \in 1 .. Len(wire) - 1 : IsEvent(wire[i])
    /\ \A i \in 1 .. Len(wire) : /\ IsEvent(wire[i]) => wire[i].left > 0
                                 /\ wire[i].marker = "eof" => wire[i].left < 8

\* The bodies handed on are those of the first packets.
GotInv ==
    /\ Len(got) <= Events
    /\ \A i \in 1 .. Len(got) : got[i] = Body(wire[i])

\* Where the driver is in the stream.
Packets == {"okpkt", "errpkt", "eofpkt", "body"}
MarkerOf == [p \in Packets |-> CASE p = "okpkt" -> "ok" [] p = "errpkt" -> "err"
                                 [] p = "eofpkt" -> "eof" [] p = "body" -> "ok"]
InPacket ==
    /\ pc \in Packets /\ Len(got) < Len(wire)
    /\ at = Start(Len(got)) + 5
    /\ left = wire[Len(got) + 1].left
    /\ wire[Len(got) + 1].marker = MarkerOf[pc]
InStep ==
    \/ Dead
    \/ Done /\ pc \notin {"send", "marker", "okpkt", "errpkt", "eofpkt", "handed"}
            /\ (pc = "body" => left >= 0)
    \/ pc \in {"closed", "abort"} \/ (pc = "refused" /\ conn # "open")
    \/ pc = "send" /\ wire = <<>> /\ got = <<>> /\ at = 0
    \/ pc \in {"header", "ready", "handed"} /\ at = Start(Len(got))
    \/ /\ pc = "marker" /\ Len(got) < Len(wire)
       /\ at = Start(Len(got)) + 4
       /\ plen = wire[Len(got) + 1].left + 1
    \/ InPacket

\* After a torn event or a NULL nothing more can be handed on.
EndInv == /\ torn => Dead
          /\ over => (Dead \/ Done) /\ pc # "handed"
          /\ pc = "ended" => over

SInv == Types /\ WireInv /\ GotInv /\ InStep /\ EndInv

\* A buffer left behind is the only one: the stream is at its end, and a
\* header read there has length 0.
HeapInv ==
    /\ pc \in Packets => left = plen - 1
    /\ pc = "handed" => heap = {newbuf} \ {NoBuf}
    /\ pc # "handed" /\ heap # {} =>
         /\ over /\ conn = "fin" /\ at = bytes
         /\ pc \in Packets \union {"marker"} => plen = 0
    /\ \A b1, b2 \in heap : b1 = b2
-----------------------------------------------------------------------------
\* anetRead returns in full and takes what it read, or it meets the end of the
\* stream and nothing is left; asked for a negative number it does nothing.
LEMMA TookCases ==
    ASSUME bytes \in Nat, at \in Nat, at <= bytes, conn \in {"open", "fin", "rst"},
           NEW n \in Int, Ready(n), Took(n)
    PROVE  /\ wire' = wire /\ bytes' = bytes
           /\ \/ /\ n >= 0 /\ at' = at + n /\ at' <= bytes /\ conn' = conn
                 /\ Read(n) = n /\ bytes - at >= n
              \/ /\ n >= 0 /\ conn # "open" /\ bytes - at < n
                 /\ at' = bytes /\ conn' = "fin"
                 /\ Read(n) \in {-1, bytes - at} /\ Read(n) < n
                 /\ (conn = "fin" => Read(n) = bytes - at)
              \/ n < 0 /\ at' = at /\ conn' = conn /\ Read(n) = -1
BY DEF Ready, Took, Read

\* One more body handed on.
LEMMA AppendFacts ==
    ASSUME NEW s \in Seq(Nat \X Nat), NEW e \in Nat \X Nat
    PROVE  /\ Append(s, e) \in Seq(Nat \X Nat)
           /\ Len(Append(s, e)) = Len(s) + 1
           /\ Append(s, e)[Len(s) + 1] = e
           /\ \A i \in 1 .. Len(s) : Append(s, e)[i] = s[i]
OBVIOUS

\* The fields of the packets on the wire.
LEMMA WireFields ==
    ASSUME wire \in Seq(Packet)
    PROVE  /\ \A i \in 1 .. Len(wire) : /\ wire[i].start \in Nat /\ wire[i].left \in Nat
                                         /\ wire[i].marker \in {"ok", "err", "eof"}
                                         /\ End(wire[i]) \in Nat
                                         /\ End(wire[i]) = wire[i].start + 5 + wire[i].left
           /\ Total \in Nat
           /\ Len(wire) \in Nat
           /\ Len(wire) = 0 => Total = 0
           /\ Len(wire) > 0 => Total = End(wire[Len(wire)])
<1>1. Len(wire) \in Nat OBVIOUS
<1>2. \A i \in 1 .. Len(wire) : /\ wire[i].start \in Nat /\ wire[i].left \in Nat
                                /\ wire[i].marker \in {"ok", "err", "eof"}
  <2>1. \A i \in 1 .. Len(wire) : wire[i] \in Packet
    OBVIOUS
  <2>2. \A p \in Packet : /\ p.start \in Nat /\ p.left \in Nat
                          /\ p.marker \in {"ok", "err", "eof"}
    BY DEF Packet
  <2> QED BY <2>1, <2>2
<1>3. wire = <<>> <=> Len(wire) = 0
  OBVIOUS
<1> QED BY <1>1, <1>2, <1>3 DEF End, Total

\* Packet k + 1 is the only one whose byte n may lie at `at'.
LEMMA PacketIsThere ==
    ASSUME Types, WireInv, NEW k \in Nat, k < Len(wire), NEW n \in Nat, at = Start(k) + n
    PROVE  PacketAt(n) = {wire[k + 1]}
<1>1. /\ wire \in Seq(Packet)
      /\ \A i \in 1 .. Len(wire) : wire[i].start = Start(i - 1)
      /\ \A i, j \in 1 .. Len(wire) : i < j => End(wire[i]) <= wire[j].start
  BY DEF Types, WireInv
<1>2. k + 1 \in 1 .. Len(wire) /\ wire[k + 1].start = Start(k)
  BY <1>1, WireFields
<1>3. wire[k + 1].start + n = at
  BY <1>1, <1>2, WireFields
<1>4. ASSUME NEW i \in 1 .. Len(wire), wire[i].start + n = at
      PROVE  i = k + 1
  <2>1. /\ wire[i].start \in Nat /\ wire[k + 1].start \in Nat
        /\ End(wire[i]) > wire[i].start /\ End(wire[k + 1]) > wire[k + 1].start
    <3>1. ASSUME NEW j \in 1 .. Len(wire)
          PROVE  wire[j].start \in Nat /\ End(wire[j]) > wire[j].start
      <4>1. /\ wire[j].start \in Nat /\ wire[j].left \in Nat
            /\ End(wire[j]) = wire[j].start + 5 + wire[j].left
        BY <1>1, WireFields
      <4> QED BY <4>1
    <3> QED BY <1>2, <3>1
  <2>2. wire[i].start = wire[k + 1].start
    BY <1>3, <1>4, <2>1
  <2>3. ~(i < k + 1) /\ ~(k + 1 < i)
    <3>1. /\ End(wire[i]) \in Nat /\ End(wire[k + 1]) \in Nat
      BY <1>1, <1>2, WireFields
    <3>2. i < k + 1 => End(wire[i]) <= wire[k + 1].start
      BY <1>1, <1>2
    <3>3. k + 1 < i => End(wire[k + 1]) <= wire[i].start
      BY <1>1, <1>2
    <3> QED BY <2>1, <2>2, <3>1, <3>2, <3>3
  <2> QED BY <2>3
<1>5. DOMAIN wire = 1 .. Len(wire)
  BY <1>1
<1> QED BY <1>2, <1>3, <1>4, <1>5 DEF PacketAt

\* Nothing is read at the end of the stream, and the end is for good.
LEMMA DeadReads ==
    ASSUME Types, Dead, NEW n \in Int, Ready(n), Took(n)
    PROVE  /\ Dead' /\ wire' = wire /\ bytes' = bytes /\ at' = at
           /\ Read(n) \in {-1, 0}
           /\ n > 0 => Read(n) # n
           /\ conn = "fin" => conn' = "fin" /\ (n >= 0 => Read(n) = 0)
BY TookCases DEF Types, Dead

\* Behind the packet that ends the stream a read waits for the connection to go.
LEMMA DoneReads ==
    ASSUME Types, Done, NEW n \in Int, n > 0, Ready(n)
    PROVE  Dead
BY WireFields DEF Types, Done, Dead, Ready

\* Reading leaves what the master has sent.
LEMMA WireStays ==
    ASSUME wire' = wire
    PROVE  /\ StreamEnded' = StreamEnded /\ Total' = Total
           /\ Events' = Events /\ SentBodies' = SentBodies
           /\ WireInv' = WireInv
           /\ \A k : Start(k)' = Start(k)
BY DEF StreamEnded, Total, Events, SentBodies, WireInv, Start, End, Body, IsEvent

\* A header read in full holds the length of the packet there.
LEMMA PlensReadType ==
    ASSUME Types, Read(4) \in Int, Read(4) >= -1
    PROVE  /\ PlensRead \subseteq Int
           /\ Read(4) = 0 => PlensRead \subseteq {0}
           /\ Read(4) = 4 => PlensRead \subseteq PlensThere
<1>1. Base \in Nat /\ Base > 1
  BY BaseAssumption
<1>2. Base * Base \in Nat /\ Base * Base > 0
  BY <1>1
<1>3. Base * Base * Base \in Nat
  BY <1>1, <1>2
<1>4. Plens \subseteq Nat /\ Ints \subseteq Int
  BY <1>3, IntMaxAssumption DEF Plens, Ints
<1>5. PlensThere \subseteq Nat
  <2>1. ASSUME NEW p \in PacketAt(0) PROVE p.left + 1 \in Nat
    <3>1. PICK i \in DOMAIN wire : p = wire[i]
      BY <2>1 DEF PacketAt
    <3>2. wire \in Seq(Packet) /\ DOMAIN wire = 1 .. Len(wire)
      BY DEF Types
    <3> QED BY <3>1, <3>2, WireFields
  <2> QED BY <2>1, <1>4 DEF PlensThere
<1>6. ASSUME NEW n \in Nat
      PROVE  LowBytes(n, Read(4)) \in Nat /\ (Read(4) = 4 => LowBytes(n, Read(4)) = n)
             /\ (Read(4) = 0 => LowBytes(n, Read(4)) = 0)
  <2>1. n % Base \in Nat BY <1>1
  <2>2. n % (Base * Base) \in Nat BY <1>2
  <2> QED BY <2>1, <2>2 DEF LowBytes
<1>7. CASE Read(4) = -1
  BY <1>4, <1>7 DEF PlensRead
<1>8. CASE Read(4) # -1
  <2>1. PlensRead = {LowBytes(n, Read(4)) : n \in PlensThere}
    BY <1>8 DEF PlensRead
  <2> QED BY <1>5, <1>6, <1>8, <2>1
<1> QED BY <1>7, <1>8

-----------------------------------------------------------------------------
\* A step of the abstract source, or none.
SourceStep == [Source!Next]_<<SentBodies, got, torn, over>>

\* The master's packet extends the wire, and Send is the abstract step.
LEMMA MasterSendsStep ==
    ASSUME SInv, MasterSends
    PROVE  SInv' /\ SourceStep
<1> DEFINE n == Len(wire)
<1>1. /\ wire \in Seq(Packet) /\ n \in Nat /\ Total \in Nat
      /\ \A i \in 1 .. n : /\ wire[i].start \in Nat /\ wire[i].left \in Nat
                           /\ End(wire[i]) \in Nat
                           /\ End(wire[i]) = wire[i].start + 5 + wire[i].left
      /\ n = 0 => Total = 0
      /\ n > 0 => Total = End(wire[n])
  <2>1. wire \in Seq(Packet) BY DEF SInv, Types
  <2> QED BY <2>1, WireFields
<1>2. PICK b \in Bodies :
        /\ wire' = Append(wire, [marker |-> b.marker, left |-> b.left, start |-> Total])
        /\ bytes' = End([marker |-> b.marker, left |-> b.left, start |-> Total])
  BY DEF MasterSends
<1> DEFINE p == [marker |-> b.marker, left |-> b.left, start |-> Total]
<1>3. /\ b.marker \in {"ok", "err", "eof"} /\ b.left \in Nat
      /\ b.marker # "eof" => b.left > 0
      /\ b.marker = "eof" => b.left < 8
  BY BodiesAssumption
<1>4. p \in Packet /\ End(p) = Total + 5 + b.left /\ End(p) \in Nat
  BY <1>1, <1>3 DEF Packet, End
<1>5. /\ wire' \in Seq(Packet) /\ Len(wire') = n + 1 /\ wire'[n + 1] = p
      /\ \A i \in 1 .. n : wire'[i] = wire[i]
      /\ wire' # <<>>
  BY <1>1, <1>2, <1>4
<1>6. /\ conn = "open" /\ pc # "send" /\ ~StreamEnded /\ bytes = Total
      /\ UNCHANGED <<conn, at, pc, mode, pkt, bufs, cause, hist>>
  BY DEF MasterSends, SInv, Types
<1>7. /\ Total' = End(p) /\ bytes' = Total' /\ Total <= Total'
  <2>1. Total' = End(p) BY <1>1, <1>5 DEF Total, End
  <2>2. Total <= End(p) BY <1>1, <1>3, <1>4
  <2> QED BY <1>2, <2>1, <2>2
<1>8. ~Dead /\ ~Done /\ ~torn /\ ~over /\ pc # "ended"
  BY <1>6 DEF Dead, Done, SInv, EndInv
<1>9. /\ Events = n
      /\ IsEvent(p) => Events' = n + 1 /\ ~StreamEnded'
      /\ ~IsEvent(p) => Events' = n /\ StreamEnded'
  BY <1>1, <1>5, <1>6 DEF Events, StreamEnded, IsEvent
<1>10. \A k \in 0 .. n : Start(k)' = Start(k)
  BY <1>5 DEF Start, End
<1>11. Types'
  BY <1>5, <1>6, <1>7, <1>1, <1>4 DEF SInv, Types, pkt, bufs, hist
<1>12. WireInv'
  <2>1. ASSUME NEW i \in 1 .. n + 1
        PROVE  (wire[i].start = Start(i - 1))'
    <3>1. CASE i \in 1 .. n
      <4>1. wire'[i] = wire[i] /\ wire[i].start = Start(i - 1)
        BY <1>1, <1>5, <3>1 DEF SInv, WireInv
      <4>2. i - 1 \in 0 .. n
        BY <1>1, <3>1
      <4>3. Start(i - 1)' = Start(i - 1)
        BY <1>10, <4>2
      <4> QED BY <4>1, <4>3
    <3>2. CASE i = n + 1
      <4>1. Start(n) = Total
        BY <1>1 DEF Start
      <4>2. (Start(i - 1))' = Total
        BY <1>1, <1>10, <3>2, <4>1
      <4> QED BY <1>5, <3>2, <4>2
    <3> QED BY <1>1, <3>1, <3>2
  <2>2. ASSUME NEW i \in 1 .. n + 1, NEW j \in 1 .. n + 1, i < j
        PROVE  End(wire'[i]) <= wire'[j].start
    <3>1. i \in 1 .. n /\ wire'[i] = wire[i]
      BY <1>1, <1>5, <2>2
    <3>2. CASE j \in 1 .. n
      BY <1>5, <2>2, <3>1, <3>2 DEF SInv, WireInv
    <3>3. CASE j = n + 1
      <4>1. wire'[j].start = Total
        BY <1>5, <3>3
      <4>2. End(wire[i]) <= Total
        <5>1. CASE i = n BY <1>1, <3>1, <5>1
        <5>2. CASE i < n
          <6>1. End(wire[i]) <= wire[n].start
            BY <1>1, <3>1, <5>2 DEF SInv, WireInv
          <6> QED BY <1>1, <3>1, <5>2, <6>1
        <5> QED BY <1>1, <3>1, <5>1, <5>2
      <4> QED BY <3>1, <4>1, <4>2
    <3> QED BY <1>1, <3>2, <3>3
  <2>3. ASSUME NEW i \in 1 .. n
        PROVE  IsEvent(wire'[i])
    <3>1. CASE i = n BY <1>1, <1>5, <1>6, <3>1 DEF StreamEnded
    <3>2. CASE i \in 1 .. n - 1 BY <1>5, <3>2 DEF SInv, WireInv
    <3> QED BY <1>1, <3>1, <3>2
  <2>4. ASSUME NEW i \in 1 .. n + 1
        PROVE  /\ IsEvent(wire'[i]) => wire'[i].left > 0
               /\ wire'[i].marker = "eof" => wire'[i].left < 8
    <3>1. CASE i \in 1 .. n BY <1>5, <3>1 DEF SInv, WireInv
    <3>2. CASE i = n + 1 BY <1>3, <1>5, <3>2 DEF IsEvent
    <3> QED BY <1>1, <3>1, <3>2
  <2> QED BY <1>1, <1>5, <2>1, <2>2, <2>3, <2>4 DEF WireInv, End, IsEvent
<1>13. Len(got) \in Nat /\ Len(got) <= n /\ got' = got
  BY <1>6, <1>9 DEF SInv, Types, GotInv, hist
<1>14. GotInv'
  BY <1>1, <1>5, <1>9, <1>13 DEF SInv, GotInv, Body, End
<1>15. InStep'
  <2>1. Start(Len(got))' = Start(Len(got))
    BY <1>1, <1>10, <1>13
  <2>2. Len(got) < n => wire'[Len(got) + 1] = wire[Len(got) + 1]
    BY <1>1, <1>5, <1>13
  <2> QED BY <1>1, <1>5, <1>6, <1>8, <1>13, <2>1, <2>2 DEF SInv, InStep, InPacket, pkt, hist
<1>16. EndInv'
  BY <1>6, <1>8 DEF EndInv, hist
<1>17. SourceStep
  <2>1. \A i \in 1 .. n : SentBodies'[i] = SentBodies[i]
    BY <1>1, <1>5, <1>9 DEF SentBodies, Body, End
  <2>2. CASE IsEvent(p)
    <3>1. Len(SentBodies) = n
      BY <1>1, <1>9 DEF SentBodies
    <3>2. Len(SentBodies') = n + 1
      BY <1>1, <1>9, <2>2 DEF SentBodies
    <3>3. Source!Send
      BY <1>6, <2>1, <3>1, <3>2 DEF Source!Send, hist
    <3> QED BY <3>3 DEF SourceStep, Source!Next
  <2>3. CASE ~IsEvent(p)
    <3>1. SentBodies' = SentBodies
      BY <1>1, <1>5, <1>9, <2>3 DEF SentBodies, Body, End
    <3> QED BY <1>6, <3>1 DEF SourceStep, hist
  <2> QED BY <2>2, <2>3
<1> QED BY <1>11, <1>12, <1>14, <1>15, <1>16, <1>17 DEF SInv

\* The connection goes.
LEMMA ConnectionStep ==
    ASSUME SInv, MasterCloses \/ ConnLost
    PROVE  SInv' /\ SourceStep
<1>1. /\ conn = "open" /\ conn' \in {"fin", "rst"}
      /\ bytes' \in Nat /\ at <= bytes' /\ bytes' <= bytes
      /\ UNCHANGED <<wire, at, pc, mode, pkt, bufs, cause, hist>>
  BY DEF MasterCloses, ConnLost, SInv, Types
<1>2. UNCHANGED <<plen, marker, left, newbuf, heap, got, torn, over>>
  BY <1>1 DEF pkt, bufs, hist
<1>3. /\ StreamEnded' = StreamEnded /\ Total' = Total /\ Events' = Events
      /\ SentBodies' = SentBodies /\ WireInv' = WireInv
      /\ \A k : Start(k)' = Start(k)
  BY <1>1, WireStays
<1>4. Total \in Nat
  BY WireFields DEF SInv, Types
<1>5. Types'
  BY <1>1, <1>2, <1>3, <1>4 DEF SInv, Types
<1>6. ~Dead /\ (Done => Done')
  BY <1>1, <1>3 DEF Dead, Done
<1>7. GotInv' /\ InStep' /\ EndInv'
  BY <1>1, <1>2, <1>3, <1>6 DEF SInv, GotInv, InStep, InPacket, EndInv
<1> QED BY <1>2, <1>3, <1>5, <1>7 DEF SInv, SourceStep

\* The steps that read nothing.
LEMMA QuietStep ==
    ASSUME SInv, SendCommand \/ FreeEvent \/ GetEvent \/ CloseMySQL
    PROVE  SInv' /\ SourceStep
<1>1. UNCHANGED <<wire, bytes, conn, at, plen, marker, left, got, torn, over>>
  BY DEF SendCommand, FreeEvent, GetEvent, CloseMySQL, net, pkt, bufs, hist
<1>2. /\ StreamEnded' = StreamEnded /\ Total' = Total /\ Events' = Events
      /\ SentBodies' = SentBodies /\ WireInv' = WireInv
      /\ \A k : Start(k)' = Start(k)
  BY <1>1, WireStays
<1>3. Types'
  <2>1. pc' \in PCs /\ mode' \in {"reply", "event"}
    BY DEF SendCommand, FreeEvent, GetEvent, CloseMySQL, SInv, Types, PCs, Reading
  <2>2. newbuf' \in Nat /\ heap' \subseteq Nat \ {NoBuf}
    BY DEF SendCommand, FreeEvent, GetEvent, CloseMySQL, SInv, Types, bufs
  <2> QED BY <1>1, <1>2, <2>1, <2>2 DEF SInv, Types
<1>4. (Dead => Dead') /\ (Done => Done')
  BY <1>1, <1>2 DEF Dead, Done
<1>5. GotInv'
  BY <1>1, <1>2 DEF SInv, GotInv
<1>6. /\ pc' \notin Packets \union {"marker", "send", "handed", "ended"}
      /\ pc \in {"send", "ready", "handed", "ended"}
      /\ pc = "send" => /\ pc' \in {"header", "refused", "abort"}
                        /\ pc' = "refused" => conn' # "open"
      /\ pc \in {"ready", "handed"} => pc' \in {"ready", "header", "closed"}
  BY DEF SendCommand, FreeEvent, GetEvent, CloseMySQL, Packets, net
<1>7. EndInv'
  BY <1>1, <1>4, <1>6 DEF SInv, EndInv
<1>8. pc' \in {"ready", "header", "closed", "refused", "abort"}
  BY DEF SendCommand, FreeEvent, GetEvent, CloseMySQL
<1>9. InStep'
  <2>1. CASE Dead BY <1>4, <2>1 DEF InStep
  <2>2. CASE Done
    BY <1>4, <1>6, <1>8, <2>2 DEF InStep, Packets
  <2>3. CASE ~Dead /\ ~Done
    <3>1. pc # "ended"
      BY <2>3 DEF SInv, EndInv
    <3>2. CASE pc = "send"
      <4>1. got = <<>> /\ at = 0 /\ wire = <<>>
        BY <2>3, <3>2 DEF SInv, InStep, InPacket, Packets
      <4>2. Len(got') = 0 /\ at' = 0
        BY <1>1, <4>1
      <4>3. (at = Start(Len(got)))'
        BY <4>2 DEF Start
      <4> QED BY <1>8, <1>6, <3>2, <4>3 DEF InStep
    <3>3. CASE pc \in {"ready", "handed"}
      <4>1. at = Start(Len(got))
        BY <2>3, <3>3 DEF SInv, InStep, InPacket, Packets
      <4>2. (at = Start(Len(got)))'
        BY <1>1, <1>2, <4>1
      <4> QED BY <1>6, <3>3, <4>2 DEF InStep
    <3> QED BY <1>6, <3>1, <3>2, <3>3
  <2> QED BY <2>1, <2>2, <2>3
<1> QED BY <1>1, <1>2, <1>3, <1>5, <1>7, <1>9 DEF SInv, SourceStep

-----------------------------------------------------------------------------
\* What a read leaves, wherever it ends.
LEMMA ReadStep ==
    ASSUME SInv, NEW n \in Int, Ready(n), Took(n)
    PROVE  /\ UNCHANGED <<wire, bytes>>
           /\ at' \in Nat /\ at' <= bytes'
           /\ conn' \in {"open", "fin", "rst"} /\ (conn' = "open" => bytes' = Total)
           /\ Dead => Dead'
           /\ Done => Dead' \/ Done'
           /\ n >= 0 /\ Read(n) # n => Dead'
           /\ StreamEnded' = StreamEnded /\ Total' = Total /\ Events' = Events
           /\ SentBodies' = SentBodies /\ WireInv' = WireInv
           /\ \A k : Start(k)' = Start(k)
<1>1. /\ bytes \in Nat /\ at \in Nat /\ at <= bytes /\ conn \in {"open", "fin", "rst"}
      /\ conn = "open" => bytes = Total
      /\ Types
  BY DEF SInv, Types
<1>2. /\ wire' = wire /\ bytes' = bytes
      /\ \/ /\ n >= 0 /\ at' = at + n /\ at' <= bytes /\ conn' = conn
            /\ Read(n) = n /\ bytes - at >= n
         \/ /\ n >= 0 /\ conn # "open" /\ bytes - at < n
            /\ at' = bytes /\ conn' = "fin" /\ Read(n) < n
         \/ n < 0 /\ at' = at /\ conn' = conn /\ Read(n) = -1
  BY <1>1, TookCases
<1>3. /\ StreamEnded' = StreamEnded /\ Total' = Total /\ Events' = Events
      /\ SentBodies' = SentBodies /\ WireInv' = WireInv
      /\ \A k : Start(k)' = Start(k)
  BY <1>2, WireStays
<1>4. Dead => Dead'
  BY <1>1, DeadReads
<1>5. Done => Dead' \/ Done'
  <2>1. CASE n > 0
    BY <1>1, <1>4, <2>1, DoneReads
  <2>2. CASE n <= 0
    BY <1>1, <1>2, <1>3, <2>2 DEF Done
  <2> QED BY <2>1, <2>2
<1>6. n >= 0 /\ Read(n) # n => Dead'
  BY <1>1, <1>2 DEF Dead
<1> QED BY <1>1, <1>2, <1>3, <1>4, <1>5, <1>6

\* The body of a packet that is being read lies where its packet says.
LEMMA InPacketFacts ==
    ASSUME SInv, InPacket, NEW k, k = Len(got)
    PROVE  /\ k \in Nat /\ k + 1 \in 1 .. Len(wire) /\ left \in Nat
           /\ <<at, at + left>> = Body(wire[k + 1])
           /\ at + left = Start(k + 1)
           /\ MarkerOf[pc] = "ok" =>
                 /\ left > 0 /\ k + 1 <= Events
                 /\ ~Dead => ~torn /\ ~over
           /\ MarkerOf[pc] # "ok" => StreamEnded /\ at + left = Total
<1>1. /\ wire \in Seq(Packet) /\ WireInv /\ got \in Seq(Nat \X Nat)
      /\ k \in Nat /\ k < Len(wire) /\ Len(wire) \in Nat
  BY DEF SInv, Types, InPacket
<1>2. k + 1 \in 1 .. Len(wire)
  BY <1>1
<1> DEFINE p == wire[k + 1]
<1>3. /\ p.start \in Nat /\ p.left \in Nat /\ End(p) = p.start + 5 + p.left
      /\ Total = End(wire[Len(wire)])
  BY <1>1, <1>2, WireFields
<1>4. p.start = Start(k) /\ left = p.left /\ at = p.start + 5 /\ p.marker = MarkerOf[pc]
  BY <1>1, <1>2 DEF InPacket, WireInv
<1>5. at + left = End(p) /\ Start(k + 1) = End(p)
  BY <1>1, <1>3, <1>4 DEF Start
<1>6. <<at, at + left>> = Body(p)
  BY <1>4, <1>5 DEF Body
<1>7. CASE MarkerOf[pc] = "ok"
  <2>1. left > 0
    BY <1>1, <1>2, <1>4, <1>7 DEF WireInv, IsEvent
  <2>2. k + 1 <= Events
    BY <1>1, <1>2, <1>4, <1>7 DEF Events, StreamEnded, IsEvent
  <2>3. at < Total
    <3>1. CASE k + 1 = Len(wire)
      <4>1. Total = p.start + 5 + p.left
        BY <1>3, <3>1
      <4>2. at = p.start + 5 /\ p.left > 0
        BY <1>4, <2>1
      <4> QED BY <1>3, <4>1, <4>2
    <3>2. CASE k + 1 < Len(wire)
      <4>1. End(p) <= wire[Len(wire)].start
        BY <1>1, <1>2, <3>2 DEF WireInv
      <4>2. /\ wire[Len(wire)].start \in Nat /\ wire[Len(wire)].left \in Nat
            /\ Total = wire[Len(wire)].start + 5 + wire[Len(wire)].left
        BY <1>1, <1>2, WireFields
      <4>3. p.start \in Nat /\ p.left \in Nat
            /\ p.start + 5 + p.left <= wire[Len(wire)].start
        BY <1>3, <4>1
      <4>4. at = p.start + 5 /\ p.left > 0
        BY <1>4, <2>1
      <4>5. \A a, b, c, d \in Nat : a + 5 + b <= c => a + 5 < c + 5 + d
        OBVIOUS
      <4>6. p.start + 5 < wire[Len(wire)].start + 5 + wire[Len(wire)].left
        BY <4>2, <4>3, <4>5
      <4> QED BY <4>2, <4>4, <4>6
    <3> QED BY <1>1, <1>2, <3>1, <3>2
  <2>4. ~Done
    BY <1>3, <1>4, <2>3 DEF Done
  <2>5. ~Dead => ~torn /\ ~over
    BY <2>4 DEF SInv, EndInv
  <2> QED BY <1>1, <1>2, <1>3, <1>4, <1>5, <1>6, <1>7, <2>1, <2>2, <2>5
<1>8. CASE MarkerOf[pc] # "ok"
  <2>1. k + 1 = Len(wire)
    BY <1>1, <1>2, <1>4, <1>8 DEF WireInv, IsEvent
  <2>2. StreamEnded
    BY <1>1, <1>4, <1>8, <2>1 DEF StreamEnded, IsEvent
  <2> QED BY <1>1, <1>2, <1>3, <1>4, <1>5, <1>6, <1>8, <2>1, <2>2
<1> QED BY <1>7, <1>8

\* readPktHeader, for a reply or an event.
LEMMA HeaderStep ==
    ASSUME SInv, ReadPktHeader
    PROVE  SInv' /\ SourceStep
<1> DEFINE k == Len(got)
<1>1. /\ pc = "header" /\ Ready(4) /\ plen' \in PlensRead /\ Took(4) /\ pc' = "marker"
      /\ UNCHANGED <<mode, marker, left, newbuf, heap, got, torn, over>>
  BY DEF ReadPktHeader, bufs, hist
<1>2. /\ UNCHANGED <<wire, bytes>>
      /\ at' \in Nat /\ at' <= bytes'
      /\ conn' \in {"open", "fin", "rst"} /\ (conn' = "open" => bytes' = Total)
      /\ Dead => Dead'
      /\ Read(4) # 4 => Dead'
      /\ Total' = Total /\ Events' = Events
      /\ SentBodies' = SentBodies /\ WireInv' = WireInv
      /\ \A j : Start(j)' = Start(j)
  BY <1>1, ReadStep
<1>3. /\ Types /\ wire \in Seq(Packet) /\ bytes \in Nat /\ at \in Nat /\ at <= bytes
      /\ bytes <= Total /\ k \in Nat /\ k <= Events
      /\ conn \in {"open", "fin", "rst"}
  BY DEF SInv, Types, GotInv
<1>4. Read(4) \in Int /\ Read(4) >= -1
  BY <1>3 DEF Read
<1>5. Types'
  <2>1. plen' \in Int
    BY <1>1, <1>3, <1>4, PlensReadType
  <2> QED BY <1>1, <1>2, <1>3, <2>1 DEF SInv, Types, PCs, Reading
<1>6. Done => Dead
  BY <1>1, <1>3, DoneReads
<1>7. GotInv' /\ EndInv'
  BY <1>1, <1>2, <1>6 DEF SInv, GotInv, EndInv
<1>8. InStep'
  <2>1. CASE Dead \/ Read(4) # 4
    BY <1>2, <2>1 DEF InStep
  <2>2. CASE ~Dead /\ Read(4) = 4
    <3>1. at = Start(k)
      BY <1>1, <1>6, <2>2 DEF SInv, InStep, InPacket, Packets
    <3>2. bytes - at >= 4 /\ at' = at + 4
      BY <1>1, <1>3, <2>2 DEF Read, Took
    <3>3. k < Len(wire)
      <4>1. Events <= Len(wire) /\ Events \in Int /\ Len(wire) \in Nat
        BY <1>3 DEF Events
      <4>2. CASE k = Len(wire)
        <5>1. Start(k) = Total
          BY <1>3, <4>2, WireFields DEF Start
        <5> QED BY <1>3, <3>1, <3>2, <5>1, WireFields
      <4> QED BY <1>3, <4>1, <4>2
    <3>4. PacketAt(0) = {wire[k + 1]}
      BY <1>3, <3>1, <3>3, PacketIsThere DEF SInv
    <3>5. plen' = wire[k + 1].left + 1
      BY <1>1, <1>3, <1>4, <2>2, <3>4, PlensReadType DEF PlensThere
    <3>6. k' = k /\ (Start(k))' = Start(k) /\ wire' = wire
      BY <1>1, <1>2
    <3>7. at' = (Start(Len(got)))' + 4
      BY <3>1, <3>2, <3>6
    <3> QED BY <1>1, <3>3, <3>5, <3>6, <3>7 DEF InStep
  <2> QED BY <2>1, <2>2
<1> QED BY <1>1, <1>2, <1>5, <1>7, <1>8 DEF SInv, SourceStep

\* The marker byte and the branch on it.
LEMMA MarkerStep ==
    ASSUME SInv, ReadMarker
    PROVE  SInv' /\ SourceStep
<1> DEFINE k == Len(got)
<1>1. /\ pc = "marker" /\ Ready(1) /\ Took(1)
      /\ left' = plen - 1 /\ marker' \in MarkersRead
      /\ Read(1) # -1 => pc' \in AfterMarker(marker', left')
      /\ Read(1) = -1 => pc' \in {"ended", "ready", "refused", "abort"}
      /\ over' = (over \/ pc' = "ended")
      /\ UNCHANGED <<mode, plen, newbuf, heap, got, torn>>
  BY DEF ReadMarker, BodyLeft, bufs
<1>2. /\ UNCHANGED <<wire, bytes>>
      /\ at' \in Nat /\ at' <= bytes'
      /\ conn' \in {"open", "fin", "rst"} /\ (conn' = "open" => bytes' = Total)
      /\ Dead => Dead'
      /\ Read(1) # 1 => Dead'
      /\ Total' = Total /\ Events' = Events
      /\ SentBodies' = SentBodies /\ WireInv' = WireInv
      /\ \A j : Start(j)' = Start(j)
  BY <1>1, ReadStep
<1>3. /\ Types /\ wire \in Seq(Packet) /\ bytes \in Nat /\ at \in Nat /\ at <= bytes
      /\ bytes <= Total /\ k \in Nat /\ plen \in Int
  BY DEF SInv, Types
<1>4. AfterMarker(marker', left') \subseteq {"errpkt", "eofpkt", "body", "okpkt", "refused", "abort"}
  BY DEF AfterMarker
<1>5. pc' \in PCs /\ pc' # "handed"
  BY <1>1, <1>4 DEF PCs, Reading
<1>6. marker' \in Markers
  <2>1. \A p \in PacketAt(4) : p.marker \in Markers
    <3>1. DOMAIN wire = 1 .. Len(wire)
      BY <1>3
    <3> QED BY <1>3, <3>1, WireFields DEF PacketAt, Markers
  <2> QED BY <1>1, <2>1 DEF MarkersRead
<1>7. Types'
  BY <1>1, <1>2, <1>3, <1>5, <1>6 DEF SInv, Types
<1>8. Done => Dead
  BY <1>1, <1>3, DoneReads
<1>9. pc' = "ended" => Read(1) = -1
  BY <1>1, <1>4
<1>10. over' => Dead'
  <2>1. over => Dead'
    BY <1>2, <1>8 DEF SInv, EndInv
  <2>2. pc' = "ended" => Dead'
    BY <1>2, <1>9
  <2> QED BY <1>1, <2>1, <2>2
<1>11. GotInv'
  BY <1>1, <1>2 DEF SInv, GotInv
<1>12. EndInv'
  BY <1>1, <1>2, <1>5, <1>10 DEF SInv, EndInv
<1>13. InStep'
  <2>1. CASE Dead \/ Read(1) # 1
    BY <1>2, <2>1 DEF InStep
  <2>2. CASE ~Dead /\ Read(1) = 1
    <3>1. at = Start(k) + 4 /\ k < Len(wire) /\ plen = wire[k + 1].left + 1
      BY <1>1, <1>8, <2>2 DEF SInv, InStep, InPacket, Packets
    <3>2. at' = at + 1
      <4>1. bytes - at >= 1
        BY <1>3, <2>2 DEF Read
      <4> QED BY <1>1, <1>3, <4>1 DEF Took
    <3>3. PacketAt(4) = {wire[k + 1]}
      BY <1>3, <3>1, PacketIsThere DEF SInv
    <3>4. k + 1 \in 1 .. Len(wire)
      BY <1>3, <3>1
    <3>5. /\ wire[k + 1].left \in Nat /\ wire[k + 1].marker \in {"ok", "err", "eof"}
          /\ Start(k) \in Int
      <4>1. k > 0 => k \in 1 .. Len(wire)
        BY <1>3, <3>1
      <4>2. Start(k) \in Int
        BY <1>3, <4>1, WireFields DEF Start
      <4> QED BY <1>3, <3>4, <4>2, WireFields
    <3>6. marker' = wire[k + 1].marker /\ left' = wire[k + 1].left
      <4>1. MarkersRead = {wire[k + 1].marker}
        BY <2>2, <3>3 DEF MarkersRead
      <4>2. left' = wire[k + 1].left
        <5>1. left' = (wire[k + 1].left + 1) - 1
          BY <1>1, <3>1
        <5> QED BY <3>5, <5>1
      <4> QED BY <1>1, <4>1, <4>2
    <3>7. wire[k + 1].marker = "eof" => wire[k + 1].left < 8
      BY <3>4 DEF SInv, WireInv
    <3>8. pc' \in Packets /\ marker' = MarkerOf[pc']
      <4>1. pc' \in AfterMarker(marker', left')
        BY <1>1, <2>2
      <4>2. CASE marker' = "err"
        BY <4>1, <4>2 DEF AfterMarker, Packets, MarkerOf
      <4>3. CASE marker' = "eof"
        <5>1. IsEof(marker', left')
          BY <3>5, <3>6, <3>7, <4>3 DEF IsEof
        <5> QED BY <4>1, <4>3, <5>1 DEF AfterMarker, Packets, MarkerOf
      <4>4. CASE marker' = "ok"
        BY <4>1, <4>4 DEF AfterMarker, IsEof, Packets, MarkerOf
      <4> QED BY <3>5, <3>6, <4>2, <4>3, <4>4
    <3>9. at' = (Start(Len(got)))' + 5 /\ got' = got /\ wire' = wire
      <4>1. (Start(Len(got)))' = Start(k)
        BY <1>1, <1>2
      <4> QED BY <1>1, <1>2, <3>1, <3>2, <3>5, <4>1
    <3> QED BY <3>1, <3>6, <3>8, <3>9 DEF InStep, InPacket
  <2> QED BY <2>1, <2>2
<1>14. SourceStep
  <2>1. CASE over' = over
    BY <1>1, <1>2, <2>1 DEF SourceStep
  <2>2. CASE over' # over
    <3>1. over' = TRUE
      BY <1>1, <2>2 DEF SInv, Types
    <3>2. Source!Stop
      BY <1>1, <1>2, <3>1 DEF Source!Stop
    <3> QED BY <3>2 DEF SourceStep, Source!Next
  <2> QED BY <2>1, <2>2
<1> QED BY <1>2, <1>7, <1>11, <1>12, <1>13, <1>14 DEF SInv

\* The three replies and the EOF packet of the event stream.
LEMMA ReplyStep ==
    ASSUME SInv, ReadOkPkt \/ ReadErrorPkt \/ ReadEofPkt
    PROVE  SInv' /\ SourceStep
<1> DEFINE k == Len(got)
<1>1. /\ pc \in {"okpkt", "errpkt", "eofpkt"} /\ Ready(left) /\ Took(left)
      /\ UNCHANGED <<mode, plen, marker, left, newbuf, heap, torn>>
  BY DEF ReadOkPkt, ReadErrorPkt, ReadEofPkt, pkt, bufs, hist
<1>2. /\ Types /\ wire \in Seq(Packet) /\ bytes \in Nat /\ at \in Nat /\ at <= bytes
      /\ left \in Int /\ k \in Nat /\ got \in Seq(Nat \X Nat)
      /\ over \in BOOLEAN /\ conn \in {"open", "fin", "rst"}
  BY DEF SInv, Types
<1>3. /\ UNCHANGED <<wire, bytes>>
      /\ at' \in Nat /\ at' <= bytes'
      /\ conn' \in {"open", "fin", "rst"} /\ (conn' = "open" => bytes' = Total)
      /\ Dead => Dead'
      /\ Done => Dead' \/ Done'
      /\ left >= 0 /\ Read(left) # left => Dead'
      /\ StreamEnded' = StreamEnded /\ Total' = Total /\ Events' = Events
      /\ SentBodies' = SentBodies /\ WireInv' = WireInv
      /\ \A j : Start(j)' = Start(j)
  BY <1>1, <1>2, ReadStep
<1>4. Dead \/ InPacket
  BY <1>1 DEF SInv, InStep, Packets
<1>5. Dead => ~Whole
  BY <1>1, <1>2, DeadReads DEF Whole
<1>6. left >= 0 /\ Read(left) = left => at' = at + left
  BY <1>1, <1>2, TookCases
<1>7. CASE pc = "okpkt" /\ Whole
  <2>1. /\ pc' = "ready" /\ got' = Append(got, <<at, at + left>>) /\ over' = over
    BY <1>1, <1>7 DEF ReadOkPkt, ReadErrorPkt, ReadEofPkt
  <2>2. InPacket /\ ~Dead /\ MarkerOf[pc] = "ok" /\ left > 0 /\ at' = at + left
    BY <1>2, <1>4, <1>5, <1>6, <1>7 DEF Whole, MarkerOf, Packets
  <2>3. /\ k + 1 \in 1 .. Len(wire) /\ left \in Nat /\ k + 1 <= Events /\ ~torn /\ ~over
        /\ <<at, at + left>> = Body(wire[k + 1]) /\ at + left = Start(k + 1)
    BY <2>2, InPacketFacts
  <2>4. <<at, at + left>> \in Nat \X Nat
    BY <1>2, <2>3
  <2>5. /\ got' \in Seq(Nat \X Nat) /\ Len(got') = k + 1
        /\ got'[k + 1] = Body(wire[k + 1])
        /\ \A i \in 1 .. k : got'[i] = got[i]
    <3>1. got' = Append(got, Body(wire[k + 1])) /\ Body(wire[k + 1]) \in Nat \X Nat
      BY <2>1, <2>3, <2>4
    <3> QED BY <1>2, <3>1, AppendFacts
  <2>6. Types'
    BY <1>1, <1>3, <2>1, <2>5 DEF SInv, Types, PCs, Reading
  <2>7. GotInv'
    <3>1. ASSUME NEW i \in 1 .. k + 1
          PROVE  got'[i] = Body(wire[i])
      <4>1. CASE i = k + 1
        BY <2>5, <4>1
      <4>2. CASE i \in 1 .. k
        BY <2>5, <4>2 DEF SInv, GotInv
      <4> QED BY <1>2, <4>1, <4>2
    <3> QED BY <1>3, <2>3, <2>5, <3>1 DEF GotInv
  <2>8. InStep' /\ EndInv'
    <3>1. (Start(Len(got)))' = Start(k + 1)
      BY <1>3, <2>5 DEF Start, End
    <3>2. (at = Start(Len(got)))'
      BY <2>2, <2>3, <3>1
    <3>3. pc' = "ready" /\ ~torn' /\ ~over'
      BY <1>1, <2>1, <2>3
    <3> QED BY <3>2, <3>3 DEF InStep, EndInv
  <2>9. SourceStep
    <3>1. Len(SentBodies) = Events /\ SentBodies[k + 1] = Body(wire[k + 1])
      <4>1. Events \in Nat
        BY <1>2, <2>3 DEF Events
      <4> QED BY <1>2, <2>3, <4>1 DEF SentBodies
    <3>2. Source!Hand
      BY <1>1, <1>2, <1>3, <2>1, <2>3, <3>1, SMTT(30) DEF Source!Hand
    <3> QED BY <3>2 DEF SourceStep, Source!Next
  <2> QED BY <1>3, <2>6, <2>7, <2>8, <2>9 DEF SInv
<1>8. CASE ~(pc = "okpkt" /\ Whole)
  <2>1. /\ got' = got
        /\ pc' \in {"ready", "abort", "refused", "ended", "body"}
        /\ pc = "okpkt" => pc' \in {"ready", "abort"}
        /\ over' = (over \/ pc' = "ended")
    BY <1>1, <1>2, <1>8 DEF ReadOkPkt, ReadErrorPkt, ReadEofPkt, hist
  <2>2. Dead' \/ (Done' /\ left \in Nat)
    <3>0. ~Dead => InPacket /\ left \in Nat
      BY <1>4, InPacketFacts
    <3>1. CASE Dead \/ Read(left) # left
      BY <1>2, <1>3, <3>0, <3>1
    <3>2. CASE ~Dead /\ Read(left) = left
      <4>1. InPacket /\ left \in Nat
        BY <3>0, <3>2
      <4>2. pc # "okpkt"
        <5>1. CASE pc = "okpkt"
          <6>1. left > 0
            BY <4>1, <5>1, InPacketFacts DEF MarkerOf, Packets
          <6> QED BY <1>8, <3>2, <5>1, <6>1 DEF Whole
        <5> QED BY <5>1
      <4>3. MarkerOf[pc] # "ok"
        BY <1>1, <4>2 DEF MarkerOf, Packets
      <4>4. StreamEnded /\ at + left = Total
        BY <4>1, <4>3, InPacketFacts
      <4> QED BY <1>3, <1>6, <3>2, <4>1, <4>4 DEF Done
    <3> QED BY <3>1, <3>2
  <2>3. over' \in BOOLEAN /\ Types'
    BY <1>1, <1>2, <1>3, <2>1 DEF SInv, Types, PCs, Reading
  <2>4. GotInv'
    BY <1>3, <2>1 DEF SInv, GotInv
  <2>5. InStep'
    BY <1>1, <2>1, <2>2 DEF InStep
  <2>6. EndInv'
    <3>1. torn => Dead
      BY DEF SInv, EndInv
    <3> QED BY <1>1, <1>3, <2>1, <2>2, <3>1 DEF EndInv
  <2>7. SourceStep
    <3>1. CASE over' = over
      BY <1>1, <1>3, <2>1, <3>1 DEF SourceStep
    <3>2. CASE over' # over
      <4>1. over' = TRUE
        BY <1>2, <2>3, <2>1, <3>2
      <4>2. Source!Stop
        BY <1>1, <1>3, <2>1, <4>1 DEF Source!Stop
      <4> QED BY <4>2 DEF SourceStep, Source!Next
    <3> QED BY <3>1, <3>2
  <2> QED BY <1>3, <2>3, <2>4, <2>5, <2>6, <2>7 DEF SInv
<1> QED BY <1>7, <1>8

\* An event's body: handed on, torn, or NULL.
LEMMA BodyStep ==
    ASSUME SInv, ReadBody
    PROVE  SInv' /\ SourceStep
<1> DEFINE k == Len(got)
<1>1. /\ pc = "body" /\ Ready(left) /\ Took(left)
      /\ UNCHANGED <<mode, plen, marker, left>>
      /\ heap' \subseteq heap \union {1, 2} /\ newbuf' \in {NoBuf, 1, 2}
  BY DEF ReadBody, pkt, Malloc, Address, NoNewbuf
<1>2. /\ Types /\ wire \in Seq(Packet) /\ bytes \in Nat /\ at \in Nat /\ at <= bytes
      /\ left \in Int /\ k \in Nat /\ got \in Seq(Nat \X Nat)
      /\ heap \subseteq Nat \ {NoBuf} /\ conn \in {"open", "fin", "rst"}
      /\ torn \in BOOLEAN /\ over \in BOOLEAN
  BY DEF SInv, Types
<1>3. /\ UNCHANGED <<wire, bytes>>
      /\ at' \in Nat /\ at' <= bytes'
      /\ conn' \in {"open", "fin", "rst"} /\ (conn' = "open" => bytes' = Total)
      /\ Dead => Dead'
      /\ Done => Dead' \/ Done'
      /\ left >= 0 /\ Read(left) # left => Dead'
      /\ StreamEnded' = StreamEnded /\ Total' = Total /\ Events' = Events
      /\ SentBodies' = SentBodies /\ WireInv' = WireInv
      /\ \A j : Start(j)' = Start(j)
  BY <1>1, <1>2, ReadStep
<1>4. newbuf' \in Nat /\ heap' \subseteq Nat \ {NoBuf}
  BY <1>1, <1>2 DEF NoBuf
<1>5. Dead \/ (Done /\ left >= 0) \/ InPacket
  BY <1>1 DEF SInv, InStep, Packets
<1>6. torn => Dead
  BY DEF SInv, EndInv
<1>7. CASE pc' = "ended"
  <2>1. over' = TRUE /\ UNCHANGED <<got, torn>> /\ (left < 0 \/ Read(left) \in {-1, 0})
    BY <1>7 DEF ReadBody, BodyRead, NothingRead
  <2>2. Dead' \/ Done'
    <3>1. CASE Dead \/ Done
      BY <1>3, <3>1
    <3>2. CASE InPacket
      <4>1. left > 0
        BY <1>1, <3>2, InPacketFacts DEF MarkerOf, Packets
      <4> QED BY <1>2, <1>3, <2>1, <4>1
    <3> QED BY <1>5, <3>1, <3>2
  <2>3. Types' /\ GotInv' /\ InStep' /\ EndInv'
    <3>1. Types'
      BY <1>1, <1>2, <1>3, <1>4, <1>7, <2>1 DEF SInv, Types, PCs
    <3>2. GotInv'
      BY <1>3, <2>1 DEF SInv, GotInv
    <3>3. InStep' /\ EndInv'
      BY <1>3, <1>6, <1>7, <2>1, <2>2 DEF InStep, EndInv
    <3> QED BY <3>1, <3>2, <3>3
  <2>4. Source!Stop
    BY <1>3, <2>1 DEF Source!Stop
  <2> QED BY <1>3, <2>3, <2>4 DEF SInv, SourceStep, Source!Next
<1>8. CASE pc' # "ended"
  <2>1. /\ pc' = "handed" /\ over' = over
        /\ Read(left) # -1 /\ Read(left) # 0
        /\ Whole => got' = Append(got, <<at, at + left>>) /\ torn' = torn
        /\ ~Whole => torn' = TRUE /\ got' = got
    BY <1>8 DEF ReadBody, BodyRead, NothingRead
  <2>2. ~Dead
    BY <1>1, <1>2, <2>1, DeadReads
  <2>3. InPacket
    <3>1. ASSUME Done, left >= 0 PROVE FALSE
      <4>1. CASE left = 0
        BY <1>2, <2>1, <4>1 DEF Read
      <4>2. CASE left > 0
        BY <1>1, <1>2, <2>2, <3>1, <4>2, DoneReads
      <4> QED BY <1>2, <3>1, <4>1, <4>2
    <3> QED BY <1>5, <2>2, <3>1
  <2>4. /\ k + 1 \in 1 .. Len(wire) /\ left \in Nat /\ left > 0 /\ k + 1 <= Events
        /\ ~torn /\ ~over
        /\ <<at, at + left>> = Body(wire[k + 1]) /\ at + left = Start(k + 1)
    <3>1. MarkerOf[pc] = "ok"
      BY <1>1 DEF MarkerOf, Packets
    <3> QED BY <2>2, <2>3, <3>1, InPacketFacts
  <2>5. Len(SentBodies) = Events /\ SentBodies[k + 1] = Body(wire[k + 1])
    <3>1. Events \in Nat
      BY <1>2, <2>4 DEF Events
    <3> QED BY <1>2, <2>4, <3>1 DEF SentBodies
  <2>6. CASE Whole
    <3>1. at' = at + left
      BY <1>1, <1>2, <2>6, TookCases DEF Whole
    <3>2. <<at, at + left>> \in Nat \X Nat
      BY <1>2, <2>4
    <3>3. /\ got' \in Seq(Nat \X Nat) /\ Len(got') = k + 1
          /\ got'[k + 1] = Body(wire[k + 1])
          /\ \A i \in 1 .. k : got'[i] = got[i]
      <4>1. got' = Append(got, <<at, at + left>>)
        BY <2>1, <2>6
      <4>2. got' = Append(got, Body(wire[k + 1])) /\ Body(wire[k + 1]) \in Nat \X Nat
        BY <2>4, <3>2, <4>1
      <4> QED BY <1>2, <4>2, AppendFacts
    <3>4. Types'
      BY <1>1, <1>2, <1>3, <1>4, <2>1, <2>6, <3>3 DEF SInv, Types, PCs
    <3>5. GotInv'
      <4>1. ASSUME NEW i \in 1 .. k + 1
            PROVE  got'[i] = Body(wire[i])
        <5>1. CASE i = k + 1
          BY <3>3, <5>1
        <5>2. CASE i \in 1 .. k
          BY <3>3, <5>2 DEF SInv, GotInv
        <5> QED BY <1>2, <5>1, <5>2
      <4> QED BY <1>3, <2>4, <3>3, <4>1 DEF GotInv
    <3>6. InStep' /\ EndInv'
      <4>1. (Start(Len(got)))' = Start(k + 1)
        BY <1>3, <3>3 DEF Start, End
      <4>2. (at = Start(Len(got)))'
        BY <2>4, <3>1, <4>1
      <4>3. pc' = "handed" /\ ~torn' /\ ~over'
        BY <2>1, <2>4, <2>6
      <4> QED BY <4>2, <4>3 DEF InStep, EndInv
    <3>7. Source!Hand
      <4>1. got' = Append(got, SentBodies[k + 1]) /\ torn' = torn /\ over' = over
        BY <2>1, <2>4, <2>5, <2>6
      <4>2. Len(got) < Len(SentBodies)
        <5>1. Events \in Int
          BY <1>2, <2>4 DEF Events
        <5> QED BY <1>2, <2>4, <2>5, <5>1
      <4> QED BY <1>3, <2>4, <4>1, <4>2 DEF Source!Hand
    <3> QED BY <1>3, <3>4, <3>5, <3>6, <3>7 DEF SInv, SourceStep, Source!Next
  <2>7. CASE ~Whole
    <3>1. Dead'
      BY <1>3, <2>4, <2>7 DEF Whole
    <3>2. Types'
      BY <1>1, <1>2, <1>3, <1>4, <2>1, <2>7 DEF SInv, Types, PCs
    <3>3. GotInv'
      BY <1>3, <2>1, <2>7 DEF SInv, GotInv
    <3>4. InStep' /\ EndInv'
      BY <2>1, <2>4, <3>1 DEF InStep, EndInv
    <3>5. Source!Tear
      BY <1>2, <1>3, <2>1, <2>4, <2>5, <2>7 DEF Source!Tear
    <3> QED BY <1>3, <3>2, <3>3, <3>4, <3>5 DEF SInv, SourceStep, Source!Next
  <2> QED BY <2>6, <2>7
<1> QED BY <1>7, <1>8

\* The initial states satisfy the invariant and the abstract Init.
LEMMA SourceInit == Init => SInv /\ Source!Init
<1> SUFFICES ASSUME Init PROVE SInv /\ Source!Init
  OBVIOUS
<1>1. wire = <<>> /\ got = <<>> /\ ~torn /\ ~over /\ at = 0 /\ pc = "send" /\ bytes = 0
  BY DEF Init
<1>2. Total = 0 /\ ~StreamEnded /\ Events = 0
  BY <1>1 DEF Total, StreamEnded, Events
<1>3. Types
  <2>1. /\ wire \in Seq(Packet) /\ got \in Seq(Nat \X Nat)
        /\ torn \in BOOLEAN /\ over \in BOOLEAN
    <3>1. wire \in Seq(Packet) /\ got \in Seq(Nat \X Nat)
      BY <1>1
    <3>2. torn = FALSE /\ over = FALSE
      BY DEF Init
    <3> QED BY <3>1, <3>2
  <2>2. /\ conn = "open" /\ mode = "reply" /\ plen = 0 /\ left = 0 /\ marker \in Markers
        /\ newbuf \in Nat /\ heap = {}
    BY DEF Init, NoBuf
  <2> QED BY <1>1, <1>2, <2>1, <2>2 DEF Types, PCs, Reading
<1>4. WireInv /\ GotInv /\ EndInv /\ InStep
  BY <1>1, <1>2 DEF WireInv, GotInv, EndInv, InStep
<1>5. SentBodies = <<>>
  BY <1>2 DEF SentBodies
<1> QED BY <1>1, <1>3, <1>4, <1>5 DEF SInv, Source!Init

\* Every step keeps the invariant and is a step of EventSource or none.
LEMMA SourceNext == SInv /\ [Next]_vars => SInv' /\ SourceStep
<1> SUFFICES ASSUME SInv, [Next]_vars PROVE SInv' /\ SourceStep
  OBVIOUS
<1>1. CASE MasterSends BY <1>1, MasterSendsStep
<1>2. CASE MasterCloses \/ ConnLost BY <1>2, ConnectionStep
<1>3. CASE SendCommand \/ FreeEvent \/ GetEvent \/ CloseMySQL BY <1>3, QuietStep
<1>4. CASE ReadPktHeader BY <1>4, HeaderStep
<1>5. CASE ReadMarker BY <1>5, MarkerStep
<1>6. CASE ReadOkPkt \/ ReadErrorPkt \/ ReadEofPkt BY <1>6, ReplyStep
<1>7. CASE ReadBody BY <1>7, BodyStep
<1>8. CASE UNCHANGED vars
  <2>1. UNCHANGED <<wire, bytes, conn, at, pc, mode, plen, marker, left, newbuf, heap,
                    got, torn, over>>
    BY <1>8 DEF vars, net, pkt, bufs, hist
  <2>2. /\ StreamEnded' = StreamEnded /\ Total' = Total /\ Events' = Events
        /\ SentBodies' = SentBodies /\ WireInv' = WireInv
        /\ \A j : Start(j)' = Start(j)
    BY <2>1, WireStays
  <2>3. Types' /\ GotInv'
    BY <2>1, <2>2 DEF SInv, Types, GotInv
  <2>4. Dead' = Dead /\ Done' = Done
    BY <2>1, <2>2 DEF Dead, Done
  <2>5. InStep' /\ EndInv'
    BY <2>1, <2>2, <2>4 DEF SInv, InStep, InPacket, EndInv
  <2> QED BY <2>1, <2>2, <2>3, <2>5 DEF SInv, SourceStep
<1> QED BY <1>1, <1>2, <1>3, <1>4, <1>5, <1>6, <1>7, <1>8 DEF Next

\* The MySQL driver implements EventSource: from whatever packets a master
\* sends, cut at whatever byte, msendcmd and getEventFromServer take the events in
\* order, leave none out, and hand on nothing after a NULL.
THEOREM ImplementsEventSource == Spec => InOrder
<1>1. Init => SInv /\ Source!Init
  BY SourceInit
<1>2. SInv /\ [Next]_vars => SInv' /\ [Source!Next]_<<SentBodies, got, torn, over>>
  BY SourceNext DEF SourceStep
<1> QED BY <1>1, <1>2, PTL DEF Spec, InOrder, Source!Spec

-----------------------------------------------------------------------------
\* The buffers.
\* Initially there is no buffer.
LEMMA HeapInit == Init => HeapInv
BY DEF Init, HeapInv, Packets

\* Every step keeps the buffers apart.
LEMMA HeapNext == SInv /\ HeapInv /\ [Next]_vars => HeapInv'
<1> SUFFICES ASSUME SInv, HeapInv, [Next]_vars PROVE HeapInv'
  OBVIOUS
<1>1. /\ Types /\ bytes \in Nat /\ at \in Nat /\ at <= bytes /\ plen \in Int
      /\ left \in Int /\ conn \in {"open", "fin", "rst"}
      /\ over \in BOOLEAN /\ newbuf \in Nat
  BY DEF SInv, Types
<1>2. CASE MasterSends
  <2>1. UNCHANGED <<conn, at, pc, plen, left, newbuf, heap, over>> /\ conn = "open"
    BY <1>2 DEF MasterSends, pkt, bufs, hist
  <2> QED BY <2>1 DEF HeapInv
<1>3. CASE MasterCloses \/ ConnLost
  <2>1. UNCHANGED <<at, pc, plen, left, newbuf, heap, over>> /\ conn = "open"
    BY <1>3 DEF MasterCloses, ConnLost, pkt, bufs, hist
  <2> QED BY <2>1 DEF HeapInv
<1>4. CASE SendCommand \/ GetEvent \/ CloseMySQL
  <2>1. /\ UNCHANGED <<bytes, conn, at, plen, left, newbuf, heap, over>>
        /\ pc # "handed" /\ pc' \notin Packets \union {"marker", "handed"}
    BY <1>4 DEF SendCommand, GetEvent, CloseMySQL, net, pkt, bufs, hist, Packets
  <2> QED BY <2>1 DEF HeapInv
<1>5. CASE FreeEvent
  <2>1. pc = "handed" /\ pc' = "ready" /\ heap' = heap \ {newbuf}
    BY <1>5 DEF FreeEvent
  <2>2. heap' = {}
    BY <2>1 DEF HeapInv
  <2> QED BY <2>1, <2>2 DEF HeapInv, Packets
<1>6. CASE ReadPktHeader
  <2>1. /\ pc = "header" /\ pc' = "marker" /\ Ready(4) /\ Took(4) /\ plen' \in PlensRead
        /\ UNCHANGED <<newbuf, heap, over>>
    BY <1>6 DEF ReadPktHeader, bufs, hist
  <2>2. CASE heap = {}
    BY <2>1, <2>2 DEF HeapInv, Packets
  <2>3. CASE heap # {}
    <3>1. over /\ conn = "fin" /\ at = bytes
      BY <2>1, <2>3 DEF HeapInv
    <3>2. Dead
      BY <3>1 DEF Dead
    <3>3. /\ Dead' /\ bytes' = bytes /\ at' = at /\ conn' = "fin" /\ Read(4) = 0
      BY <1>1, <2>1, <3>1, <3>2, DeadReads
    <3>4. plen' = 0
      BY <1>1, <2>1, <3>3, PlensReadType
    <3> QED BY <2>1, <3>1, <3>3, <3>4 DEF HeapInv, Packets
  <2> QED BY <2>2, <2>3
<1>7. CASE ReadMarker
  <2>1. /\ pc = "marker" /\ pc' # "handed" /\ Ready(1) /\ Took(1) /\ left' = plen - 1
        /\ over' = (over \/ pc' = "ended")
        /\ UNCHANGED <<plen, newbuf, heap>>
    BY <1>7 DEF ReadMarker, AfterMarker, BodyLeft, bufs
  <2>2. CASE heap = {}
    BY <2>1, <2>2 DEF HeapInv
  <2>3. CASE heap # {}
    <3>1. over /\ conn = "fin" /\ at = bytes /\ plen = 0
      BY <2>1, <2>3 DEF HeapInv
    <3>2. Dead
      BY <3>1 DEF Dead
    <3>3. bytes' = bytes /\ at' = at /\ conn' = "fin"
      BY <1>1, <2>1, <3>1, <3>2, DeadReads
    <3> QED BY <2>1, <3>1, <3>3 DEF HeapInv
  <2> QED BY <2>2, <2>3
<1>8. CASE ReadOkPkt \/ ReadErrorPkt \/ ReadEofPkt
  <2>1. /\ pc \in {"okpkt", "errpkt", "eofpkt"} /\ pc' \notin {"handed", "marker"}
        /\ Ready(left) /\ Took(left)
        /\ over => over'
        /\ UNCHANGED <<plen, left, newbuf, heap>>
    <3>1. CASE ReadOkPkt
      BY <3>1 DEF ReadOkPkt, pkt, bufs, hist
    <3>2. CASE ReadErrorPkt
      BY <3>2 DEF ReadErrorPkt, pkt, bufs, hist
    <3>3. CASE ReadEofPkt
      BY <3>3 DEF ReadEofPkt, pkt, bufs, hist
    <3> QED BY <1>8, <3>1, <3>2, <3>3
  <2>2. left = plen - 1
    BY <2>1 DEF HeapInv, Packets
  <2>3. CASE heap = {}
    BY <2>1, <2>2, <2>3 DEF HeapInv
  <2>4. CASE heap # {}
    <3>1. over /\ conn = "fin" /\ at = bytes /\ plen = 0
      BY <2>1, <2>4 DEF HeapInv, Packets
    <3>2. Dead
      BY <3>1 DEF Dead
    <3>3. bytes' = bytes /\ at' = at /\ conn' = "fin"
      BY <1>1, <2>1, <3>1, <3>2, DeadReads
    <3> QED BY <2>1, <2>2, <3>1, <3>3 DEF HeapInv
  <2> QED BY <2>3, <2>4
<1>9. CASE ReadBody
  <2>1. /\ pc = "body" /\ Ready(left) /\ Took(left) /\ pc' \in {"ended", "handed"}
        /\ UNCHANGED <<plen, left>>
        /\ plen > BufSize => /\ newbuf' \in {Address, NoBuf}
                             /\ heap' = heap \union ({newbuf'} \ {NoBuf})
        /\ ~(plen > BufSize) => newbuf' = NoBuf /\ heap' = heap
        /\ pc' = "ended" => over' = TRUE /\ (left < 0 \/ Read(left) \in {-1, 0})
        /\ pc' = "handed" => left >= 0 /\ Read(left) \notin {-1, 0}
    BY <1>9, <1>1, SizesAssumption
       DEF ReadBody, pkt, NoNewbuf, NothingRead, Longer, Malloc, BodyRead
  <2>2. left = plen - 1 /\ BufSize \in Nat /\ BufSize >= 8
    BY <2>1, SizesAssumption DEF HeapInv, Packets
  <2>3. CASE heap = {}
    <3>1. CASE pc' = "handed"
      <4>1. Address = 1
        BY <2>3 DEF Address
      <4> QED BY <2>1, <2>3, <3>1, <4>1 DEF HeapInv, NoBuf, Packets
    <3>2. CASE pc' = "ended" /\ plen > BufSize
      <4>1. left > 0
        BY <1>1, <2>2, <3>2
      <4>2. at' = bytes /\ bytes' = bytes /\ conn' = "fin"
        BY <1>1, <2>1, <3>2, <4>1, TookCases
      <4> QED BY <2>1, <2>3, <3>2, <4>2 DEF HeapInv, Packets
    <3>3. CASE pc' = "ended" /\ ~(plen > BufSize)
      BY <2>1, <2>3, <3>3 DEF HeapInv, Packets
    <3> QED BY <2>1, <3>1, <3>2, <3>3
  <2>4. CASE heap # {}
    <3>1. over /\ conn = "fin" /\ at = bytes /\ plen = 0
      BY <2>1, <2>4 DEF HeapInv, Packets
    <3>2. Dead
      BY <3>1 DEF Dead
    <3>3. bytes' = bytes /\ at' = at /\ conn' = "fin" /\ Read(left) \in {-1, 0}
      BY <1>1, <2>1, <3>1, <3>2, DeadReads
    <3>4. pc' = "ended" /\ heap' = heap /\ over' = TRUE
      BY <2>1, <2>2, <3>1, <3>3
    <3> QED BY <2>1, <3>1, <3>3, <3>4 DEF HeapInv, Packets
  <2> QED BY <2>3, <2>4
<1>10. CASE UNCHANGED vars
  <2>1. UNCHANGED <<bytes, conn, at, pc, plen, left, newbuf, heap, over>>
    BY <1>10 DEF vars, net, pkt, bufs, hist
  <2> QED BY <2>1 DEF HeapInv
<1> QED BY <1>2, <1>3, <1>4, <1>5, <1>6, <1>7, <1>8, <1>9, <1>10 DEF Next

\* BufferDiscipline for packets and buffers of every size: msaferead's own
\* buffer lives exactly while the client holds its event, is freed once, and at
\* most one is left behind by a read that failed.
THEOREM BuffersApart == Spec => []BufferDiscipline
<1>1. Init => SInv /\ HeapInv
  BY SourceInit, HeapInit
<1>2. SInv /\ HeapInv /\ [Next]_vars => (SInv /\ HeapInv)'
  BY SourceNext, HeapNext
<1>3. HeapInv => BufferDiscipline
  BY DEF HeapInv, BufferDiscipline
<1> QED BY <1>1, <1>2, <1>3, PTL DEF Spec

\* EndsForReason: as long as the connection stands, getEventFromServer returns
\* NULL, and msendcmd fails, only behind the packet with which the master ended
\* the stream.
THEOREM EndsOnlyForReason == Spec => []EndsForReason
<1>1. SInv => EndsForReason
  <2> SUFFICES ASSUME SInv, pc \in {"ended", "refused"}, conn = "open"
               PROVE  StreamEnded /\ at = Total
    BY DEF EndsForReason
  <2>1. ~Dead
    BY DEF Dead
  <2>2. Done
    <3>1. CASE pc = "ended"
      BY <2>1, <3>1 DEF SInv, EndInv
    <3>2. CASE pc = "refused"
      BY <2>1, <3>2 DEF SInv, InStep, InPacket, Packets
    <3> QED BY <3>1, <3>2
  <2> QED BY <2>2 DEF Done
<1>2. SInv /\ [Next]_vars => SInv'
  BY SourceNext
<1> QED BY <1>1, <1>2, SourceInit, PTL DEF Spec
-----------------------------------------------------------------------------
\* What a header holds fits its three bytes; what a failed read leaves in its
\* place is an int, and with it the connection is at its end.
WidthInv ==
    /\ \A i \in 1 .. Len(wire) : wire[i].left + 1 \in Plens
    /\ plen \in Ints
    /\ plen \in Plens \/ (conn = "fin" /\ at = bytes)
    /\ left \in -IntMax - 2 .. IntMax - 1
    /\ cause \in {"none", "message", "garbage", "eof", "lost", "errno"}

\* readPktHeader reads no more than three bytes hold, also with bytes missing;
\* only a read that fails leaves any int.
LEMMA PlensReadWidth ==
    ASSUME wire \in Seq(Packet), \A i \in 1 .. Len(wire) : wire[i].left + 1 \in Plens
    PROVE  /\ PlensRead \subseteq Ints
           /\ Read(4) # -1 => PlensRead \subseteq Plens
<1> DEFINE B2 == Base * Base
           B3 == Base * Base * Base
<1>1. Base \in Nat /\ Base > 1 /\ B2 \in Nat /\ B2 >= Base /\ B3 \in Nat /\ B3 >= B2
  <2>1. Base \in Nat /\ Base > 1
    BY BaseAssumption
  <2>2. B2 \in Nat /\ B2 >= Base
    BY <2>1
  <2>3. B3 = B2 * Base
    BY <2>1
  <2>4. B2 * Base \in Nat /\ B2 * Base >= B2
    <3> HIDE DEF B2
    <3> QED BY <2>1, <2>2
  <2> QED BY <2>1, <2>2, <2>3, <2>4
<1>2. Plens = 0 .. B3 - 1
  BY DEF Plens
<1>3. ASSUME NEW n \in Plens, NEW k
      PROVE  LowBytes(n, k) \in Plens
  <2>1. n \in Nat /\ n <= B3 - 1
    <3> HIDE DEF B3
    <3> QED BY <1>1, <1>2
  <2>2. n % Base \in 0 .. Base - 1
    BY <1>1, <2>1
  <2>3. n % B2 \in 0 .. B2 - 1
    <3> HIDE DEF B2
    <3> QED BY <1>1, <2>1
  <2>4. LowBytes(n, k) \in {0, n % Base, n % B2, n}
    BY DEF LowBytes
  <2>5. n % Base \in Plens /\ n % B2 \in Plens /\ 0 \in Plens
    <3> HIDE DEF B2, B3
    <3> QED BY <1>1, <1>2, <2>2, <2>3
  <2> QED BY <2>4, <2>5
<1>4. PlensThere \subseteq Plens
  <2>1. ASSUME NEW p \in PacketAt(0) PROVE p.left + 1 \in Plens
    <3>1. PICK i \in DOMAIN wire : p = wire[i]
      BY <2>1 DEF PacketAt
    <3> QED BY <3>1
  <2> QED BY <2>1 DEF PlensThere
<1>5. CASE Read(4) = -1
  BY <1>5 DEF PlensRead
<1>6. CASE Read(4) # -1
  <2>1. PlensRead = {LowBytes(n, Read(4)) : n \in PlensThere}
    BY <1>6 DEF PlensRead
  <2>2. PlensRead \subseteq Plens
    BY <1>3, <1>4, <2>1
  <2> QED BY <1>6, <2>2, IntMaxAssumption
<1> QED BY <1>5, <1>6

\* A length that no header held stays with a connection at its end.
UnreadAtEnd == plen \in Plens \/ (conn = "fin" /\ at = bytes)

\* A read that leaves plen alone leaves that.
LEMMA UnreadStays ==
    ASSUME Types, UnreadAtEnd, NEW n \in Int, Ready(n), Took(n), plen' = plen
    PROVE  UnreadAtEnd'
<1>1. CASE plen \in Plens
  BY <1>1 DEF UnreadAtEnd, Plens
<1>2. CASE conn = "fin" /\ at = bytes
  <2>1. Dead
    BY <1>2 DEF Dead
  <2>2. conn' = "fin" /\ at' = bytes'
    BY <1>2, <2>1, DeadReads
  <2> QED BY <2>2 DEF UnreadAtEnd
<1> QED BY <1>1, <1>2 DEF UnreadAtEnd

\* Each step keeps the widths.
LEMMA WidthNext == SInv /\ WidthInv /\ [Next]_vars => WidthInv'
<1> DEFINE M == Base * Base * Base
<1> SUFFICES ASSUME SInv, WidthInv, [Next]_vars PROVE WidthInv'
  OBVIOUS
<1>1. wire \in Seq(Packet) /\ M \in Nat
  <2>1. Base \in Nat /\ Base * Base \in Nat
    BY BaseAssumption
  <2> QED BY <2>1 DEF SInv, Types
<1>2. Plens = 0 .. M - 1
  BY DEF Plens
<1>3. CASE MasterSends
  <2>1. PICK b \in Bodies :
          wire' = Append(wire, [marker |-> b.marker, left |-> b.left, start |-> Total])
    BY <1>3 DEF MasterSends
  <2> DEFINE p == [marker |-> b.marker, left |-> b.left, start |-> Total]
  <2>2. b.left + 1 \in Plens
    BY BodiesAssumption
  <2>3. p \in Packet /\ p.left + 1 \in Plens
    BY <1>1, <2>2, BodiesAssumption, WireFields DEF Packet
  <2>4. /\ Len(wire') = Len(wire) + 1 /\ wire'[Len(wire) + 1] = p
        /\ \A i \in 1 .. Len(wire) : wire'[i] = wire[i]
    <3> HIDE DEF p
    <3> QED BY <1>1, <2>1, <2>3 DEF p
  <2>5. ASSUME NEW i \in 1 .. Len(wire')
        PROVE  wire'[i].left + 1 \in Plens
    <3>1. i \in 1 .. Len(wire) \/ i = Len(wire) + 1
      BY <1>1, <2>4
    <3>2. CASE i \in 1 .. Len(wire)
      BY <2>4, <3>2 DEF WidthInv
    <3>3. CASE i = Len(wire) + 1
      BY <2>3, <2>4, <3>3
    <3> QED BY <3>1, <3>2, <3>3
  <2>6. UNCHANGED <<plen, left, cause>> /\ conn = "open"
    BY <1>3 DEF MasterSends, pkt
  <2>7. plen' \in Plens
    BY <2>6 DEF WidthInv
  <2> QED BY <2>5, <2>6, <2>7 DEF WidthInv, Plens
<1>4. CASE ReadPktHeader
  <2>1. /\ wire' = wire /\ UNCHANGED <<left, cause>> /\ plen' \in PlensRead
        /\ Ready(4) /\ Took(4)
    BY <1>4 DEF ReadPktHeader, Took
  <2>2. plen' \in Ints /\ (Read(4) # -1 => plen' \in Plens)
    BY <1>1, <2>1, PlensReadWidth DEF WidthInv
  <2>3. Read(4) = -1 => conn' = "fin" /\ at' = bytes'
    BY <2>1, TookCases DEF SInv, Types
  <2> QED BY <2>1, <2>2, <2>3 DEF WidthInv, Plens
<1>5. CASE ReadMarker
  <2>1. wire' = wire /\ UNCHANGED <<plen, cause>> /\ left' = plen - 1 /\ Ready(1) /\ Took(1)
    BY <1>5 DEF ReadMarker, Took, BodyLeft
  <2>2. left' \in -IntMax - 2 .. IntMax - 1
    BY <2>1, IntMaxAssumption DEF WidthInv, Ints
  <2>3. UnreadAtEnd'
    BY <2>1, UnreadStays DEF WidthInv, UnreadAtEnd, SInv
  <2> QED BY <2>1, <2>2, <2>3 DEF WidthInv, Plens, UnreadAtEnd
<1>6. CASE \/ MasterCloses \/ ConnLost \/ SendCommand \/ ReadOkPkt \/ ReadErrorPkt
           \/ ReadEofPkt \/ ReadBody \/ FreeEvent \/ GetEvent \/ CloseMySQL
           \/ UNCHANGED vars
  <2>1. wire' = wire /\ UNCHANGED <<plen, left>>
    BY <1>6 DEF MasterCloses, ConnLost, SendCommand, ReadOkPkt, ReadErrorPkt, ReadEofPkt,
                ReadBody, FreeEvent, GetEvent, CloseMySQL, Took, vars, net, pkt
  <2>2. cause' \in {"none", "message", "garbage", "eof", "lost", "errno"}
    <3>1. CASE ReadErrorPkt
      BY <3>1 DEF ReadErrorPkt
    <3>2. CASE ReadBody
      BY <3>2 DEF ReadBody, WidthInv
    <3>3. CASE cause' = cause
      BY <3>3 DEF WidthInv
    <3>4. CASE \/ MasterCloses \/ ConnLost \/ SendCommand \/ ReadOkPkt
               \/ ReadEofPkt \/ FreeEvent \/ GetEvent \/ CloseMySQL \/ UNCHANGED vars
      <4>1. cause' = cause
        BY <3>4 DEF MasterCloses, ConnLost, SendCommand, ReadOkPkt, ReadEofPkt,
                    FreeEvent, GetEvent, CloseMySQL, vars
      <4> QED BY <4>1 DEF WidthInv
    <3> QED BY <1>6, <3>1, <3>2, <3>4
  <2>3. UnreadAtEnd'
    <3>1. CASE MasterCloses \/ ConnLost
      <4>1. conn = "open" /\ plen' = plen
        BY <3>1 DEF MasterCloses, ConnLost, pkt
      <4> QED BY <4>1 DEF WidthInv, UnreadAtEnd, Plens
    <3>2. CASE ReadOkPkt \/ ReadErrorPkt \/ ReadEofPkt \/ ReadBody
      <4>1. left \in Int /\ Ready(left) /\ Took(left)
        BY <3>2 DEF SInv, Types, ReadOkPkt, ReadErrorPkt, ReadEofPkt, ReadBody
      <4> QED BY <2>1, <4>1, UnreadStays DEF WidthInv, UnreadAtEnd, SInv
    <3>3. CASE SendCommand \/ FreeEvent \/ GetEvent \/ CloseMySQL \/ UNCHANGED vars
      <4>1. UNCHANGED <<plen, conn, at, bytes>>
        BY <3>3 DEF SendCommand, FreeEvent, GetEvent, CloseMySQL, vars, net, pkt
      <4> QED BY <4>1 DEF WidthInv, UnreadAtEnd, Plens
    <3> QED BY <1>6, <3>1, <3>2, <3>3
  <2> QED BY <2>1, <2>2, <2>3 DEF WidthInv, Plens, UnreadAtEnd
<1> QED BY <1>3, <1>4, <1>5, <1>6 DEF Next

\* TypeOK: whatever part of a header arrives, the length the driver goes on with
\* is one that three bytes hold, unless the read failed and left it unset, and then
\* the connection has nothing more to read; nothing is read that has not arrived.
THEOREM WidthsKept == Spec => []TypeOK
<1>1. Init => WidthInv
  <2> SUFFICES ASSUME Init PROVE WidthInv
    OBVIOUS
  <2>1. Base * Base * Base \in Nat /\ Base * Base * Base > 1
    <3>1. Base \in Nat /\ Base > 1 /\ Base * Base \in Nat /\ Base * Base > 1
      BY BaseAssumption
    <3> QED BY <3>1
  <2>2. 0 \in Plens /\ 1 \in Plens
    BY <2>1 DEF Plens
  <2>3. IntMax \in Nat /\ 1 <= IntMax /\ 0 \in Ints
    BY <2>2, IntMaxAssumption DEF Ints
  <2>4. left \in -IntMax - 2 .. IntMax - 1
    BY <2>3 DEF Init
  <2>5. wire = <<>> /\ plen = 0 /\ cause = "none"
    BY DEF Init
  <2> QED BY <2>2, <2>3, <2>4, <2>5 DEF WidthInv
<1>2. SInv /\ WidthInv => TypeOK
  <2> SUFFICES ASSUME SInv, WidthInv PROVE TypeOK
    OBVIOUS
  <2>1. Total \in Nat
    BY WireFields DEF SInv, Types
  <2>2. bytes \in 0 .. Total /\ at \in 0 .. bytes
    BY <2>1 DEF SInv, Types
  <2>3. torn \in BOOLEAN /\ over \in BOOLEAN
    BY DEF SInv, Types
  <2> QED BY <2>2, <2>3 DEF SInv, Types, WidthInv, TypeOK
<1>3. SInv /\ WidthInv /\ [Next]_vars => (SInv /\ WidthInv)'
  BY SourceNext, WidthNext
<1> QED BY <1>1, <1>2, <1>3, SourceInit, PTL DEF Spec

=============================================================================
