-------------------------- MODULE FileSourceProofs --------------------------
(***************************************************************************)
(* Proofs about FileSource: the file driver implements EventSource, and an *)
(* event's own buffer lives as long as the event is used, for files of any *)
(* length, events of any length and a master that dies at any byte.        *)
(***************************************************************************)
EXTENDS FileSource, LeastElement, SequenceTheorems, TLAPS

\* Where event k + 1 begins.
Edge(k) == IF k = 0 THEN 0 ELSE End(file[k])

\* Nothing can be read any more: the library stays at the end it has met, or
\* nobody writes and everything is read.
Stuck == (io.sticky /\ eof) \/ (~alive /\ at = size)

\* Events lie one behind the other, and only the last may be cut short; while
\* its master lives only where the setting shows parts of an event.
FileInv ==
    /\ \A i \in 1 .. Len(file) : file[i].start = Edge(i - 1)
    /\ \A i, j \in 1 .. Len(file) : i < j => End(file[i]) <= file[j].start
    /\ alive /\ ~io.parts => size = Total

\* The events handed on are the first of the file.
GotInv ==
    /\ Len(got) <= Len(file)
    /\ \A i \in 1 .. Len(got) : got[i] = Extent(file[i])

\* The driver stands behind the events it has handed on, or nothing can be read.
InStep ==
    /\ pc \in {"down", "abort"} => at = 0 /\ got = <<>>
    /\ pc \in {"ready", "ended", "handed"} => Stuck \/ at = Edge(Len(got))
    /\ pc = "body" => /\ Len(got) < Len(file) /\ ~eof
                      /\ at = Edge(Len(got)) + HdrLen
                      /\ len = file[Len(got) + 1].len

\* After a torn event or a NULL that is meant nothing more can be handed on.
EndInv == torn \/ over => Stuck /\ pc \in {"ready", "handed", "ended", "closed"}

FInv == TypeOK /\ FileInv /\ GotInv /\ InStep /\ EndInv
-----------------------------------------------------------------------------
\* The offsets in the file: Begin, and a master that lives, only add to it.
LEMMA FileFields ==
    ASSUME file \in Seq([start : Nat, len : Lens])
    PROVE  /\ \A i \in 1 .. Len(file) :
                  /\ file[i].start \in Nat /\ file[i].len \in Nat
                  /\ file[i].len \in Lens /\ file[i].len >= HdrLen
                  /\ End(file[i]) \in Nat
                  /\ End(file[i]) = file[i].start + file[i].len
           /\ Len(file) \in Nat /\ DOMAIN file = 1 .. Len(file)
           /\ Total \in Nat
           /\ Len(file) = 0 => Total = 0
           /\ Len(file) > 0 => Total = End(file[Len(file)])
<1>1. Len(file) \in Nat /\ DOMAIN file = 1 .. Len(file)
  OBVIOUS
<1>2. ASSUME NEW i \in 1 .. Len(file)
      PROVE  /\ file[i].start \in Nat /\ file[i].len \in Nat
             /\ file[i].len \in Lens /\ file[i].len >= HdrLen
  <2> DEFINE S == [start : Nat, len : Lens]
  <2>1. file[i] \in S
    <3>1. file \in Seq(S)
      OBVIOUS
    <3> HIDE DEF S
    <3> QED BY <3>1
  <2>2. file[i].start \in Nat /\ file[i].len \in Lens
    BY <2>1
  <2> QED BY <2>2, LensAssumption
<1>3. file = <<>> <=> Len(file) = 0
  OBVIOUS
<1> QED BY <1>1, <1>2, <1>3 DEF End, Total

\* The edges between events are in order, and an event lies between two of them.
LEMMA Edges ==
    ASSUME TypeOK, FileInv, NEW k \in 0 .. Len(file)
    PROVE  /\ Edge(k) \in Nat /\ Edge(k) <= Total
           /\ k = Len(file) => Edge(k) = Total
           /\ k < Len(file) => /\ k + 1 \in 1 .. Len(file)
                               /\ file[k + 1].start = Edge(k)
                               /\ Edge(k + 1) = Edge(k) + file[k + 1].len
                               /\ Edge(k) + file[k + 1].len <= Total
                               /\ file[k + 1].len \in Nat /\ file[k + 1].len >= HdrLen
<1>1. /\ \A i \in 1 .. Len(file) :
             /\ file[i].start \in Nat /\ file[i].len \in Nat
             /\ file[i].len >= HdrLen
             /\ End(file[i]) \in Nat
             /\ End(file[i]) = file[i].start + file[i].len
      /\ Len(file) \in Nat /\ Total \in Nat
      /\ Len(file) = 0 => Total = 0
      /\ Len(file) > 0 => Total = End(file[Len(file)])
  BY FileFields DEF TypeOK
<1>2. ASSUME NEW i \in 1 .. Len(file)
      PROVE  End(file[i]) <= Total
  <2>1. CASE i = Len(file)
    BY <1>1, <2>1
  <2>2. CASE i < Len(file)
    <3>1. End(file[i]) <= file[Len(file)].start
      BY <1>1, <2>2 DEF FileInv
    <3>2. Len(file) \in 1 .. Len(file)
      BY <1>1, <2>2
    <3> QED BY <1>1, <3>1, <3>2
  <2> QED BY <1>1, <2>1, <2>2
<1>3. Edge(k) \in Nat /\ Edge(k) <= Total /\ (k = Len(file) => Edge(k) = Total)
  BY <1>1, <1>2 DEF Edge
<1>4. ASSUME k < Len(file)
      PROVE  /\ k + 1 \in 1 .. Len(file)
             /\ file[k + 1].start = Edge(k)
             /\ Edge(k + 1) = Edge(k) + file[k + 1].len
             /\ Edge(k) + file[k + 1].len <= Total
             /\ file[k + 1].len \in Nat /\ file[k + 1].len >= HdrLen
  <2>1. k + 1 \in 1 .. Len(file) /\ k + 1 - 1 = k /\ k + 1 # 0
    BY <1>1, <1>4
  <2>2. file[k + 1].start = Edge(k)
    BY <2>1 DEF FileInv
  <2>3. Edge(k + 1) = End(file[k + 1])
    BY <2>1 DEF Edge
  <2> QED BY <1>1, <1>2, <2>1, <2>2, <2>3
<1> QED BY <1>3, <1>4

\* Where event k + 1 begins there is its header and no other.
LEMMA EventIsThere ==
    ASSUME TypeOK, FileInv, NEW k \in 0 .. Len(file), k < Len(file), at = Edge(k)
    PROVE  LensThere = {file[k + 1].len}
<1>1. /\ k + 1 \in 1 .. Len(file) /\ file[k + 1].start = at
      /\ DOMAIN file = 1 .. Len(file) /\ Len(file) \in Nat
  BY Edges, FileFields DEF TypeOK
<1>2. ASSUME NEW i \in 1 .. Len(file), file[i].start = at
      PROVE  i = k + 1
  <2>1. /\ file[i].start \in Nat /\ End(file[i]) > file[i].start
        /\ file[k + 1].start \in Nat /\ End(file[k + 1]) > file[k + 1].start
    <3>1. ASSUME NEW j \in 1 .. Len(file)
          PROVE  file[j].start \in Nat /\ End(file[j]) > file[j].start
      <4>1. /\ file[j].start \in Nat /\ file[j].len \in Nat /\ file[j].len >= HdrLen
            /\ End(file[j]) = file[j].start + file[j].len
        BY FileFields DEF TypeOK
      <4> QED BY <4>1, SizesAssumption
    <3> QED BY <1>1, <3>1
  <2>2. /\ End(file[i]) \in Nat /\ End(file[k + 1]) \in Nat
    BY <1>1, FileFields DEF TypeOK
  <2>3. i < k + 1 => End(file[i]) <= file[k + 1].start
    BY <1>1 DEF FileInv
  <2>4. k + 1 < i => End(file[k + 1]) <= file[i].start
    BY <1>1 DEF FileInv
  <2> QED BY <1>1, <1>2, <2>1, <2>2, <2>3, <2>4
<1>3. EventsAt(at) = {file[k + 1]}
  BY <1>1, <1>2 DEF EventsAt
<1> QED BY <1>3 DEF LensThere

\* Appending to a sequence, as the master and the driver do.
LEMMA AppendFacts ==
    ASSUME NEW S, NEW s \in Seq(S), NEW e \in S
    PROVE  /\ Append(s, e) \in Seq(S)
           /\ Len(Append(s, e)) = Len(s) + 1
           /\ Append(s, e)[Len(s) + 1] = e
           /\ \A i \in 1 .. Len(s) : Append(s, e)[i] = s[i]
OBVIOUS

\* The events of the file as the abstract source sees them.
LEMMA BegunFacts ==
    ASSUME file \in Seq([start : Nat, len : Lens])
    PROVE  /\ Begun \in Seq(Nat \X Nat) /\ Len(Begun) = Len(file)
           /\ \A i \in 1 .. Len(file) : Begun[i] = Extent(file[i])
<1>1. DOMAIN file = 1 .. Len(file) /\ Len(file) \in Nat
  OBVIOUS
<1>2. \A i \in 1 .. Len(file) : Extent(file[i]) \in Nat \X Nat
  BY FileFields DEF Extent
<1>3. Begun = [i \in 1 .. Len(file) |-> Extent(file[i])]
  BY <1>1 DEF Begun
<1>4. Begun \in [1 .. Len(file) -> Nat \X Nat]
  BY <1>2, <1>3
<1> HIDE DEF Begun
<1>5. Begun \in Seq(Nat \X Nat) /\ Len(Begun) = Len(file)
  BY <1>1, <1>4
<1> QED BY <1>3, <1>5

\* An fread takes what it is asked for, or what there is and then nothing more.
LEMMA TookCases ==
    ASSUME TypeOK, NEW n \in Nat, Took(n)
    PROVE  \/ /\ Readable(n) /\ at' = at + n /\ at' <= size /\ ~eof' /\ ~(io.sticky /\ eof)
           \/ /\ ~Readable(n) /\ io.sticky /\ eof /\ at' = at /\ (n > 0 => eof')
           \/ /\ ~Readable(n) /\ ~(io.sticky /\ eof) /\ size - at < n /\ at' = size
              /\ (n > 0 => eof')
<1>1. size \in Nat /\ at \in Nat /\ at <= size /\ eof \in BOOLEAN
  <2>1. Total \in Nat
    BY FileFields DEF TypeOK
  <2> QED BY <2>1 DEF TypeOK
<1>2. /\ at' = (IF Readable(n) THEN at + n ELSE IF io.sticky /\ eof THEN at ELSE size)
      /\ Readable(n) => ~eof'
      /\ ~Readable(n) /\ n > 0 => eof'
  <2>1. eof' = (n > 0 /\ ~Readable(n))
    BY DEF Took
  <2> QED BY <2>1 DEF Took, Taken
<1>3. CASE Readable(n)
  BY <1>1, <1>2, <1>3 DEF Readable
<1>4. CASE ~Readable(n) /\ io.sticky /\ eof
  <2>1. at' = at
    BY <1>2, <1>4
  <2> QED BY <1>2, <1>4, <2>1
<1>5. CASE ~Readable(n) /\ ~(io.sticky /\ eof)
  <2>1. ~(size - at >= n)
    BY <1>5 DEF Readable
  <2>2. at' = size /\ size - at < n
    BY <1>1, <1>2, <1>5, <2>1
  <2> QED BY <1>2, <1>5, <2>2
<1> QED BY <1>3, <1>4, <1>5
-----------------------------------------------------------------------------
\* A step of the abstract source, or none.
SourceStep == [Source!Next]_<<Begun, got, torn, over>>

\* The initial states are those of the abstract source.
LEMMA SourceInit == Init => FInv /\ Source!Init
<1> SUFFICES ASSUME Init PROVE FInv /\ Source!Init
  OBVIOUS
<1>1. file \in Seq([start : Nat, len : Lens]) /\ Len(file) = 0 /\ Total = 0
  BY DEF Init, Total
<1>2. TypeOK
  <2>1. /\ alive \in BOOLEAN /\ eof \in BOOLEAN /\ torn \in BOOLEAN /\ over \in BOOLEAN
        /\ io \in Settings /\ path \in Paths
    BY DEF Init
  <2>2. /\ size \in 0 .. Total /\ at \in 0 .. size /\ newbuf \in Nat
        /\ heap \subseteq Nat \ {NoBuf} /\ got \in Seq(Nat \X Nat)
        /\ len \in Lens \union {HdrLen} /\ pc = "down"
    BY <1>1 DEF Init, NoBuf
  <2> QED BY <1>1, <2>1, <2>2 DEF TypeOK
<1>3. FileInv /\ GotInv /\ InStep /\ EndInv
  BY <1>1 DEF Init, FileInv, GotInv, InStep, EndInv
<1>4. Begun = <<>>
  BY <1>1, BegunFacts
<1>5. Source!Init
  BY <1>4 DEF Init, Source!Init
<1> QED BY <1>2, <1>3, <1>5 DEF FInv

\* What the master does with the file leaves the driver where it is.
driver == <<at, eof, pc, len, newbuf, heap, got, torn, over>>

\* The driver reads the file and does not write it.
LEMMA FileStays ==
    ASSUME file' = file
    PROVE  /\ Begun' = Begun /\ Total' = Total
           /\ \A k : Edge(k)' = Edge(k)
           /\ UNCHANGED <<io, size, alive>> => FileInv' = FileInv
BY DEF Begun, Total, Edge, End, Extent, FileInv

\* An event more, whole or not: Send is the abstract step.
LEMMA BeginStep ==
    ASSUME FInv, alive, size = Total, NEW n \in Lens, Begin(n),
           size' \in Total + 1 .. Total + n, alive' \in BOOLEAN,
           alive' /\ ~io.parts => size' = Total + n,
           UNCHANGED <<io, path, driver>>
    PROVE  FInv' /\ SourceStep
<1> DEFINE e == [start |-> Total, len |-> n]
           S == [start : Nat, len : Lens]
           m == Len(file)
<1>1. /\ file \in Seq(S) /\ m \in Nat /\ Total \in Nat /\ n \in Nat /\ n >= HdrLen
      /\ m = 0 => Total = 0
      /\ m > 0 => Total = End(file[m])
  BY FileFields, LensAssumption DEF FInv, TypeOK
<1>2. e \in S /\ file' = Append(file, e)
  BY <1>1 DEF Begin
<1>3. /\ file' \in Seq(S) /\ Len(file') = m + 1 /\ file'[m + 1] = e
      /\ \A i \in 1 .. m : file'[i] = file[i]
  <2> HIDE DEF e, S
  <2> QED BY <1>1, <1>2, AppendFacts
<1>4. /\ Total' = Total + n /\ size' <= Total' /\ size < size' /\ size' \in Nat
      /\ alive' /\ ~io.parts => size' = Total'
  <2>1. Len(file') > 0 /\ file' # <<>>
    BY <1>1, <1>3
  <2>2. Total' = End(file'[m + 1])
    BY <1>3, <2>1 DEF Total, End
  <2>3. Total' = Total + n
    BY <1>3, <2>2 DEF End
  <2> QED BY <1>1, <2>3
<1>5. /\ UNCHANGED <<io, path, at, eof, pc, len, newbuf, heap, got, torn, over>>
  BY DEF driver
<1>6. TypeOK'
  <2>1. at' \in 0 .. size'
    BY <1>1, <1>4, <1>5 DEF FInv, TypeOK
  <2>2. size' \in 0 .. Total'
    BY <1>1, <1>4
  <2> QED BY <1>3, <1>5, <2>1, <2>2 DEF FInv, TypeOK
<1>7. \A k \in 0 .. m : Edge(k)' = Edge(k)
  BY <1>3 DEF Edge, End
<1>8. FileInv'
  <2>1. ASSUME NEW i \in 1 .. m + 1
        PROVE  file'[i].start = (Edge(i - 1))'
    <3>1. CASE i \in 1 .. m
      <4>1. i - 1 \in 0 .. m
        BY <1>1, <3>1
      <4>2. file'[i] = file[i] /\ (Edge(i - 1))' = Edge(i - 1)
        BY <1>3, <1>7, <3>1, <4>1
      <4> QED BY <3>1, <4>2 DEF FInv, FileInv
    <3>2. CASE i = m + 1
      <4>1. Edge(m) = Total /\ i - 1 = m
        BY <1>1, <3>2 DEF Edge
      <4> QED BY <1>1, <1>3, <1>7, <3>2, <4>1
    <3> QED BY <1>1, <3>1, <3>2
  <2>2. ASSUME NEW i \in 1 .. m + 1, NEW j \in 1 .. m + 1, i < j
        PROVE  End(file'[i]) <= file'[j].start
    <3>1. i \in 1 .. m /\ file'[i] = file[i]
      BY <1>1, <1>3, <2>2, SMTT(30)
    <3>2. CASE j \in 1 .. m
      BY <1>3, <2>2, <3>1, <3>2 DEF FInv, FileInv
    <3>3. CASE j = m + 1
      <4>1. Edge(i) = End(file[i])
        BY <3>1 DEF Edge
      <4>2. Edge(i) <= Total
        BY <1>1, <3>1, Edges DEF FInv
      <4> QED BY <1>3, <3>1, <3>3, <4>1, <4>2
    <3> QED BY <1>1, <3>2, <3>3
  <2> QED BY <1>3, <1>4, <1>5, <2>1, <2>2 DEF FileInv, End
<1>9. Len(got) \in Nat /\ Len(got) <= m
  BY DEF FInv, TypeOK, GotInv
<1>10. GotInv'
  <2>1. ASSUME NEW i \in 1 .. Len(got)
        PROVE  got[i] = Extent(file'[i])
    <3>1. i \in 1 .. m /\ file'[i] = file[i]
      BY <1>1, <1>3, <1>9, SMTT(30)
    <3> QED BY <3>1 DEF FInv, GotInv
  <2> QED BY <1>1, <1>3, <1>5, <1>9, <2>1 DEF GotInv, Extent, End
<1>11. Stuck => Stuck'
  BY <1>5 DEF Stuck
<1>12. InStep'
  <2>1. Edge(Len(got))' = Edge(Len(got))
    BY <1>5, <1>7, <1>9
  <2>2. Len(got) < m => file'[Len(got) + 1] = file[Len(got) + 1]
    <3>1. Len(got) < m => Len(got) + 1 \in 1 .. m
      BY <1>1, <1>9
    <3> QED BY <1>3, <3>1
  <2> QED BY <1>1, <1>3, <1>5, <1>9, <1>11, <2>1, <2>2 DEF FInv, InStep
<1>13. EndInv'
  BY <1>5, <1>11 DEF FInv, EndInv
<1>14. SourceStep
  <2>1. /\ Len(Begun) = m /\ Len(Begun') = m + 1
        /\ \A i \in 1 .. m : Begun[i] = Extent(file[i])
        /\ \A i \in 1 .. m + 1 : Begun'[i] = Extent(file'[i])
    <3>1. /\ Len(Begun') = Len(file')
          /\ \A i \in 1 .. Len(file') : Begun'[i] = Extent(file'[i])
      <4>1. (file \in Seq([start : Nat, len : Lens]))'
        BY <1>3
      <4>2. (/\ Len(Begun) = Len(file)
             /\ \A i \in 1 .. Len(file) : Begun[i] = Extent(file[i]))'
        BY <4>1, BegunFacts, PTL
      <4> QED BY <4>2 DEF Extent, End
    <3> QED BY <1>1, <1>3, <3>1, BegunFacts
  <2>2. \A i \in 1 .. Len(Begun) : Begun'[i] = Begun[i]
    BY <1>1, <1>3, <2>1
  <2> QED BY <1>1, <1>5, <2>1, <2>2 DEF SourceStep, Source!Next, Source!Send
<1> QED BY <1>6, <1>8, <1>10, <1>12, <1>13, <1>14 DEF FInv

\* The master's steps send an event, or none.
LEMMA WriterStep ==
    ASSUME FInv, WriterAppends \/ WriterGoesOn \/ WriterDies
    PROVE  FInv' /\ SourceStep
<1>1. Total \in Nat /\ size \in Nat /\ at \in Nat /\ at <= size /\ size <= Total
  BY FileFields DEF FInv, TypeOK
<1>2. CASE WriterAppends
  <2>1. PICK n \in Lens : /\ Begin(n)
                          /\ size' \in IF io.parts THEN Total + 1 .. Total + n
                                                   ELSE {Total + n}
    BY <1>2 DEF WriterAppends
  <2>2. n \in Nat /\ n >= 1
    BY LensAssumption, SizesAssumption
  <2>3. size' \in Total + 1 .. Total + n /\ (~io.parts => size' = Total + n)
    BY <1>1, <2>1, <2>2
  <2>4. alive /\ size = Total /\ alive' = TRUE /\ UNCHANGED <<io, path, driver>>
    BY <1>2 DEF WriterAppends, FInv, TypeOK, place, bufs, hist, driver
  <2> QED BY <2>1, <2>3, <2>4, BeginStep
<1>3. CASE WriterDies /\ ~UNCHANGED <<file, size>>
  <2>1. PICK n \in Lens : Begin(n) /\ size' \in Total + 1 .. Total + n - 1
    BY <1>3 DEF WriterDies
  <2>2. n \in Nat
    BY LensAssumption
  <2>3. size' \in Total + 1 .. Total + n
    BY <1>1, <2>1, <2>2
  <2>4. alive /\ size = Total /\ alive' = FALSE /\ UNCHANGED <<io, path, driver>>
    BY <1>3 DEF WriterDies, place, bufs, hist, driver
  <2> QED BY <2>1, <2>3, <2>4, BeginStep
<1>4. CASE WriterGoesOn \/ (WriterDies /\ UNCHANGED <<file, size>>)
  <2>1. /\ alive /\ alive' \in BOOLEAN /\ file' = file
        /\ size' \in Nat /\ size <= size' /\ size' <= Total
        /\ UNCHANGED <<io, path, at, eof, pc, len, newbuf, heap, got, torn, over>>
        /\ alive' /\ ~io.parts => size' = Total
    <3>1. CASE WriterGoesOn
      BY <1>1, <3>1 DEF WriterGoesOn, FInv, FileInv, TypeOK, place, bufs, hist
    <3>2. CASE WriterDies /\ UNCHANGED <<file, size>>
      <4>1. /\ alive /\ alive' = FALSE /\ file' = file /\ size' = size
            /\ UNCHANGED <<io, path, at, eof, pc, len, newbuf, heap, got, torn, over>>
        BY <3>2 DEF WriterDies, place, bufs, hist
      <4>2. alive' \in BOOLEAN /\ ~alive'
        BY <4>1
      <4> QED BY <1>1, <4>1, <4>2
    <3> QED BY <1>4, <3>1, <3>2
  <2>2. Begun' = Begun /\ Total' = Total /\ \A k : Edge(k)' = Edge(k)
    BY <2>1, FileStays
  <2>3. TypeOK'
    BY <1>1, <2>1, <2>2 DEF FInv, TypeOK
  <2>4. FileInv'
    BY <2>1, <2>2 DEF FInv, FileInv, End
  <2>5. GotInv'
    BY <2>1 DEF FInv, GotInv, Extent, End
  <2>6. Stuck => Stuck'
    BY <2>1 DEF Stuck
  <2>7. InStep'
    BY <2>1, <2>2, <2>6 DEF FInv, InStep
  <2>8. EndInv'
    BY <2>1, <2>6 DEF FInv, EndInv
  <2> QED BY <2>1, <2>2, <2>3, <2>4, <2>5, <2>7, <2>8 DEF FInv, SourceStep
<1> QED BY <1>2, <1>3, <1>4
\* A driver that is stuck does not get at anything.
LEMMA StuckReads ==
    ASSUME TypeOK, Stuck, NEW n \in Nat, n > 0, Took(n), UNCHANGED <<io, alive, size>>
    PROVE  ~Readable(n) /\ at' = at /\ Stuck'
<1>1. /\ size \in Nat /\ at \in Nat /\ at <= size /\ eof \in BOOLEAN
  BY FileFields DEF TypeOK
<1>2. ~Readable(n)
  BY <1>1 DEF Stuck, Readable
<1>3. eof' /\ at' = at
  BY <1>1, <1>2, TookCases DEF Stuck
<1> QED BY <1>2, <1>3 DEF Stuck

\* While nobody is in the middle of writing, there is no part of an event.
LEMMA WholeWhileWritten ==
    ASSUME FInv, ~io.sticky, alive
    PROVE  size = Total
BY SettingsAssumption DEF FInv, TypeOK, FileInv

\* getEventFromFile up to the header: no abstract step, or NULL for good.
LEMMA ReadHeaderStep ==
    ASSUME FInv, ReadHeader
    PROVE  FInv' /\ SourceStep
<1> DEFINE k == Len(got)
<1>1. /\ pc \in {"ready", "ended"} /\ Took(HdrLen) /\ HdrLen \in Nat /\ HdrLen > 0
      /\ file' = file
      /\ UNCHANGED <<io, file, size, alive, path, got, torn>>
  BY SizesAssumption DEF ReadHeader, disk, place
<1>2. /\ size \in Nat /\ at \in Nat /\ at <= size /\ size <= Total /\ Total \in Nat
      /\ k \in 0 .. Len(file) /\ Len(file) \in Nat /\ TypeOK /\ FileInv
  BY FileFields DEF FInv, TypeOK, GotInv
<1>3. /\ Begun' = Begun /\ Total' = Total /\ (\A j : Edge(j)' = Edge(j)) /\ FileInv'
  BY <1>1, <1>2, FileStays
<1>4. GotInv'
  BY <1>1 DEF FInv, GotInv, Extent, End
<1>5. Address \in Nat \ {NoBuf} /\ NoBuf \in Nat
  BY DEF Address, NoBuf
<1>6. CASE Readable(HdrLen)
  <2>1. /\ at' = at + HdrLen /\ at' <= size /\ ~eof' /\ eof' \in BOOLEAN
    BY <1>1, <1>2, <1>6, TookCases DEF Took
  <2>2. ~Stuck
    BY <1>1, <1>2, <1>6, StuckReads
  <2>3. at = Edge(k) /\ k < Len(file) /\ ~torn /\ ~over
    <3>1. at = Edge(k) /\ ~torn /\ ~over
      BY <1>1, <2>2 DEF FInv, InStep, EndInv
    <3>2. k # Len(file)
      BY <1>1, <1>2, <2>1, <3>1, Edges
    <3> QED BY <1>2, <3>1, <3>2
  <2>4. LensThere = {file[k + 1].len} /\ file[k + 1].len \in Lens
    BY <1>2, <2>3, EventIsThere, FileFields DEF TypeOK
  <2>5. /\ pc' = "body" /\ len' \in LensThere /\ over' = over
        /\ \/ newbuf' = Address /\ heap' = heap \union {Address}
           \/ newbuf' = NoBuf /\ heap' = heap
    BY <1>6 DEF ReadHeader, NoNewbuf
  <2>6. len' = file[k + 1].len /\ len' \in Lens
    BY <2>4, <2>5
  <2>7. newbuf' \in Nat /\ heap' \subseteq Nat \ {NoBuf}
    BY <1>5, <2>5 DEF FInv, TypeOK
  <2>8. at' \in 0 .. size
    BY <1>1, <1>2, <2>1
  <2>9. TypeOK'
    BY <1>1, <1>2, <1>3, <2>1, <2>5, <2>6, <2>7, <2>8 DEF TypeOK
  <2>10. InStep'
    BY <1>1, <1>3, <2>1, <2>3, <2>5, <2>6 DEF InStep
  <2>11. EndInv'
    BY <1>1, <2>3, <2>5 DEF EndInv
  <2> QED BY <1>1, <1>3, <1>4, <2>5, <2>9, <2>10, <2>11 DEF FInv, SourceStep
<1>7. CASE ~Readable(HdrLen)
  <2>1. /\ eof' /\ eof' \in BOOLEAN /\ at' \in {at, size} /\ at' \in 0 .. size
        /\ (~(io.sticky /\ eof) => at' = size /\ size - at < HdrLen)
        /\ pc' = "ended" /\ UNCHANGED <<len, newbuf, heap>>
    <3>1. pc' = "ended" /\ UNCHANGED <<len, newbuf, heap>>
      BY <1>7 DEF ReadHeader, bufs
    <3>2. eof' \in BOOLEAN
      BY <1>1 DEF Took
    <3> QED BY <1>1, <1>2, <1>7, <3>1, <3>2, TookCases
  <2>2. over' = (over \/ io.sticky \/ ~alive)
    BY <1>7 DEF ReadHeader
  <2>3. /\ over' \in BOOLEAN /\ (over' <=> over \/ io.sticky \/ ~alive)
        /\ (over => over')
    BY <2>2
  <2>4. TypeOK'
    BY <1>1, <1>2, <1>3, <2>1, <2>3 DEF TypeOK
  <2>5. Stuck' \/ (at' = Edge(k) /\ ~torn /\ ~over /\ ~over')
    <3>1. CASE io.sticky
      BY <1>1, <2>1, <3>1 DEF Stuck
    <3>2. CASE ~io.sticky /\ ~alive
      BY <1>1, <2>1, <3>2 DEF Stuck
    <3>3. CASE ~io.sticky /\ alive
      <4>1. size = Total /\ ~Stuck /\ at' = size /\ size - at < HdrLen
        BY <2>1, <3>3, WholeWhileWritten DEF Stuck
      <4>2. at = Edge(k) /\ ~torn /\ ~over
        BY <1>1, <4>1 DEF FInv, InStep, EndInv
      <4>3. k = Len(file)
        <5> SUFFICES ASSUME k < Len(file) PROVE FALSE
          BY <1>2
        <5>1. /\ Edge(k) + file[k + 1].len <= Total /\ file[k + 1].len \in Nat
              /\ file[k + 1].len >= HdrLen /\ Edge(k) \in Nat
          BY <1>2, Edges
        <5> QED BY <1>1, <1>2, <4>1, <4>2, <5>1
      <4>4. Edge(k) = Total
        BY <1>2, <4>3, Edges
      <4> QED BY <2>3, <3>3, <4>1, <4>2, <4>4
    <3> QED BY <3>1, <3>2, <3>3
  <2>6. InStep'
    BY <1>1, <1>3, <2>1, <2>5 DEF InStep
  <2>7. EndInv'
    BY <1>1, <2>1, <2>5 DEF EndInv
  <2>8. SourceStep
    <3>1. over' = TRUE \/ over' = over
      BY <1>2, <2>2 DEF TypeOK
    <3> QED BY <1>1, <1>3, <3>1 DEF SourceStep, Source!Next, Source!Stop
  <2> QED BY <1>3, <1>4, <2>4, <2>6, <2>7, <2>8 DEF FInv
<1> QED BY <1>6, <1>7

\* getEventFromFile behind the header: the event is handed on, or it is torn.
LEMMA ReadBodyStep ==
    ASSUME FInv, ReadBody
    PROVE  FInv' /\ SourceStep
<1> DEFINE k == Len(got)
           n == BodyLen(len)
<1>1. /\ pc = "body" /\ pc' = "handed" /\ Took(n)
      /\ UNCHANGED <<io, file, size, alive, path, len, newbuf, heap, over>>
  BY DEF ReadBody, disk, place, bufs
<1>2. /\ size \in Nat /\ at \in Nat /\ at <= size /\ size <= Total /\ Total \in Nat
      /\ k \in 0 .. Len(file) /\ Len(file) \in Nat /\ TypeOK /\ FileInv
  BY FileFields DEF FInv, TypeOK, GotInv
<1>3. /\ Begun' = Begun /\ Total' = Total /\ (\A j : Edge(j)' = Edge(j)) /\ FileInv'
  BY <1>1, <1>2, FileStays
<1>4. /\ k < Len(file) /\ ~eof /\ at = Edge(k) + HdrLen /\ len = file[k + 1].len
      /\ ~torn /\ ~over
  BY <1>1 DEF FInv, InStep, EndInv
<1>5. /\ k + 1 \in 1 .. Len(file) /\ file[k + 1].start = Edge(k)
      /\ Edge(k + 1) = Edge(k) + len /\ Edge(k) \in Nat
      /\ Edge(k) + len <= Total /\ len \in Nat /\ len >= HdrLen
  BY <1>2, <1>4, Edges
<1>6. n \in Nat /\ n = len - HdrLen /\ at + n = Edge(k + 1) /\ at - HdrLen = Edge(k)
  BY <1>2, <1>4, <1>5, SizesAssumption, SMTT(30) DEF BodyLen
<1>7. at' \in 0 .. size /\ eof' \in BOOLEAN
  <2>1. eof' \in BOOLEAN
    BY <1>1 DEF Took
  <2> QED BY <1>1, <1>2, <1>6, <2>1, TookCases
<1>8. Begun[k + 1] = Extent(file[k + 1]) /\ Len(Begun) = Len(file)
  BY <1>2, <1>5, BegunFacts DEF TypeOK
<1>9. CASE Whole
  <2>1. at' = Edge(k + 1)
    <3>1. CASE Readable(n)
      BY <1>1, <1>2, <1>6, <3>1, TookCases
    <3>2. CASE n = 0
      <4>1. Readable(n)
        BY <1>2, <1>4, <3>2 DEF Readable
      <4> QED BY <1>1, <1>2, <1>6, <4>1, TookCases
    <3> QED BY <1>9, <3>1, <3>2 DEF Whole
  <2>2. got' = Append(got, <<at - HdrLen, at + n>>) /\ torn' = torn
    BY <1>9 DEF ReadBody
  <2>3. <<at - HdrLen, at + n>> = Extent(file[k + 1])
    BY <1>4, <1>5, <1>6 DEF Extent, End
  <2>4. Extent(file[k + 1]) \in Nat \X Nat
    BY <1>2, <1>5, FileFields DEF TypeOK, Extent
  <2>5. /\ got' \in Seq(Nat \X Nat) /\ Len(got') = k + 1
        /\ got'[k + 1] = Extent(file[k + 1])
        /\ \A i \in 1 .. k : got'[i] = got[i]
    <3>1. got \in Seq(Nat \X Nat) /\ got' = Append(got, Extent(file[k + 1]))
      BY <1>2, <2>2, <2>3 DEF TypeOK
    <3> QED BY <2>4, <3>1, AppendFacts
  <2>6. TypeOK'
    BY <1>1, <1>2, <1>3, <1>7, <2>2, <2>5 DEF TypeOK
  <2>7. GotInv'
    <3>1. ASSUME NEW i \in 1 .. k + 1
          PROVE  got'[i] = Extent(file[i])
      <4>1. CASE i \in 1 .. k
        BY <2>5, <4>1 DEF FInv, GotInv
      <4>2. CASE i = k + 1
        BY <2>5, <4>2
      <4> QED BY <1>2, <3>1, <4>1, <4>2
    <3>2. file' = file /\ Len(got') = k + 1 /\ k + 1 <= Len(file)
      BY <1>1, <1>2, <1>5, <2>5
    <3> HIDE DEF k
    <3> QED BY <3>1, <3>2 DEF GotInv, Extent, End
  <2>8. InStep'
    BY <1>1, <1>3, <2>1, <2>5 DEF InStep
  <2>9. EndInv'
    BY <1>1, <1>4, <2>2 DEF EndInv
  <2>10. SourceStep
    BY <1>1, <1>3, <1>4, <1>8, <2>2, <2>3 DEF SourceStep, Source!Next, Source!Hand
  <2> QED BY <1>3, <2>6, <2>7, <2>8, <2>9, <2>10 DEF FInv
<1>10. CASE ~Whole
  <2>1. torn' = TRUE /\ got' = got
    BY <1>10 DEF ReadBody
  <2>2. n > 0 /\ ~Readable(n)
    BY <1>6, <1>10 DEF Whole
  <2>3. at' = size /\ eof' /\ size - at < n
    BY <1>1, <1>2, <1>4, <1>6, <2>2, TookCases
  <2>4. io.sticky \/ ~alive
    <3> SUFFICES ASSUME ~io.sticky, alive PROVE FALSE
      OBVIOUS
    <3>1. size = Total
      BY WholeWhileWritten
    <3> QED BY <1>2, <1>5, <1>6, <2>3, <3>1
  <2>5. Stuck'
    BY <1>1, <2>3, <2>4 DEF Stuck
  <2>6. TypeOK'
    BY <1>1, <1>2, <1>3, <1>7, <2>1 DEF TypeOK
  <2>7. GotInv' /\ InStep' /\ EndInv'
    BY <1>1, <2>1, <2>5 DEF FInv, GotInv, InStep, EndInv, Extent, End
  <2>8. SourceStep
    BY <1>1, <1>3, <1>4, <1>8, <2>1 DEF SourceStep, Source!Next, Source!Tear
  <2> QED BY <1>3, <2>6, <2>7, <2>8 DEF FInv
<1> QED BY <1>9, <1>10

\* openFile, freeEventFromFile and closeFile do not touch the stream.
LEMMA QuietStep ==
    ASSUME FInv, OpenFile \/ FreeEvent \/ CloseFile \/ UNCHANGED vars
    PROVE  FInv' /\ SourceStep
<1>1. UNCHANGED <<io, file, size, alive, path, at, eof, len, newbuf, got, torn, over>>
  BY DEF OpenFile, FreeEvent, CloseFile, vars, disk, place, bufs, hist
<1>2. /\ heap' \subseteq heap
      /\ \/ pc = "down" /\ pc' \in {"ready", "abort"}
         \/ pc = "handed" /\ pc' = "ready"
         \/ pc \in {"ready", "ended"} /\ pc' = "closed"
         \/ pc' = pc
  BY DEF OpenFile, FreeEvent, CloseFile, vars, bufs
<1>3. /\ Begun' = Begun /\ Total' = Total /\ \A k : Edge(k)' = Edge(k)
  BY <1>1, FileStays
<1>4. TypeOK'
  <2>1. heap' \subseteq Nat \ {NoBuf}
    BY <1>2 DEF FInv, TypeOK
  <2>2. pc' \in {"down", "ready", "body", "handed", "ended", "closed", "abort"}
    BY <1>2 DEF FInv, TypeOK
  <2> QED BY <1>1, <1>3, <2>1, <2>2 DEF FInv, TypeOK
<1>5. FileInv' /\ GotInv'
  BY <1>1, FileStays DEF FInv, GotInv, Extent, End
<1>6. Stuck' = Stuck
  BY <1>1 DEF Stuck
<1>7. InStep'
  <2>1. (Len(got) = 0 /\ at = Edge(Len(got))) \/ pc # "down"
    BY DEF FInv, InStep, Edge
  <2> QED BY <1>1, <1>2, <1>3, <1>6, <2>1 DEF FInv, InStep
<1>8. EndInv'
  BY <1>1, <1>2, <1>6 DEF FInv, EndInv
<1> QED BY <1>1, <1>3, <1>4, <1>5, <1>7, <1>8 DEF FInv, SourceStep

\* Every step keeps the invariant and is a step of the abstract source, or none.
LEMMA SourceNext == FInv /\ [Next]_vars => FInv' /\ SourceStep
<1> SUFFICES ASSUME FInv, [Next]_vars PROVE FInv' /\ SourceStep
  OBVIOUS
<1>1. CASE WriterAppends \/ WriterGoesOn \/ WriterDies
  BY <1>1, WriterStep
<1>2. CASE ReadHeader
  BY <1>2, ReadHeaderStep
<1>3. CASE ReadBody
  BY <1>3, ReadBodyStep
<1>4. CASE OpenFile \/ FreeEvent \/ CloseFile \/ UNCHANGED vars
  BY <1>4, QuietStep
<1> QED BY <1>1, <1>2, <1>3, <1>4 DEF Next, DriverStep
-----------------------------------------------------------------------------
\* TypeOK: the offsets of the driver and of its master stay in the file.
THEOREM OffsetsKept == Spec => []TypeOK
<1>1. FInv => TypeOK
  BY DEF FInv
<1>2. Init => FInv
  BY SourceInit
<1>3. FInv /\ [Next]_vars => FInv'
  BY SourceNext
<1> QED BY <1>1, <1>2, <1>3, PTL DEF Spec

\* InOrder: the file driver implements EventSource.  getEventFromFile hands on
\* the events of the file in order, none left out, while it is written and when
\* its master dies at any byte; nothing comes behind a torn event or a NULL that
\* is for good.
THEOREM FileImplementsSource == Spec => InOrder
<1>1. Init => FInv /\ Source!Init
  BY SourceInit
<1>2. FInv /\ [Next]_vars => FInv' /\ [Source!Next]_<<Begun, got, torn, over>>
  BY SourceNext DEF SourceStep
<1>3. (Source!Init /\ [][Source!Next]_<<Begun, got, torn, over>>) => InOrder
  BY DEF InOrder, Source!Spec
<1> QED BY <1>1, <1>2, <1>3, PTL DEF Spec

\* BufferDiscipline: getEventFromFile's own buffer for a long event is on the
\* heap exactly while the client holds the event, and is freed once.
THEOREM BufferLivesWithEvent == Spec => []BufferDiscipline
<1>1. Init => BufferDiscipline
  BY DEF Init, BufferDiscipline
<1>2. BufferDiscipline /\ [Next]_vars => BufferDiscipline'
  <2> SUFFICES ASSUME BufferDiscipline, [Next]_vars PROVE BufferDiscipline'
    OBVIOUS
  <2>1. CASE ReadHeader
    <3>1. heap = {} /\ Address = 1
      BY <2>1 DEF ReadHeader, BufferDiscipline, Address
    <3> QED BY <2>1, <3>1 DEF ReadHeader, BufferDiscipline, bufs, NoBuf, NoNewbuf
  <2>2. CASE ReadBody
    BY <2>2 DEF ReadBody, BufferDiscipline, bufs
  <2>3. CASE FreeEvent
    BY <2>3 DEF FreeEvent, BufferDiscipline
  <2>4. CASE OpenFile \/ CloseFile
    BY <2>4 DEF OpenFile, CloseFile, BufferDiscipline, bufs
  <2>5. CASE WriterAppends \/ WriterGoesOn \/ WriterDies \/ UNCHANGED vars
    BY <2>5 DEF WriterAppends, WriterGoesOn, WriterDies, vars, BufferDiscipline, bufs
  <2> QED BY <2>1, <2>2, <2>3, <2>4, <2>5 DEF Next, DriverStep
<1> QED BY <1>1, <1>2, PTL DEF Spec

-----------------------------------------------------------------------------
(* The URL. *)

\* parseFileUrl's loop as a function of the rounds it has done.
Scans == [i : Nat, next : Nat, path : Nat, file : Nat]

LEMMA FileScanned ==
    ASSUME NEW url \in Seq(1 .. 255)
    PROVE  \E f : /\ f[0] = StartFile
                  /\ \A k \in 1 .. Len(url) : f[k] = AdvancedFile(url, f[k - 1])
                  /\ ScanFile(url) = f[Len(url)]
<1> DEFINE n == Len(url)
           F(f) == [k \in 0 .. n |-> IF k = 0 THEN StartFile ELSE AdvancedFile(url, f[k - 1])]
           scan == CHOOSE f : f = F(f)
           G == [p \in (1 .. n) \X Scans |-> AdvancedFile(url, p[2])]
<1>1. n \in Nat
  OBVIOUS
<1>2. ScanFile(url) = scan[n]
  BY DEF ScanFile
<1>3. StartFile \in Scans
  BY DEF StartFile, Scans, Colon
<1>4. ASSUME NEW s \in Scans PROVE AdvancedFile(url, s) \in Scans
  <2>1. s.i \in Nat /\ s.next \in Nat /\ s.path \in Nat /\ s.file \in Nat
    BY DEF Scans
  <2> DEFINE p == s.i + 1
  <2>2. p \in Nat /\ p + 3 \in Nat /\ p + 3 + 1 \in Nat /\ 47 \in Nat
    <3>1. ASSUME NEW i \in Nat PROVE i + 1 \in Nat /\ i + 1 + 3 \in Nat /\ i + 1 + 3 + 1 \in Nat
      OBVIOUS
    <3>2. 47 \in Nat
      OBVIOUS
    <3> QED BY <2>1, <3>1, <3>2
  <2>3. /\ [s EXCEPT !.i = p] \in Scans
        /\ [i |-> p + 3 + 1, next |-> 47, path |-> p + 3 + 1, file |-> s.file] \in Scans
        /\ [s EXCEPT !.i = p + 3, !.file = p + 3] \in Scans
    <3> HIDE DEF p
    <3> QED BY <2>1, <2>2 DEF Scans
  <2>4. \/ AdvancedFile(url, s) = [s EXCEPT !.i = p]
        \/ AdvancedFile(url, s)
             = [i |-> p + 3 + 1, next |-> 47, path |-> p + 3 + 1, file |-> s.file]
        \/ AdvancedFile(url, s) = [s EXCEPT !.i = p + 3, !.file = p + 3]
    BY Zenon DEF AdvancedFile, PassedFile, Behind, Slash
  <2> HIDE DEF p
  <2> QED BY <2>3, <2>4
<1>5. ASSUME NEW k \in 1 .. n, NEW s \in Scans
      PROVE  G[<<k, s>>] = AdvancedFile(url, s)
  <2>1. <<k, s>> \in (1 .. n) \X Scans
    OBVIOUS
  <2> HIDE DEF n
  <2> QED BY <2>1
<1>6. StaysWithin(G, n, Scans)
  <2>1. ASSUME NEW k \in 1 .. n, NEW s \in Scans PROVE G[<<k, s>>] \in Scans
    <3>1. G[<<k, s>>] = AdvancedFile(url, s) /\ AdvancedFile(url, s) \in Scans
      BY <1>4, <1>5
    <3> HIDE DEF G, n
    <3> QED BY <3>1
  <2> HIDE DEF G, n
  <2> QED BY <2>1, Zenon DEF StaysWithin
<1>7. PICK f : Steps(f, n, StartFile, G)
  <2> HIDE DEF G, n
  <2> QED BY <1>1, StepsExist
<1>8. f[0] = StartFile /\ \A k \in 1 .. n : f[k] = G[<<k, f[k - 1]>>]
  <2> HIDE DEF G, n
  <2> QED BY <1>1, <1>7, StepsAre
<1>9. \A k \in 0 .. n : f[k] \in Scans
  <2>1. Within(f, n, Scans)
    <3> HIDE DEF G, n
    <3> QED BY <1>1, <1>3, <1>6, <1>7, StepsStay
  <2> QED BY <2>1 DEF Within
<1>10. ASSUME NEW k \in 1 .. n PROVE f[k] = AdvancedFile(url, f[k - 1])
  <2>1. k - 1 \in 0 .. n
    BY <1>1
  <2>2. f[k - 1] \in Scans
    BY <1>9, <2>1
  <2> HIDE DEF G, n
  <2> QED BY <1>5, <1>8, <2>2
<1>11. f = F(f)
  <2>1. f = [k \in 0 .. n |-> IF k = 0 THEN StartFile ELSE G[<<k, f[k - 1]>>]]
    <3> HIDE DEF G, n
    <3> QED BY <1>7 DEF Steps
  <2>2. \A k \in 0 .. n : (IF k = 0 THEN StartFile ELSE G[<<k, f[k - 1]>>])
                            = (IF k = 0 THEN StartFile ELSE AdvancedFile(url, f[k - 1]))
    <3>1. ASSUME NEW k \in 1 .. n PROVE G[<<k, f[k - 1]>>] = AdvancedFile(url, f[k - 1])
      BY <1>8, <1>10
    <3>2. \A k \in 0 .. n : k # 0 => k \in 1 .. n
      BY <1>1
    <3> HIDE DEF G, n
    <3> QED BY <3>1, <3>2
  <2> HIDE DEF G, n
  <2> QED BY <2>1, <2>2, Zenon
<1>12. scan = F(scan)
  <2> HIDE DEF F
  <2> QED BY <1>11
<1>13. scan[0] = StartFile /\ \A k \in 1 .. n : scan[k] = AdvancedFile(url, scan[k - 1])
  <2>1. \A k \in 0 .. n : scan[k] = IF k = 0 THEN StartFile ELSE AdvancedFile(url, scan[k - 1])
    <3> HIDE DEF scan, n
    <3> QED BY <1>12
  <2>2. 0 \in 0 .. n /\ \A k \in 1 .. n : k \in 0 .. n /\ k # 0
    BY <1>1
  <2> HIDE DEF scan, n
  <2> QED BY <2>1, <2>2
<1> HIDE DEF scan
<1> QED BY <1>2, <1>13

\* parseFileUrl: the colon of the scheme is the only separator it finds, and
\* what stands behind the two slashes is the path.
LEMMA PlainPathFound ==
    ASSUME NEW p \in Seq(1 .. 255), Plain(p)
    PROVE  parseFileUrl(UrlOf(p)).path = p
<1> DEFINE scheme == <<102, 105, 108, 101, Colon, Slash, Slash>>
           url == UrlOf(p)
           n == Len(url)
<1>1. scheme \in Seq(1 .. 255) /\ Len(scheme) = 7
  BY DEF Colon, Slash
<1>2. Len(p) \in Nat /\ Len(p) > 0 /\ DOMAIN p = 1 .. Len(p)
  BY DEF Plain
<1>3. url \in Seq(1 .. 255) /\ n = 7 + Len(p)
  <2>1. url = scheme \o p
    BY DEF UrlOf
  <2>2. scheme \o p \in Seq(1 .. 255) /\ Len(scheme \o p) = Len(scheme) + Len(p)
    <3> HIDE DEF scheme
    <3> QED BY <1>1, ConcatProperties
  <2> HIDE DEF scheme, url
  <2> QED BY <1>1, <2>1, <2>2 DEF n
<1>4. \A k \in 1 .. n : url[k] = IF k <= 7 THEN scheme[k] ELSE p[k - 7]
  <2>1. url = scheme \o p
    BY DEF UrlOf
  <2> HIDE DEF scheme, url
  <2> QED BY <1>1, <1>3, <2>1
<1>5. /\ url[2] # Colon /\ url[3] # Colon /\ url[4] # Colon /\ url[5] = Colon
      /\ 8 <= n /\ url[8] = p[1]
  <2>1. 2 \in 1 .. n /\ 3 \in 1 .. n /\ 4 \in 1 .. n /\ 5 \in 1 .. n /\ 8 \in 1 .. n
    BY <1>2, <1>3
  <2>2. scheme[2] # Colon /\ scheme[3] # Colon /\ scheme[4] # Colon /\ scheme[5] = Colon
    BY DEF Colon
  <2>3. url[2] = scheme[2] /\ url[3] = scheme[3] /\ url[4] = scheme[4] /\ url[5] = scheme[5]
    <3> HIDE DEF scheme, url, n
    <3> QED BY <1>4, <2>1
  <2>4. url[8] = p[1]
    <3> HIDE DEF scheme, url, n
    <3> QED BY <1>4, <2>1
  <2> HIDE DEF scheme, url, n
  <2> QED BY <2>1, <2>2, <2>3, <2>4
<1>6. p[1] # Slash
  BY DEF Plain
<1>7. ASSUME NEW k \in 9 .. n PROVE url[k] # Colon
  <2>1. k - 7 \in DOMAIN p /\ k \in 1 .. n /\ ~(k <= 7)
    BY <1>2, <1>3
  <2>2. p[k - 7] # Colon
    BY <2>1 DEF Plain
  <2> HIDE DEF scheme, url, n
  <2> QED BY <1>4, <2>1, <2>2
<1>8. PICK f : /\ f[0] = StartFile
               /\ \A k \in 1 .. n : f[k] = AdvancedFile(url, f[k - 1])
               /\ ScanFile(url) = f[n]
  <2> HIDE DEF url
  <2> QED BY <1>3, FileScanned
<1> HIDE DEF scheme, url, n
<1>9. ASSUME NEW k \in 1 .. n, NEW i \in Nat, f[k - 1] = [StartFile EXCEPT !.i = i],
             i + 1 > n \/ url[i + 1] # Colon
      PROVE  f[k] = [StartFile EXCEPT !.i = i + 1]
  <2>1. f[k] = PassedFile(url, f[k - 1], f[k - 1].i + 1)
    BY <1>8 DEF AdvancedFile
  <2>2. f[k - 1].i = i /\ f[k - 1].next = Colon
    BY <1>9 DEF StartFile
  <2>3. PassedFile(url, f[k - 1], i + 1) = [f[k - 1] EXCEPT !.i = i + 1]
    BY <1>9, <2>2 DEF PassedFile, n
  <2>4. [f[k - 1] EXCEPT !.i = i + 1] = [StartFile EXCEPT !.i = i + 1]
    BY <1>9 DEF StartFile
  <2> QED BY <2>1, <2>2, <2>3, <2>4
<1>10. f[3] = [StartFile EXCEPT !.i = 4]
  <2>1. f[0] = [StartFile EXCEPT !.i = 1]
    BY <1>8 DEF StartFile
  <2>2. ASSUME NEW k \in {1, 2, 3}, f[k - 1] = [StartFile EXCEPT !.i = k]
        PROVE  f[k] = [StartFile EXCEPT !.i = k + 1]
    <3>1. k \in 1 .. n /\ k \in Nat /\ url[k + 1] # Colon
      BY <1>3, <1>5
    <3> QED BY <1>9, <2>2, <3>1
  <2>3. 1 - 1 = 0 /\ 1 + 1 = 2 /\ 2 - 1 = 1 /\ 2 + 1 = 3 /\ 3 - 1 = 2 /\ 3 + 1 = 4
    OBVIOUS
  <2>4. f[1] = [StartFile EXCEPT !.i = 2]
    BY <2>1, <2>2, <2>3
  <2>5. f[2] = [StartFile EXCEPT !.i = 3]
    BY <2>2, <2>3, <2>4
  <2> QED BY <2>2, <2>3, <2>5
<1> DEFINE Found(k, i) == f[k] = [i |-> i, next |-> Colon, path |-> 0, file |-> 8]
           Rounds == {m \in 0 .. n - 4 : Found(4 + m, 8 + m)}
<1>11. Found(4, 8)
  <2>1. 4 \in 1 .. n /\ f[4] = PassedFile(url, f[3], f[3].i + 1)
    BY <1>3, <1>5, <1>8 DEF AdvancedFile
  <2>2. f[3].i = 4 /\ f[3].next = Colon /\ f[3].path = 0 /\ f[3].file = 0
    BY <1>10 DEF StartFile
  <2>3. PassedFile(url, f[3], 5) = [f[3] EXCEPT !.i = 8, !.file = 8]
    BY <1>3, <1>5, <1>6, <2>2 DEF PassedFile, Behind, n
  <2>4. [f[3] EXCEPT !.i = 8, !.file = 8] = [i |-> 8, next |-> Colon, path |-> 0, file |-> 8]
    <3>1. f[3] = [i |-> 4, next |-> Colon, path |-> 0, file |-> 0]
      BY <1>10 DEF StartFile
    <3>2. ASSUME NEW g, g = [i |-> 4, next |-> Colon, path |-> 0, file |-> 0]
          PROVE  [g EXCEPT !.i = 8, !.file = 8]
                   = [i |-> 8, next |-> Colon, path |-> 0, file |-> 8]
      <4> DEFINE h == [g EXCEPT !.i = 8]
      <4>1. h = [i |-> 8, next |-> Colon, path |-> 0, file |-> 0]
        BY <3>2
      <4>2. [h EXCEPT !.file = 8] = [i |-> 8, next |-> Colon, path |-> 0, file |-> 8]
        <5> HIDE DEF h
        <5> QED BY <4>1
      <4> QED BY <4>2
    <3> QED BY <3>1, <3>2
  <2> QED BY <2>1, <2>2, <2>3, <2>4
<1>12. ASSUME NEW m \in 1 .. n - 4, Found(4 + (m - 1), 8 + (m - 1))
       PROVE  Found(4 + m, 8 + m)
  <2>1. 4 + m \in 1 .. n /\ (4 + m) - 1 = 4 + (m - 1) /\ 8 + m = 8 + (m - 1) + 1
    BY <1>3, <1>5
  <2> DEFINE g == f[4 + (m - 1)]
  <2>2. f[4 + m] = PassedFile(url, g, g.i + 1)
    BY <1>8, <2>1 DEF AdvancedFile
  <2>3. g = [i |-> 8 + (m - 1), next |-> Colon, path |-> 0, file |-> 8]
    BY <1>12
  <2> HIDE DEF g
  <2>4. g.i + 1 = 8 + m /\ g.next = Colon
    BY <2>1, <2>3
  <2>5. 8 + m > n \/ url[8 + m] # Colon
    <3>1. 8 + m \in Nat /\ 9 <= 8 + m /\ n \in Nat
      BY <1>3 DEF n
    <3>2. CASE 8 + m <= n
      <4>1. 8 + m \in 9 .. n
        BY <3>1, <3>2
      <4> QED BY <1>7, <4>1
    <3>3. CASE ~(8 + m <= n)
      BY <3>1, <3>3
    <3> QED BY <3>2, <3>3
  <2>6. PassedFile(url, g, 8 + m) = [g EXCEPT !.i = 8 + m]
    BY <2>4, <2>5 DEF PassedFile, n
  <2>7. [g EXCEPT !.i = 8 + m] = [i |-> 8 + m, next |-> Colon, path |-> 0, file |-> 8]
    BY <2>3
  <2> QED BY <2>2, <2>4, <2>6, <2>7
<1>13. n - 4 \in Nat /\ n \in Nat /\ 4 + (n - 4) = n
  BY <1>2, <1>3
<1>14. Rounds = 0 .. n - 4
  <2>1. 0 \in Rounds
    <3>1. 4 + 0 = 4 /\ 8 + 0 = 8 /\ 0 \in 0 .. n - 4
      BY <1>13
    <3> HIDE DEF Found
    <3> QED BY <1>11, <3>1
  <2>2. ASSUME NEW m \in 1 .. n - 4, m - 1 \in Rounds PROVE m \in Rounds
    <3> HIDE DEF Found
    <3> QED BY <1>12, <2>2
  <2>3. Rounds \in SUBSET (0 .. n - 4)
    OBVIOUS
  <2> HIDE DEF Rounds
  <2> QED BY <1>13, <2>1, <2>2, <2>3, Upwards
<1>15. ScanFile(url).path = 0 /\ ScanFile(url).file = 8
  <2>1. n - 4 \in Rounds
    <3> HIDE DEF Rounds
    <3> QED BY <1>13, <1>14
  <2>2. Found(n, 8 + (n - 4))
    <3> HIDE DEF Found
    <3> QED BY <1>13, <2>1
  <2> QED BY <1>8, <2>2
<1>16. parseFileUrl(url).path = SubSeq(url, 8, Len(url))
  BY <1>15 DEF parseFileUrl, FieldsFile, RestOf
<1>17. SubSeq(url, 8, Len(url)) = p
  <2> DEFINE s == SubSeq(url, 8, Len(url))
  <2>1. Len(s) = Len(p) /\ s \in Seq(1 .. 255)
    <3>1. /\ s \in Seq(1 .. 255)
          /\ Len(s) = IF 8 <= Len(url) THEN Len(url) - 8 + 1 ELSE 0
      <4>1. 8 \in Int /\ Len(url) \in Int
        BY <1>2, <1>3 DEF n
      <4>2. \A i \in 8 .. Len(url) : url[i] \in 1 .. 255
        <5>1. \A i \in 8 .. Len(url) : i \in 1 .. Len(url)
          OBVIOUS
        <5>2. url \in Seq(1 .. 255)
          BY <1>3
        <5> QED BY <5>1, <5>2, ElementOfSeq
      <4> DEFINE B == 1 .. 255
      <4> HIDE DEF B
      <4>3. \A i \in 8 .. Len(url) : url[i] \in B
        BY <4>2 DEF B
      <4> QED BY <4>1, <4>3, SubSeqProperties DEF B
    <3> HIDE DEF s
    <3> QED BY <1>2, <1>3, <3>1 DEF n
  <2>2. ASSUME NEW k \in 1 .. Len(p) PROVE s[k] = p[k]
    <3>1. s[k] = url[8 + k - 1]
      BY <1>2, <1>3 DEF n
    <3>2. 7 + k \in 1 .. n /\ ~(7 + k <= 7) /\ 8 + k - 1 = 7 + k /\ 7 + k - 7 = k
      BY <1>2, <1>3
    <3> HIDE DEF s
    <3> QED BY <1>4, <3>1, <3>2
  <2> HIDE DEF s
  <2>3. s = p
    <3> HIDE DEF s
    <3> QED BY <2>1, <2>2, SeqEqual
  <2> QED BY <2>3 DEF s
<1> QED BY <1>16, <1>17 DEF url

\* parseFileUrl, openFile: whatever relative path without a colon an application
\* means by file://path, that is the path the driver opens.
THEOREM PathIsOpened == Spec => []PathOpened
<1> DEFINE Inv == path \in Paths /\ PathOpened
<1>1. Init => Inv
  BY DEF Init, PathOpened
<1>2. Inv /\ [Next]_vars => Inv'
  <2> SUFFICES ASSUME Inv, [Next]_vars PROVE Inv'
    OBVIOUS
  <2>1. CASE OpenFile
    <3>1. path' = path /\ opened' = parseFileUrl(UrlOf(path)).path
      BY <2>1 DEF OpenFile
    <3>2. path \in Seq(1 .. 255)
      BY PathsAssumption
    <3>3. Plain(path) => opened' = path
      BY <3>1, <3>2, PlainPathFound
    <3> QED BY <3>1, <3>3 DEF PathOpened, Plain
  <2>2. CASE UNCHANGED <<path, opened>>
    BY <2>2 DEF PathOpened, Plain
  <2>3. OpenFile \/ UNCHANGED <<path, opened>>
    BY DEF Next, WriterAppends, WriterGoesOn, WriterDies, DriverStep, ReadHeader, ReadBody,
           FreeEvent, CloseFile, vars, place
  <2> QED BY <2>1, <2>2, <2>3
<1>3. Inv => PathOpened
  OBVIOUS
<1> QED BY <1>1, <1>2, <1>3, PTL DEF Spec
=============================================================================
