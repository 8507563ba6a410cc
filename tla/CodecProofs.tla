---------------------------- MODULE CodecProofs ----------------------------
(***************************************************************************)
(* The parser's operators on the bytes of a master: what MasterEvent       *)
(* writes, RowImage reads, for every table of up to MostFields columns,    *)
(* every value its columns may hold and wherever it stands in an event.    *)
(* A DECIMAL is the exception: DecimalRead is a hypothesis wherever one is *)
(* met.                                                                    *)
(***************************************************************************)
EXTENDS MasterEvent, LeastElement, SequenceTheorems

\* An event in bytes.
Octets == Seq(0 .. 255)

\* Every byte of an event is one.
LEMMA OctetsAre ==
    ASSUME NEW e \in Octets
    PROVE  Len(e) \in Nat /\ \A i \in 1 .. Len(e) : e[i] \in 0 .. 255
<1>1. e \in Seq(0 .. 255)
  BY DEF Octets
<1> QED BY <1>1, LenProperties

\* getUint8 .. getUint64, round by round: the high byte comes first.
LEMMA UintSteps ==
    ASSUME NEW n \in Nat, NEW b \in [1 .. n -> Nat], Len(b) = n
    PROVE  \E value \in [0 .. n -> Nat] :
             /\ value[0] = 0 /\ \A i \in 1 .. n : value[i] = b[n + 1 - i] + 256 * value[i - 1]
             /\ Uint(b) = value[n]
<1> DEFINE F(f) == [i \in 0 .. n |-> IF i = 0 THEN 0 ELSE b[n + 1 - i] + 256 * f[i - 1]]
           value == CHOOSE f : f = F(f)
           G == [p \in (1 .. n) \X Nat |-> b[n + 1 - p[1]] + 256 * p[2]]
           Nats == {i \in 0 .. n : value[i] \in Nat}
<1>1. Uint(b) = value[n]
  BY DEF Uint
<1>2. G \in [(1 .. n) \X Nat -> Nat]
  <2>1. \A i \in 1 .. n, v \in Nat : b[n + 1 - i] + 256 * v \in Nat
    OBVIOUS
  <2>2. \A p \in (1 .. n) \X Nat : p[1] \in 1 .. n /\ p[2] \in Nat
    OBVIOUS
  <2> QED BY <2>1, <2>2
<1>3. \E f : f = F(f)
  <2>1. PICK f \in [0 .. n -> Nat] : f[0] = 0 /\ \A i \in 1 .. n : f[i] = G[<<i, f[i - 1]>>]
    <3>1. 0 \in Nat
      OBVIOUS
    <3> HIDE DEF G, F, value, Nats
    <3> QED BY <1>2, <3>1, StepsDefine, ZenonT(60)
  <2>2. ASSUME NEW i \in 1 .. n PROVE f[i] = b[n + 1 - i] + 256 * f[i - 1]
    <3>1. i - 1 \in 0 .. n /\ <<i, f[i - 1]>> \in (1 .. n) \X Nat
      BY <2>1
    <3>2. G[<<i, f[i - 1]>>] = b[n + 1 - i] + 256 * f[i - 1]
      BY <3>1
    <3> QED BY <2>1, <3>2
  <2>3. \A i \in 0 .. n : f[i] = IF i = 0 THEN 0 ELSE b[n + 1 - i] + 256 * f[i - 1]
    BY <2>1, <2>2
  <2>4. f = F(f)
    BY <2>1, <2>3
  <2> QED BY <2>4, ZenonT(60)
<1>4. value = F(value)
  <2> HIDE DEF F
  <2> QED BY <1>3
<1>5. value[0] = 0 /\ \A i \in 1 .. n : value[i] = b[n + 1 - i] + 256 * value[i - 1]
  <2> HIDE DEF value
  <2> QED BY <1>4
<1>6. Nats = 0 .. n
  <2>1. 0 \in Nats
    <3> HIDE DEF value
    <3> QED BY <1>5
  <2>2. ASSUME NEW i \in 1 .. n, i - 1 \in Nats PROVE i \in Nats
    <3> HIDE DEF value
    <3>1. value[i - 1] \in Nat
      BY <2>2
    <3>2. n + 1 - i \in 1 .. n
      OBVIOUS
    <3>3. b[n + 1 - i] \in Nat
      BY <3>2
    <3>4. value[i] \in Nat
      BY <1>5, <3>1, <3>3
    <3> QED BY <3>4
  <2>3. Nats \in SUBSET (0 .. n)
    OBVIOUS
  <2> HIDE DEF Nats, value, F
  <2> QED BY <2>1, <2>2, <2>3, Upwards
<1>7. value \in [0 .. n -> Nat]
  <2> HIDE DEF value
  <2>1. \A i \in 0 .. n : value[i] \in Nat
    BY <1>6
  <2> QED BY <1>4, <2>1
<1> HIDE DEF value
<1> QED BY <1>1, <1>5, <1>7

\* The lowest bytes of what is left of a number.
LowBytes(high, n) == [i \in 1 .. n |-> high[i - 1] % 256]

\* A number, and what is left of it without its lowest bytes.
Shifted(high, v, n) ==
    /\ high \in [0 .. n -> Nat]
    /\ high[0] = v /\ \A i \in 1 .. n : high[i] = high[i - 1] \div 256

\* The bytes of a number: each is the lowest of what is left.
LEMMA LittleSteps ==
    ASSUME NEW v \in Nat, NEW n \in Nat
    PROVE  \E high : Shifted(high, v, n) /\ LittleBytes(v, n) = LowBytes(high, n)
<1> DEFINE F(f) == [i \in 0 .. n |-> IF i = 0 THEN v ELSE f[i - 1] \div 256]
           high == CHOOSE f : f = F(f)
           G == [p \in (1 .. n) \X Nat |-> p[2] \div 256]
           Nats == {i \in 0 .. n : high[i] \in Nat}
<1>1. LittleBytes(v, n) = LowBytes(high, n)
  BY DEF LittleBytes, LowBytes
<1>2. G \in [(1 .. n) \X Nat -> Nat]
  <2>1. \A w \in Nat : w \div 256 \in Nat
    OBVIOUS
  <2>2. \A p \in (1 .. n) \X Nat : p[2] \in Nat
    OBVIOUS
  <2> QED BY <2>1, <2>2
<1>3. \E f : f = F(f)
  <2>1. PICK f \in [0 .. n -> Nat] : f[0] = v /\ \A i \in 1 .. n : f[i] = G[<<i, f[i - 1]>>]
    <3> HIDE DEF G, F, high, Nats
    <3> QED BY <1>2, StepsDefine
  <2>2. ASSUME NEW i \in 1 .. n PROVE f[i] = f[i - 1] \div 256
    <3>1. i - 1 \in 0 .. n /\ <<i, f[i - 1]>> \in (1 .. n) \X Nat
      BY <2>1
    <3>2. G[<<i, f[i - 1]>>] = f[i - 1] \div 256
      BY <3>1
    <3> QED BY <2>1, <3>2
  <2>3. \A i \in 0 .. n : f[i] = IF i = 0 THEN v ELSE f[i - 1] \div 256
    BY <2>1, <2>2
  <2>4. f = F(f)
    BY <2>1, <2>3
  <2> QED BY <2>4
<1>4. high = F(high)
  <2> HIDE DEF F
  <2> QED BY <1>3
<1> HIDE DEF high
<1>5. high[0] = v /\ \A i \in 1 .. n : high[i] = high[i - 1] \div 256
  BY <1>4
<1>6. Nats = 0 .. n
  <2>1. 0 \in Nats
    BY <1>5
  <2>2. ASSUME NEW i \in 1 .. n, i - 1 \in Nats PROVE i \in Nats
    <3>1. high[i - 1] \in Nat
      BY <2>2
    <3> QED BY <1>5, <3>1
  <2>3. Nats \in SUBSET (0 .. n)
    OBVIOUS
  <2> HIDE DEF Nats
  <2> QED BY <2>1, <2>2, <2>3, Upwards
<1>7. high \in [0 .. n -> Nat]
  <2>1. \A i \in 0 .. n : high[i] \in Nat
    BY <1>6
  <2> QED BY <1>4, <2>1
<1> QED BY <1>1, <1>5, <1>7 DEF Shifted

\* A number in n bytes is n bytes.
LEMMA LittleBytesAre ==
    ASSUME NEW v \in Nat, NEW n \in Nat
    PROVE  LittleBytes(v, n) \in Octets /\ Len(LittleBytes(v, n)) = n
<1>1. PICK high : Shifted(high, v, n) /\ LittleBytes(v, n) = LowBytes(high, n)
  BY LittleSteps
<1>2. ASSUME NEW i \in 1 .. n PROVE high[i - 1] % 256 \in 0 .. 255
  <2>1. i - 1 \in 0 .. n
    OBVIOUS
  <2>2. high[i - 1] \in Nat
    BY <1>1, <2>1 DEF Shifted
  <2>3. \A w \in Nat : w % 256 \in 0 .. 255
    OBVIOUS
  <2> QED BY <2>2, <2>3
<1>3. LowBytes(high, n) \in Seq(0 .. 255) /\ Len(LowBytes(high, n)) = n
  BY <1>2 DEF LowBytes
<1> QED BY <1>1, <1>3 DEF Octets

\* What n bytes hold: for more than three, four suffice here.
FourBytes == 4294967296
Fits(v, n) == CASE n = 1 -> v < 256 [] n = 2 -> v < 65536 [] n = 3 -> v < 16777216
                [] OTHER -> v < FourBytes

\* getUint8 .. getUint64 read what the master wrote in as many bytes.
LEMMA LittleRead ==
    ASSUME NEW v \in Nat, NEW n \in {1, 2, 3, 4, 6, 8}, Fits(v, n)
    PROVE  Uint(LittleBytes(v, n)) = v
<1> DEFINE b == LittleBytes(v, n)
<1>0. n \in Nat
  OBVIOUS
<1>a. PICK high : Shifted(high, v, n) /\ LittleBytes(v, n) = LowBytes(high, n)
  BY <1>0, LittleSteps
<1>1. /\ high \in [0 .. n -> Nat]
      /\ high[0] = v /\ \A i \in 1 .. n : high[i] = high[i - 1] \div 256
      /\ b = LowBytes(high, n)
  BY <1>a DEF Shifted
<1>2. b \in [1 .. n -> Nat] /\ Len(b) = n
  <2>1. ASSUME NEW i \in 1 .. n PROVE high[i - 1] % 256 \in Nat
    <3>1. i - 1 \in 0 .. n
      BY <1>0
    <3>2. high[i - 1] \in Nat
      BY <1>1, <3>1
    <3>3. \A w \in Nat : w % 256 \in Nat
      OBVIOUS
    <3> QED BY <3>2, <3>3
  <2> HIDE DEF b
  <2>2. b \in [1 .. n -> Nat]
    BY <1>1, <2>1 DEF LowBytes
  <2>3. Len(b) = n
    BY <1>0, LittleBytesAre DEF b
  <2> QED BY <2>2, <2>3
<1> HIDE DEF b
<1>3. PICK value \in [0 .. n -> Nat] :
        /\ value[0] = 0 /\ \A i \in 1 .. n : value[i] = b[n + 1 - i] + 256 * value[i - 1]
        /\ Uint(b) = value[n]
  BY <1>0, <1>2, UintSteps, ZenonT(60)
<1>4. high[n] = 0
  <2>1. high[1] = v \div 256
    <3>1. 1 \in 1 .. n /\ 1 - 1 = 0
      BY <1>0
    <3> QED BY <1>1, <3>1
  <2>2. n = 1 => high[n] = 0
    BY <2>1 DEF Fits
  <2>3. n >= 2 => high[2] = (v \div 256) \div 256
    <3>1. n >= 2 => 2 \in 1 .. n /\ 2 - 1 = 1
      BY <1>0
    <3> QED BY <1>1, <2>1, <3>1
  <2>4. n = 2 => high[n] = 0
    BY <2>3 DEF Fits
  <2>5. n >= 3 => high[3] = high[2] \div 256
    <3>1. n >= 3 => 3 \in 1 .. n /\ 3 - 1 = 2
      BY <1>0
    <3> QED BY <1>1, <3>1
  <2>6. n = 3 => high[n] = 0
    <3>1. n = 3 => v < 16777216
      BY DEF Fits
    <3>2. v < 16777216 => ((v \div 256) \div 256) \div 256 = 0
      OBVIOUS
    <3> QED BY <2>3, <2>5, <3>1, <3>2
  <2>7. n >= 4 => high[4] = 0
    <3>1. n >= 4 => 4 \in 1 .. n /\ 4 - 1 = 3
      BY <1>0
    <3>2. n >= 4 => v < 4294967296
      BY DEF Fits, FourBytes
    <3>3. v < 4294967296 => (((v \div 256) \div 256) \div 256) \div 256 = 0
      OBVIOUS
    <3> QED BY <1>1, <2>3, <2>5, <3>1, <3>2, <3>3
  <2>8. ASSUME NEW k \in 5 .. 8, n >= k, high[k - 1] = 0 PROVE high[k] = 0
    <3>1. k \in 1 .. n /\ high[k] = high[k - 1] \div 256
      BY <1>0, <1>1, <2>8
    <3> QED BY <2>8, <3>1
  <2>9. 5 - 1 = 4 /\ 6 - 1 = 5 /\ 7 - 1 = 6 /\ 8 - 1 = 7
    OBVIOUS
  <2>10. n >= 5 => high[5] = 0
    BY <2>7, <2>8, <2>9
  <2>11. n >= 6 => high[6] = 0
    BY <2>8, <2>9, <2>10
  <2>12. n >= 7 => high[7] = 0
    BY <2>8, <2>9, <2>11
  <2>13. n >= 8 => high[8] = 0
    BY <2>8, <2>9, <2>12
  <2> QED BY <2>2, <2>4, <2>6, <2>7, <2>11, <2>13
<1> DEFINE Same == {i \in 0 .. n : value[i] = high[n - i]}
<1>5. 0 \in Same
  BY <1>0, <1>3, <1>4
<1>6. ASSUME NEW i \in 1 .. n, i - 1 \in Same PROVE i \in Same
  <2>1. value[i - 1] = high[n - i + 1] /\ n - i \in 0 .. n /\ n - i + 1 \in 1 .. n
    BY <1>0, <1>6
  <2>2. value[i] = b[n - i + 1] + 256 * value[i - 1]
    <3>1. n + 1 - i = n - i + 1
      BY <1>0
    <3> QED BY <1>3, <3>1
  <2>3. b[n - i + 1] = high[n - i] % 256 /\ high[n - i + 1] = high[n - i] \div 256
    <3>1. n - i + 1 - 1 = n - i
      BY <1>0
    <3> QED BY <1>1, <2>1, <3>1 DEF LowBytes
  <2>4. high[n - i] \in Nat
    BY <1>1, <2>1
  <2>5. \A w \in Nat : (w % 256) + 256 * (w \div 256) = w
    OBVIOUS
  <2>6. value[i] = (high[n - i] % 256) + 256 * (high[n - i] \div 256)
    BY <2>1, <2>2, <2>3
  <2>7. value[i] = high[n - i]
    BY <2>4, <2>5, <2>6
  <2> QED BY <2>7
<1>7. Same \in SUBSET (0 .. n)
  OBVIOUS
<1>8. Same = 0 .. n
  <2> HIDE DEF Same
  <2> QED BY <1>0, <1>5, <1>6, <1>7, Upwards
<1>9. n \in Same
  <2> HIDE DEF Same
  <2> QED BY <1>0, <1>8
<1>10. n - n = 0
  BY <1>0
<1> QED BY <1>1, <1>3, <1>9, <1>10 DEF b

-----------------------------------------------------------------------------
(* One sequence of bytes in another. *)

\* One sequence behind the other.
Join(s, t) == s \o t

\* Octets put one behind the other.
LEMMA Joined ==
    ASSUME NEW s, NEW t, s \in Octets, t \in Octets
    PROVE  /\ Join(s, t) \in Octets /\ Len(Join(s, t)) = Len(s) + Len(t)
           /\ Len(s) \in Nat /\ Len(t) \in Nat
           /\ \A i \in 1 .. Len(s) : Join(s, t)[i] = s[i]
           /\ \A i \in 1 .. Len(t) : Join(s, t)[Len(s) + i] = t[i]
<1>1. s \in Seq(0 .. 255) /\ t \in Seq(0 .. 255)
  BY DEF Octets
<1>2. Len(s) \in Nat /\ Len(t) \in Nat
  BY OctetsAre
<1>3. /\ Join(s, t) \in Seq(0 .. 255) /\ Len(Join(s, t)) = Len(s) + Len(t)
      /\ \A i \in 1 .. Len(s) + Len(t) :
           Join(s, t)[i] = IF i <= Len(s) THEN s[i] ELSE t[i - Len(s)]
  BY <1>1, ConcatProperties DEF Join
<1>4. ASSUME NEW i \in 1 .. Len(s) PROVE Join(s, t)[i] = s[i]
  <2>1. i \in 1 .. Len(s) + Len(t) /\ i <= Len(s)
    BY <1>2
  <2> QED BY <1>3, <2>1
<1>5. ASSUME NEW i \in 1 .. Len(t) PROVE Join(s, t)[Len(s) + i] = t[i]
  <2>1. Len(s) + i \in 1 .. Len(s) + Len(t) /\ ~(Len(s) + i <= Len(s)) /\ Len(s) + i - Len(s) = i
    BY <1>2
  <2> QED BY <1>3, <2>1
<1> QED BY <1>2, <1>3, <1>4, <1>5 DEF Octets

\* e holds s behind its first c bytes.
At(e, c, s) ==
    /\ e \in Octets /\ c \in Nat /\ s \in Octets
    /\ \A i \in 1 .. Len(s) : c + i \in 1 .. Len(e) /\ e[c + i] = s[i]

\* The place behind a sequence that stands behind c bytes.
After(c, s) == c + Len(s)

\* Two sequences joined are there when each is in its place.
LEMMA AtJoin ==
    ASSUME NEW e, NEW c, NEW s, NEW t, At(e, c, Join(s, t)), s \in Octets, t \in Octets
    PROVE  /\ At(e, c, s) /\ At(e, After(c, s), t)
           /\ After(After(c, s), t) = After(c, Join(s, t))
<1>1. /\ Len(Join(s, t)) = Len(s) + Len(t) /\ Len(s) \in Nat /\ Len(t) \in Nat
      /\ \A i \in 1 .. Len(s) : Join(s, t)[i] = s[i]
      /\ \A i \in 1 .. Len(t) : Join(s, t)[Len(s) + i] = t[i]
  BY Joined
<1>2. e \in Octets /\ c \in Nat
  BY DEF At
<1>3. ASSUME NEW i \in 1 .. Len(s) PROVE c + i \in 1 .. Len(e) /\ e[c + i] = s[i]
  <2>1. i \in 1 .. Len(Join(s, t))
    BY <1>1
  <2> QED BY <1>1, <2>1 DEF At
<1>4. ASSUME NEW i \in 1 .. Len(t)
      PROVE  c + Len(s) + i \in 1 .. Len(e) /\ e[c + Len(s) + i] = t[i]
  <2>1. Len(s) + i \in 1 .. Len(Join(s, t)) /\ c + (Len(s) + i) = c + Len(s) + i
    BY <1>1, <1>2
  <2> QED BY <1>1, <2>1 DEF At
<1>5. c + Len(s) \in Nat /\ c + Len(s) + Len(t) = c + (Len(s) + Len(t))
  BY <1>1, <1>2
<1> QED BY <1>1, <1>2, <1>3, <1>4, <1>5 DEF At, After

\* What is put together from two parts holds both.
LEMMA AtParts ==
    ASSUME NEW s, NEW t, s \in Octets, t \in Octets
    PROVE  At(Join(s, t), 0, s) /\ At(Join(s, t), Len(s), t)
<1>1. /\ Len(Join(s, t)) = Len(s) + Len(t) /\ Len(s) \in Nat /\ Len(t) \in Nat
      /\ \A i \in 1 .. Len(s) : Join(s, t)[i] = s[i]
      /\ \A i \in 1 .. Len(t) : Join(s, t)[Len(s) + i] = t[i]
      /\ Join(s, t) \in Octets
  BY Joined
<1>2. \A i \in 1 .. Len(s) : 0 + i \in 1 .. Len(Join(s, t)) /\ 0 + i = i
  BY <1>1
<1>3. \A i \in 1 .. Len(t) : Len(s) + i \in 1 .. Len(Join(s, t))
  BY <1>1
<1> QED BY <1>1, <1>2, <1>3 DEF At

\* A part of a part.
LEMMA AtWithin ==
    ASSUME NEW e, NEW c, NEW s, NEW d, NEW t, At(e, c, s), At(s, d, t)
    PROVE  At(e, c + d, t)
<1>1. e \in Octets /\ c \in Nat /\ d \in Nat /\ t \in Octets
  BY DEF At
<1>2. ASSUME NEW i \in 1 .. Len(t) PROVE c + d + i \in 1 .. Len(e) /\ e[c + d + i] = t[i]
  <2>1. d + i \in 1 .. Len(s) /\ s[d + i] = t[i]
    BY DEF At
  <2>2. c + (d + i) \in 1 .. Len(e) /\ e[c + (d + i)] = s[d + i]
    BY <2>1 DEF At
  <2>3. c + (d + i) = c + d + i
    BY <1>1
  <2> QED BY <2>1, <2>2, <2>3
<1>3. c + d \in Nat
  BY <1>1
<1> QED BY <1>1, <1>2, <1>3 DEF At

\* The bytes of an event as the code reads them, behind its end too.
LEMMA BytesRead ==
    ASSUME NEW e \in Octets, NEW c \in Nat, NEW n \in Nat
    PROVE  /\ Byte(e, c) \in 0 .. 255
           /\ Bytes(e, c, n) \in Octets /\ Len(Bytes(e, c, n)) = n
           /\ ReadUint(e, c, n) \in Nat
<1>1. \A k \in Nat : Byte(e, k) \in 0 .. 255
  <2> TAKE k \in Nat
  <2>1. CASE k < Len(e)
    <3>1. k + 1 \in 1 .. Len(e)
      BY <2>1, OctetsAre
    <3>2. e[k + 1] \in 0 .. 255
      BY <3>1, OctetsAre
    <3> QED BY <2>1, <3>2 DEF Byte
  <2>2. CASE ~(k < Len(e))
    BY <2>2, BehindAssumption DEF Byte
  <2> QED BY <2>1, <2>2
<1>2. \A i \in 1 .. n : Byte(e, c + i - 1) \in 0 .. 255
  <2> TAKE i \in 1 .. n
  <2>1. c + i - 1 \in Nat
    OBVIOUS
  <2> QED BY <1>1, <2>1
<1>3. Bytes(e, c, n) \in Octets
  BY <1>2 DEF Bytes, Octets
<1>4. Len(Bytes(e, c, n)) = n
  BY DEF Bytes
<1>5. Bytes(e, c, n) \in [1 .. n -> Nat]
  <2>1. \A i \in 1 .. n : Byte(e, c + i - 1) \in Nat
    BY <1>2
  <2> QED BY <2>1 DEF Bytes
<1>6. ReadUint(e, c, n) \in Nat
  <2>1. PICK value \in [0 .. n -> Nat] : Uint(Bytes(e, c, n)) = value[n]
    BY <1>4, <1>5, UintSteps, ZenonT(60)
  <2> QED BY <2>1 DEF ReadUint
<1> QED BY <1>1, <1>3, <1>4, <1>6

\* What is there is read.
LEMMA BytesAt ==
    ASSUME NEW e, NEW c, NEW s, At(e, c, s)
    PROVE  /\ Bytes(e, c, Len(s)) = s
           /\ \A i \in 1 .. Len(s) : Byte(e, c + i - 1) = s[i]
<1>0. Len(s) \in Nat /\ Len(e) \in Nat /\ c \in Nat
  BY OctetsAre DEF At
<1>1. ASSUME NEW i \in 1 .. Len(s) PROVE Byte(e, c + i - 1) = s[i]
  <2>1. c + i \in 1 .. Len(e) /\ e[c + i] = s[i]
    BY DEF At
  <2>2. c + i - 1 < Len(e) /\ c + i - 1 + 1 = c + i
    BY <1>0, <2>1
  <2> QED BY <2>1, <2>2 DEF Byte
<1>2. Bytes(e, c, Len(s)) = s
  <2>1. Bytes(e, c, Len(s)) = [i \in 1 .. Len(s) |-> s[i]]
    BY <1>1 DEF Bytes
  <2>2. s \in [1 .. Len(s) -> 0 .. 255]
    <3>1. s \in Seq(0 .. 255)
      BY DEF Octets, At
    <3> QED BY <3>1, LenProperties
  <2> QED BY <2>1, <2>2
<1> QED BY <1>1, <1>2

\* The first of them.
LEMMA FirstAt ==
    ASSUME NEW e, NEW c, NEW s, At(e, c, s), Len(s) > 0
    PROVE  Byte(e, c) = s[1] /\ c < Len(e)
<1>1. Len(s) \in Nat /\ Len(e) \in Nat /\ c \in Nat
  BY OctetsAre DEF At
<1>2. 1 \in 1 .. Len(s) /\ c + 1 - 1 = c
  BY <1>1
<1>3. c + 1 \in 1 .. Len(e)
  BY <1>2 DEF At
<1>4. \A i \in 1 .. Len(s) : Byte(e, c + i - 1) = s[i]
  BY BytesAt
<1> QED BY <1>1, <1>2, <1>3, <1>4

\* A number that is there is read.
LEMMA UintAt ==
    ASSUME NEW e, NEW c, NEW v, NEW n, At(e, c, LittleBytes(v, n)),
           v \in Nat, n \in {1, 2, 3, 4, 6, 8}, Fits(v, n)
    PROVE  ReadUint(e, c, n) = v
<1>0. n \in Nat
  OBVIOUS
<1>1. LittleBytes(v, n) \in Octets /\ Len(LittleBytes(v, n)) = n
  BY <1>0, LittleBytesAre
<1>2. Bytes(e, c, n) = LittleBytes(v, n)
  BY <1>1, BytesAt
<1> QED BY <1>2, LittleRead DEF ReadUint
-----------------------------------------------------------------------------
(* Coded lengths. *)

\* decodeint: the value and the cursor behind it are natural numbers.
LEMMA DecodedInt ==
    ASSUME NEW e \in Octets, NEW c \in Nat
    PROVE  decodeint(e, c).v \in Nat /\ decodeint(e, c).cur \in Nat
<1>1. \A n \in Nat : ReadUint(e, c + 1, n) \in Nat
  <2>1. c + 1 \in Nat
    OBVIOUS
  <2> QED BY <2>1, BytesRead
<1>2. Byte(e, c) \in 0 .. 255
  BY BytesRead
<1>3. ReadUint(e, c + 1, 2) \in Nat /\ ReadUint(e, c + 1, 3) \in Nat
      /\ ReadUint(e, c + 1, 8) \in Nat
  BY <1>1
<1> DEFINE Wide(n) == [v |-> ReadUint(e, c + 1, n), cur |-> c + 1 + n]
<1>4. decodeint(e, c) \in {Wide(2), Wide(3), Wide(8)}
        \union {[v |-> w, cur |-> c + 1] : w \in 0 .. 255}
  <2>1. (IF Byte(e, c) < 251 THEN Byte(e, c) ELSE 0) \in 0 .. 255
    BY <1>2
  <2> QED BY <2>1, ZenonT(60) DEF decodeint
<1>5. CASE decodeint(e, c) \in {Wide(2), Wide(3), Wide(8)}
  BY <1>3, <1>5
<1>6. CASE decodeint(e, c) \in {[v |-> w, cur |-> c + 1] : w \in 0 .. 255}
  <2>1. PICK w \in 0 .. 255 : decodeint(e, c) = [v |-> w, cur |-> c + 1]
    BY <1>6
  <2> QED BY <2>1
<1> QED BY <1>4, <1>5, <1>6

\* A coded length is octets.
LEMMA CodedAre ==
    ASSUME NEW n \in Nat
    PROVE  CodedLength(n) \in Octets
<1>1. \A k \in {2, 3, 8} : LittleBytes(n, k) \in Octets
  <2>1. \A k \in Nat : LittleBytes(n, k) \in Octets
    BY LittleBytesAre
  <2> QED BY <2>1
<1>2. <<252>> \in Octets /\ <<253>> \in Octets /\ <<254>> \in Octets
      /\ (n < 251 => <<n>> \in Octets)
  BY DEF Octets
<1>3. /\ Join(<<252>>, LittleBytes(n, 2)) \in Octets /\ Join(<<253>>, LittleBytes(n, 3)) \in Octets
      /\ Join(<<254>>, LittleBytes(n, 8)) \in Octets
  BY <1>1, <1>2, Joined
<1>4. \/ n < 251 /\ CodedLength(n) = <<n>>
      \/ CodedLength(n) = Join(<<252>>, LittleBytes(n, 2))
      \/ CodedLength(n) = Join(<<253>>, LittleBytes(n, 3))
      \/ CodedLength(n) = Join(<<254>>, LittleBytes(n, 8))
  BY SMTT(30) DEF CodedLength, Join
<1> QED BY <1>2, <1>3, <1>4

\* decodeint reads a length as the master coded it and goes behind it.
LEMMA LengthRead ==
    ASSUME NEW e, NEW c, NEW n, At(e, c, CodedLength(n)), n \in Nat, n < FourBytes
    PROVE  decodeint(e, c) = [v |-> n, cur |-> After(c, CodedLength(n))]
<1>0. c \in Nat /\ c + 1 \in Nat
  BY DEF At
<1>1. ASSUME NEW mark \in {252, 253, 254}, NEW k \in {2, 3, 8}, Fits(n, k),
             CodedLength(n) = Join(<<mark>>, LittleBytes(n, k))
      PROVE  /\ Byte(e, c) = mark /\ ReadUint(e, c + 1, k) = n
             /\ Len(CodedLength(n)) = 1 + k
  <2> DEFINE m == <<mark>>
             l == LittleBytes(n, k)
  <2>1. m \in Octets /\ Len(m) = 1 /\ m[1] = mark
    BY DEF Octets
  <2>2. k \in Nat /\ k \in {1, 2, 3, 4, 6, 8}
    OBVIOUS
  <2>3. l \in Octets /\ Len(l) = k
    BY <2>2, LittleBytesAre
  <2>4. At(e, c, Join(m, l)) /\ CodedLength(n) = Join(m, l)
    BY <1>1
  <2> HIDE DEF m, l
  <2>5. At(e, c, m) /\ At(e, After(c, m), l) /\ Len(Join(m, l)) = Len(m) + Len(l)
    <3>1. m \in Octets /\ l \in Octets
      BY <2>1, <2>3
    <3> QED BY <2>4, <3>1, AtJoin, Joined
  <2>6. At(e, c + 1, l) /\ Len(CodedLength(n)) = 1 + k
    BY <2>1, <2>3, <2>4, <2>5 DEF After
  <2>7. Byte(e, c) = mark
    <3>1. Len(m) > 0
      BY <2>1
    <3> QED BY <2>1, <2>5, <3>1, FirstAt
  <2>8. ReadUint(e, c + 1, k) = n
    BY <1>1, <2>2, <2>6, UintAt DEF l
  <2> QED BY <2>6, <2>7, <2>8
<1>2. CASE n < 251
  <2>1. CodedLength(n) = <<n>>
    BY <1>2 DEF CodedLength
  <2>2. <<n>> \in Octets /\ Len(<<n>>) = 1 /\ <<n>>[1] = n
    BY <1>2 DEF Octets
  <2>3. Byte(e, c) = n
    BY <2>1, <2>2, FirstAt
  <2> QED BY <1>2, <2>1, <2>2, <2>3 DEF decodeint, After
<1>3. CASE n >= 251 /\ n < 65536
  <2>1. CodedLength(n) = Join(<<252>>, LittleBytes(n, 2)) /\ Fits(n, 2)
    BY <1>3 DEF CodedLength, Join, Fits
  <2>2. Byte(e, c) = 252 /\ ReadUint(e, c + 1, 2) = n /\ Len(CodedLength(n)) = 1 + 2
    BY <1>1, <2>1
  <2>3. decodeint(e, c) = [v |-> n, cur |-> c + 1 + 2]
    BY <2>2, Zenon DEF decodeint
  <2>4. c + 1 + 2 = After(c, CodedLength(n))
    BY <1>0, <2>2 DEF After
  <2> QED BY <2>3, <2>4, Zenon
<1>4. CASE n >= 65536 /\ n < 16777216
  <2>1. CodedLength(n) = Join(<<253>>, LittleBytes(n, 3)) /\ Fits(n, 3)
    BY <1>4 DEF CodedLength, Join, Fits
  <2>2. Byte(e, c) = 253 /\ ReadUint(e, c + 1, 3) = n /\ Len(CodedLength(n)) = 1 + 3
    BY <1>1, <2>1
  <2>3. decodeint(e, c) = [v |-> n, cur |-> c + 1 + 3]
    BY <2>2 DEF decodeint
  <2>4. c + 1 + 3 = After(c, CodedLength(n))
    BY <1>0, <2>2 DEF After
  <2> QED BY <2>3, <2>4, Zenon
<1>5. CASE n >= 16777216
  <2>1. CodedLength(n) = Join(<<254>>, LittleBytes(n, 8)) /\ Fits(n, 8)
    BY <1>5 DEF CodedLength, Join, Fits
  <2>2. Byte(e, c) = 254 /\ ReadUint(e, c + 1, 8) = n /\ Len(CodedLength(n)) = 1 + 8
    BY <1>1, <2>1
  <2>3. decodeint(e, c) = [v |-> n, cur |-> c + 1 + 8]
    BY <2>2 DEF decodeint
  <2>4. c + 1 + 8 = After(c, CodedLength(n))
    BY <1>0, <2>2 DEF After
  <2> QED BY <2>3, <2>4, Zenon
<1> QED BY <1>2, <1>3, <1>4, <1>5

-----------------------------------------------------------------------------
(* One sequence after the other, put together. *)

\* What is put together step by step.
Flat(f, s) == f[0] = <<>> /\ \A i \in 1 .. Len(s) : f[i] = Join(f[i - 1], s[i])

\* Two that have the same beginning are put together alike.
LEMMA FlatOnce ==
    ASSUME NEW f, NEW s, NEW g, NEW t, Flat(f, s), Flat(g, t),
           Len(s) \in Nat, Len(t) \in Nat, Len(t) <= Len(s),
           \A i \in 1 .. Len(t) : t[i] = s[i]
    PROVE  \A i \in 0 .. Len(t) : g[i] = f[i]
<1> DEFINE Same == {i \in 0 .. Len(t) : g[i] = f[i]}
<1>1. 0 \in Same
  BY DEF Flat
<1>2. ASSUME NEW i \in 1 .. Len(t), i - 1 \in Same PROVE i \in Same
  <2>1. i \in 1 .. Len(s) /\ g[i - 1] = f[i - 1] /\ t[i] = s[i]
    BY <1>2
  <2>2. g[i] = Join(g[i - 1], t[i]) /\ f[i] = Join(f[i - 1], s[i])
    BY <2>1 DEF Flat
  <2> QED BY <2>1, <2>2
<1>3. Same \in SUBSET (0 .. Len(t))
  OBVIOUS
<1>4. Same = 0 .. Len(t)
  <2> HIDE DEF Same
  <2> QED BY <1>1, <1>2, <1>3, Upwards
<1> QED BY <1>4

\* FlattenSeq puts its sequences together step by step.
LEMMA FlattenSteps ==
    ASSUME NEW S, NEW s, s \in Seq(Seq(S))
    PROVE  \E f : Flat(f, s) /\ FlattenSeq(s) = f[Len(s)]
<1> DEFINE n == Len(s)
           G == [p \in (1 .. n) \X Seq(S) |-> Join(p[2], s[p[1]])]
           F(h) == [i \in 1 .. n |-> IF i = 1 THEN s[i] ELSE h[i - 1] \o s[i]]
           flatten == CHOOSE h : h = F(h)
<1>1. n \in Nat /\ \A i \in 1 .. n : s[i] \in Seq(S)
  BY LenProperties, ElementOfSeq
<1>2. ASSUME NEW a \in Seq(S), NEW b \in Seq(S) PROVE Join(a, b) \in Seq(S)
  BY ConcatProperties DEF Join
<1>3. ASSUME NEW i \in 1 .. n, NEW a \in Seq(S)
      PROVE  G[<<i, a>>] = Join(a, s[i]) /\ Join(a, s[i]) \in Seq(S)
  <2>1. <<i, a>> \in (1 .. n) \X Seq(S) /\ <<i, a>>[1] = i /\ <<i, a>>[2] = a
    OBVIOUS
  <2> QED BY <1>1, <1>2, <2>1
<1>4. PICK f : Steps(f, n, <<>>, G)
  <2> HIDE DEF G, n
  <2> QED BY <1>1, StepsExist
<1>5. f[0] = <<>> /\ \A i \in 1 .. n : f[i] = G[<<i, f[i - 1]>>]
  <2> HIDE DEF G, n
  <2> QED BY <1>1, <1>4, StepsAre
<1>6. \A i \in 0 .. n : f[i] \in Seq(S)
  <2>1. StaysWithin(G, n, Seq(S))
    <3> HIDE DEF G, n
    <3> QED BY <1>3 DEF StaysWithin
  <2>2. <<>> \in Seq(S)
    BY EmptySeq
  <2>3. Within(f, n, Seq(S))
    <3> HIDE DEF G, n
    <3> QED BY <1>1, <1>4, <2>1, <2>2, StepsStay
  <2> QED BY <2>3 DEF Within
<1>7. ASSUME NEW i \in 1 .. n PROVE f[i] = Join(f[i - 1], s[i])
  <2>1. i - 1 \in 0 .. n
    BY <1>1
  <2> HIDE DEF G, n
  <2> QED BY <1>3, <1>5, <1>6, <2>1
<1>8. Flat(f, s)
  BY <1>5, <1>7 DEF Flat
<1>9. CASE n = 0
  <2>1. s = <<>>
    BY <1>9, EmptySeq
  <2>2. FlattenSeq(s) = s
    BY <1>9 DEF FlattenSeq
  <2> QED BY <1>5, <1>8, <1>9, <2>1, <2>2
<1>10. CASE n # 0
  <2>1. FlattenSeq(s) = flatten[n]
    BY <1>10, Zenon DEF FlattenSeq
  <2>2. \E h : h = F(h)
    <3> DEFINE h == [i \in 1 .. n |-> f[i]]
    <3>1. ASSUME NEW i \in 1 .. n PROVE f[i] = IF i = 1 THEN s[i] ELSE h[i - 1] \o s[i]
      <4>1. CASE i = 1
        <5>1. f[1] = Join(<<>>, s[1]) /\ 1 \in 1 .. n
          <6>1. 1 - 1 = 0 /\ 1 \in 1 .. n
            BY <1>1, <1>10
          <6> HIDE DEF n
          <6> QED BY <1>5, <1>7, <6>1
        <5>2. s[1] \in Seq(S)
          BY <1>1, <5>1
        <5>3. Join(<<>>, s[1]) = s[1]
          BY <5>2, ConcatEmptySeq DEF Join
        <5> HIDE DEF h
        <5> QED BY <4>1, <5>1, <5>3
      <4>2. CASE i # 1
        <5>1. i - 1 \in 1 .. n
          BY <1>1, <4>2
        <5>2. h[i - 1] = f[i - 1]
          BY <5>1
        <5> HIDE DEF h, n
        <5> QED BY <1>7, <4>2, <5>2 DEF Join
      <4> QED BY <4>1, <4>2
    <3>2. h = F(h)
      <4>1. \A i \in 1 .. n : h[i] = f[i]
        OBVIOUS
      <4>2. h = [i \in 1 .. n |-> h[i]]
        OBVIOUS
      <4> HIDE DEF h
      <4> QED BY <3>1, <4>1, <4>2
    <3> HIDE DEF h, F
    <3> QED BY <3>2
  <2>3. flatten = F(flatten)
    <3> HIDE DEF F
    <3> QED BY <2>2
  <2> HIDE DEF flatten
  <2>4. \A i \in 1 .. n : flatten[i] = IF i = 1 THEN s[i] ELSE flatten[i - 1] \o s[i]
    BY <2>3
  <2> DEFINE Same == {i \in 0 .. n : i = 0 \/ flatten[i] = f[i]}
  <2>5. 0 \in Same
    BY <1>1
  <2>6. ASSUME NEW i \in 1 .. n, i - 1 \in Same PROVE i \in Same
    <3>1. CASE i = 1
      <4>1. f[1] = Join(<<>>, s[1]) /\ 1 \in 1 .. n
        <5>1. 1 - 1 = 0 /\ 1 \in 1 .. n
          BY <1>1, <1>10
        <5> HIDE DEF n
        <5> QED BY <1>5, <1>7, <5>1
      <4>2. s[1] \in Seq(S)
        BY <1>1, <4>1
      <4>3. Join(<<>>, s[1]) = s[1]
        BY <4>2, ConcatEmptySeq DEF Join
      <4>4. flatten[1] = s[1]
        BY <2>4, <4>1
      <4> QED BY <3>1, <4>1, <4>3, <4>4
    <3>2. CASE i # 1
      <4>1. flatten[i - 1] = f[i - 1]
        BY <2>6, <3>2
      <4>2. flatten[i] = flatten[i - 1] \o s[i]
        BY <2>4, <3>2
      <4>3. flatten[i] = f[i]
        BY <1>7, <4>1, <4>2 DEF Join
      <4> QED BY <4>3
    <3> QED BY <3>1, <3>2
  <2>7. Same \in SUBSET (0 .. n)
    OBVIOUS
  <2>8. Same = 0 .. n
    <3> HIDE DEF Same, n
    <3> QED BY <1>1, <2>5, <2>6, <2>7, Upwards
  <2>9. flatten[n] = f[n]
    <3>1. n \in Same
      <4> HIDE DEF Same
      <4> QED BY <1>1, <2>8
    <3> QED BY <1>10, <3>1
  <2> QED BY <1>8, <2>1, <2>9
<1> QED BY <1>9, <1>10

\* Every sequence has its place in what octets are put together to.
LEMMA FlatAt ==
    ASSUME NEW f, NEW s, Flat(f, s), s \in Seq(Octets)
    PROVE  /\ \A i \in 0 .. Len(s) : f[i] \in Octets
           /\ \A i \in 1 .. Len(s) : At(f[Len(s)], Len(f[i - 1]), s[i])
           /\ \A i \in 1 .. Len(s) : Len(f[i]) = Len(f[i - 1]) + Len(s[i])
<1> DEFINE n == Len(s)
           Good == {i \in 0 .. n : f[i] \in Octets}
           Placed(i) == {m \in 0 .. n : m >= i => At(f[m], Len(f[i - 1]), s[i])}
<1>1. n \in Nat /\ \A i \in 1 .. n : s[i] \in Octets
  BY LenProperties, ElementOfSeq
<1>2. f[0] = <<>> /\ \A i \in 1 .. n : f[i] = Join(f[i - 1], s[i])
  BY DEF Flat
<1>3. 0 \in Good
  <2>1. <<>> \in Octets
    BY DEF Octets
  <2> QED BY <1>1, <1>2, <2>1
<1>4. ASSUME NEW i \in 1 .. n, i - 1 \in Good PROVE i \in Good
  <2>1. f[i - 1] \in Octets
    BY <1>4
  <2> QED BY <1>1, <1>2, <2>1, Joined
<1>5. Good = 0 .. n
  <2>1. Good \in SUBSET (0 .. n)
    OBVIOUS
  <2> HIDE DEF Good, n
  <2> QED BY <1>1, <1>3, <1>4, <2>1, Upwards
<1>6. \A i \in 0 .. n : f[i] \in Octets
  BY <1>5
<1> HIDE DEF Good
<1>7. ASSUME NEW i \in 1 .. n
      PROVE  /\ f[i - 1] \in Octets /\ s[i] \in Octets /\ f[i] = Join(f[i - 1], s[i])
             /\ Len(f[i]) = Len(f[i - 1]) + Len(s[i])
  <2>1. f[i - 1] \in Octets /\ s[i] \in Octets /\ f[i] = Join(f[i - 1], s[i])
    <3>1. i - 1 \in 0 .. n
      BY <1>1
    <3> HIDE DEF n
    <3> QED BY <1>1, <1>2, <1>6, <3>1
  <2>2. Len(Join(f[i - 1], s[i])) = Len(f[i - 1]) + Len(s[i])
    BY <2>1, Joined
  <2> HIDE DEF n
  <2> QED BY <2>1, <2>2
<1>8. ASSUME NEW i \in 1 .. n PROVE Placed(i) = 0 .. n
  <2>1. 0 \in Placed(i)
    BY <1>1
  <2>2. ASSUME NEW m \in 1 .. n, m - 1 \in Placed(i) PROVE m \in Placed(i)
    <3> DEFINE c == Len(f[i - 1])
    <3>1. CASE m = i
      <4>1. At(Join(f[i - 1], s[i]), c, s[i])
        BY <1>7, AtParts
      <4>2. At(f[m], c, s[i])
        <5> HIDE DEF c, n
        <5> QED BY <1>7, <3>1, <4>1
      <4> QED BY <4>2
    <3>2. CASE m > i
      <4>1. At(f[m - 1], c, s[i])
        BY <2>2, <3>2
      <4>2. At(Join(f[m - 1], s[m]), 0, f[m - 1])
        BY <1>7, AtParts
      <4>3. At(Join(f[m - 1], s[m]), 0 + c, s[i])
        BY <4>1, <4>2, AtWithin
      <4>4. 0 + c = c
        BY <4>1 DEF At
      <4>5. At(f[m], c, s[i])
        <5> HIDE DEF c, n
        <5> QED BY <1>7, <4>3, <4>4
      <4> QED BY <4>5
    <3>3. CASE m < i
      BY <3>3
    <3> QED BY <3>1, <3>2, <3>3
  <2>3. Placed(i) \in SUBSET (0 .. n)
    OBVIOUS
  <2> HIDE DEF Placed, n
  <2> QED BY <1>1, <2>1, <2>2, <2>3, Upwards
<1>9. ASSUME NEW i \in 1 .. n PROVE At(f[n], Len(f[i - 1]), s[i])
  <2>1. n \in Placed(i)
    <3> HIDE DEF Placed, n
    <3> QED BY <1>1, <1>8
  <2> QED BY <1>1, <2>1
<1> QED BY <1>6, <1>7, <1>9

-----------------------------------------------------------------------------
(* Bitmaps. *)

BitOf(bits, i) == IF i <= Len(bits) /\ bits[i] THEN 1 ELSE 0
\* The byte whose lowest bit is bit i.
EightOf(bits, i) ==
    (BitOf(bits, i) + 2 * BitOf(bits, i + 1) + 4 * BitOf(bits, i + 2) + 8 * BitOf(bits, i + 3))
    + 16 * (BitOf(bits, i + 4) + 2 * BitOf(bits, i + 5) + 4 * BitOf(bits, i + 6)
            + 8 * BitOf(bits, i + 7))

\* A bit is 0 or 1.
LEMMA BitIs ==
    ASSUME NEW bits, NEW i
    PROVE  /\ BitOf(bits, i) \in {0, 1}
           /\ BitOf(bits, i) = 1 <=> i <= Len(bits) /\ bits[i]
<1>1. CASE i <= Len(bits) /\ bits[i]
  <2>1. BitOf(bits, i) = 1
    BY <1>1, Zenon DEF BitOf
  <2> QED BY <1>1, <2>1
<1>2. CASE ~(i <= Len(bits) /\ bits[i])
  <2>1. BitOf(bits, i) = 0
    BY <1>2, Zenon DEF BitOf
  <2>2. 0 # 1
    OBVIOUS
  <2> QED BY <1>2, <2>1, <2>2
<1> QED BY <1>1, <1>2

\* Eight bits make a byte, and the byte gives each of them back.
LEMMA EightBits ==
    ASSUME NEW x1 \in {0, 1}, NEW x2 \in {0, 1}, NEW x3 \in {0, 1}, NEW x4 \in {0, 1},
           NEW x5 \in {0, 1}, NEW x6 \in {0, 1}, NEW x7 \in {0, 1}, NEW x8 \in {0, 1},
           NEW b, b = (x1 + 2 * x2 + 4 * x3 + 8 * x4) + 16 * (x5 + 2 * x6 + 4 * x7 + 8 * x8)
    PROVE  /\ b \in 0 .. 255
           /\ (b \div 1) % 2 = x1 /\ (b \div 2) % 2 = x2 /\ (b \div 4) % 2 = x3
           /\ (b \div 8) % 2 = x4 /\ (b \div 16) % 2 = x5 /\ (b \div 32) % 2 = x6
           /\ (b \div 64) % 2 = x7 /\ (b \div 128) % 2 = x8
<1>1. b \in 0 .. 255
  OBVIOUS
<1>2. (b \div 1) % 2 = x1 /\ b \div 2 = x2 + 2 * (x3 + 2 * (x4 + 2 * (x5 + 2 * (x6 + 2 * (x7 + 2 * x8)))))
  OBVIOUS
<1>3. (b \div 2) % 2 = x2 /\ b \div 4 = x3 + 2 * (x4 + 2 * (x5 + 2 * (x6 + 2 * (x7 + 2 * x8))))
  OBVIOUS
<1>4. (b \div 4) % 2 = x3 /\ b \div 8 = x4 + 2 * (x5 + 2 * (x6 + 2 * (x7 + 2 * x8)))
  OBVIOUS
<1>5. (b \div 8) % 2 = x4 /\ b \div 16 = x5 + 2 * (x6 + 2 * (x7 + 2 * x8))
  OBVIOUS
<1>6. (b \div 16) % 2 = x5 /\ b \div 32 = x6 + 2 * (x7 + 2 * x8)
  OBVIOUS
<1>7. (b \div 32) % 2 = x6 /\ b \div 64 = x7 + 2 * x8
  OBVIOUS
<1>8. (b \div 64) % 2 = x7 /\ b \div 128 = x8 /\ (b \div 128) % 2 = x8
  OBVIOUS
<1> QED BY <1>1, <1>2, <1>3, <1>4, <1>5, <1>6, <1>7, <1>8

\* The same of a sequence of bits.
LEMMA EightAre ==
    ASSUME NEW bits, NEW i, NEW b, b = EightOf(bits, i)
    PROVE  /\ b \in 0 .. 255
           /\ (b \div 1) % 2 = BitOf(bits, i) /\ (b \div 2) % 2 = BitOf(bits, i + 1)
           /\ (b \div 4) % 2 = BitOf(bits, i + 2) /\ (b \div 8) % 2 = BitOf(bits, i + 3)
           /\ (b \div 16) % 2 = BitOf(bits, i + 4) /\ (b \div 32) % 2 = BitOf(bits, i + 5)
           /\ (b \div 64) % 2 = BitOf(bits, i + 6) /\ (b \div 128) % 2 = BitOf(bits, i + 7)
<1> DEFINE x1 == BitOf(bits, i)
           x2 == BitOf(bits, i + 1)
           x3 == BitOf(bits, i + 2)
           x4 == BitOf(bits, i + 3)
           x5 == BitOf(bits, i + 4)
           x6 == BitOf(bits, i + 5)
           x7 == BitOf(bits, i + 6)
           x8 == BitOf(bits, i + 7)
<1>1. /\ x1 \in {0, 1} /\ x2 \in {0, 1} /\ x3 \in {0, 1} /\ x4 \in {0, 1}
      /\ x5 \in {0, 1} /\ x6 \in {0, 1} /\ x7 \in {0, 1} /\ x8 \in {0, 1}
  BY BitIs
<1>2. b = (x1 + 2 * x2 + 4 * x3 + 8 * x4) + 16 * (x5 + 2 * x6 + 4 * x7 + 8 * x8)
  BY DEF EightOf
<1>3. /\ b \in 0 .. 255
      /\ (b \div 1) % 2 = x1 /\ (b \div 2) % 2 = x2 /\ (b \div 4) % 2 = x3
      /\ (b \div 8) % 2 = x4 /\ (b \div 16) % 2 = x5 /\ (b \div 32) % 2 = x6
      /\ (b \div 64) % 2 = x7 /\ (b \div 128) % 2 = x8
  <2> HIDE DEF x1, x2, x3, x4, x5, x6, x7, x8
  <2> QED BY <1>1, <1>2, EightBits, SMTT(30)
<1> QED BY <1>3

\* The bytes of a bitmap.
LEMMA BitmapAre ==
    ASSUME NEW bits, Len(bits) \in Nat
    PROVE  /\ Bitmap(bits) \in Octets /\ Len(Bitmap(bits)) = BitmapLen(Len(bits))
           /\ \A k \in 1 .. BitmapLen(Len(bits)) : Bitmap(bits)[k] = EightOf(bits, 8 * k - 7)
<1> DEFINE n == BitmapLen(Len(bits))
           eights == [k \in 1 .. n |-> EightOf(bits, 8 * k - 7)]
<1>1. n \in Nat
  BY DEF BitmapLen
<1>2. Bitmap(bits) = eights
  <2>1. Bitmap(bits) = [k \in 1 .. n |->
            (BitOf(bits, 8 * k - 7) + 2 * BitOf(bits, 8 * k - 7 + 1) + 4 * BitOf(bits, 8 * k - 7 + 2)
             + 8 * BitOf(bits, 8 * k - 7 + 3))
            + 16 * (BitOf(bits, 8 * k - 3) + 2 * BitOf(bits, 8 * k - 3 + 1)
                    + 4 * BitOf(bits, 8 * k - 3 + 2) + 8 * BitOf(bits, 8 * k - 3 + 3))]
    BY Zenon DEF Bitmap, BitOf, BitmapLen
  <2>2. ASSUME NEW k \in 1 .. n
        PROVE  /\ 8 * k - 3 = 8 * k - 7 + 4 /\ 8 * k - 3 + 1 = 8 * k - 7 + 5
               /\ 8 * k - 3 + 2 = 8 * k - 7 + 6 /\ 8 * k - 3 + 3 = 8 * k - 7 + 7
    OBVIOUS
  <2> HIDE DEF n
  <2>3. ASSUME NEW k \in 1 .. n
        PROVE  (BitOf(bits, 8 * k - 7) + 2 * BitOf(bits, 8 * k - 7 + 1) + 4 * BitOf(bits, 8 * k - 7 + 2)
             + 8 * BitOf(bits, 8 * k - 7 + 3))
            + 16 * (BitOf(bits, 8 * k - 3) + 2 * BitOf(bits, 8 * k - 3 + 1)
                    + 4 * BitOf(bits, 8 * k - 3 + 2) + 8 * BitOf(bits, 8 * k - 3 + 3))
               = EightOf(bits, 8 * k - 7)
    BY <2>2, Zenon DEF EightOf
  <2> QED BY <2>1, <2>3
<1> HIDE DEF n
<1>3. \A k \in 1 .. n : EightOf(bits, 8 * k - 7) \in 0 .. 255
  BY EightAre
<1>4. eights \in Octets /\ Len(eights) = n /\ \A k \in 1 .. n : eights[k] = EightOf(bits, 8 * k - 7)
  BY <1>1, <1>3 DEF Octets
<1> HIDE DEF eights
<1> QED BY <1>2, <1>4 DEF n

\* isSet reads the bits of a bitmap that the master wrote; those that fill its
\* last byte are not set.
LEMMA BitRead ==
    ASSUME NEW e, NEW c, NEW bits, NEW idx, At(e, c, Bitmap(bits)),
           Len(bits) \in Nat, idx \in Nat, idx \div 8 < BitmapLen(Len(bits))
    PROVE  isSet(e, c, idx) <=> idx + 1 <= Len(bits) /\ bits[idx + 1]
<1> DEFINE q == idx \div 8
           r == idx % 8
           i == 8 * q + 1
           b == EightOf(bits, i)
<1>1. /\ q \in Nat /\ r \in 0 .. 7 /\ idx = 8 * q + r
      /\ q + 1 \in 1 .. BitmapLen(Len(bits)) /\ 8 * (q + 1) - 7 = i
  BY DEF BitmapLen
<1>2. Byte(e, c + q) = b
  <2>1. /\ Bitmap(bits) \in Octets /\ Len(Bitmap(bits)) = BitmapLen(Len(bits))
        /\ Bitmap(bits)[q + 1] = EightOf(bits, 8 * (q + 1) - 7)
    <3> HIDE DEF q
    <3> QED BY <1>1, BitmapAre
  <2>2. Byte(e, c + (q + 1) - 1) = Bitmap(bits)[q + 1]
    <3> HIDE DEF q
    <3> QED BY <1>1, <2>1, BytesAt
  <2>3. c + (q + 1) - 1 = c + q
    <3> HIDE DEF q
    <3> QED BY <1>1 DEF At
  <2> HIDE DEF q
  <2> QED BY <1>1, <2>1, <2>2, <2>3
<1>3. isSet(e, c, idx) <=> (b \div 2 ^ r) % 2 = 1
  BY <1>2, Zenon DEF isSet
<1>4. /\ 2 ^ 0 = 1 /\ 2 ^ 1 = 2 /\ 2 ^ 2 = 4 /\ 2 ^ 3 = 8
      /\ 2 ^ 4 = 16 /\ 2 ^ 5 = 32 /\ 2 ^ 6 = 64 /\ 2 ^ 7 = 128
  OBVIOUS
<1>5. /\ (b \div 1) % 2 = BitOf(bits, i) /\ (b \div 2) % 2 = BitOf(bits, i + 1)
      /\ (b \div 4) % 2 = BitOf(bits, i + 2) /\ (b \div 8) % 2 = BitOf(bits, i + 3)
      /\ (b \div 16) % 2 = BitOf(bits, i + 4) /\ (b \div 32) % 2 = BitOf(bits, i + 5)
      /\ (b \div 64) % 2 = BitOf(bits, i + 6) /\ (b \div 128) % 2 = BitOf(bits, i + 7)
  <2>1. b = EightOf(bits, i)
    OBVIOUS
  <2> HIDE DEF b, i
  <2> QED BY <2>1, EightAre
<1>6. idx + 1 = i + r /\ i + 0 = i
  <2> HIDE DEF q, r
  <2> QED BY <1>1
<1>7. (b \div 2 ^ r) % 2 = BitOf(bits, i + r)
  <2> HIDE DEF q, r, i, b
  <2>1. r \in {0, 1, 2, 3, 4, 5, 6, 7}
    BY <1>1
  <2>2. CASE r = 0
    BY <1>4, <1>5, <1>6, <2>2, Zenon
  <2>3. CASE r = 1
    BY <1>4, <1>5, <2>3, Zenon
  <2>4. CASE r = 2
    BY <1>4, <1>5, <2>4, Zenon
  <2>5. CASE r = 3
    BY <1>4, <1>5, <2>5, Zenon
  <2>6. CASE r = 4
    BY <1>4, <1>5, <2>6, Zenon
  <2>7. CASE r = 5
    BY <1>4, <1>5, <2>7, Zenon
  <2>8. CASE r = 6
    BY <1>4, <1>5, <2>8, Zenon
  <2>9. CASE r = 7
    BY <1>4, <1>5, <2>9, Zenon
  <2> QED BY <2>1, <2>2, <2>3, <2>4, <2>5, <2>6, <2>7, <2>8, <2>9
<1>8. BitOf(bits, i + r) = 1 <=> i + r <= Len(bits) /\ bits[i + r]
  BY BitIs
<1> HIDE DEF q, r, i, b
<1> QED BY <1>3, <1>6, <1>7, <1>8, Zenon

-----------------------------------------------------------------------------
(* The types of columns. *)

\* enum bl_enum_field_types.
LEMMA TypesAre ==
    /\ T.TINY = 1 /\ T.SHORT = 2 /\ T.LONG = 3 /\ T.FLOAT = 4 /\ T.DOUBLE = 5
    /\ T.TIMESTAMP = 7 /\ T.LONGLONG = 8 /\ T.INT24 = 9 /\ T.DATE = 10 /\ T.TIME = 11
    /\ T.DATETIME = 12 /\ T.YEAR = 13 /\ T.NEWDATE = 14 /\ T.VARCHAR = 15 /\ T.BIT = 16
    /\ T.NEWDECIMAL = 246 /\ T.ENUM = 247 /\ T.SET = 248 /\ T.TINY_BLOB = 249
    /\ T.MEDIUM_BLOB = 250 /\ T.LONG_BLOB = 251 /\ T.BLOB = 252 /\ T.VAR_STRING = 253
    /\ T.STRING = 254 /\ T.GEOMETRY = 255
  BY DEF T

\* The bytes of a value, one type after the other.
LEMMA PackForms ==
    ASSUME NEW col, NEW v
    PROVE  /\ col.type \in (Fixed \ {T.INT24}) \union {T.BIT, T.SET} => Pack(col, v) = v
           /\ col.type = T.INT24 => Pack(col, v) =
                Lowest(v, 3)
           /\ col.type = T.DATETIME => Pack(col, v) =
                MulAdd(Hundreds(v[1], v[2], v[3]), 8, DateTime,
                                      Hundreds(v[4], v[5], v[6]))
           /\ col.type = T.TIME => Pack(col, v) =
                LittleBytes(Hundreds(v[1], v[2], v[3]), 3)
           /\ col.type = T.DATE => Pack(col, v) =
                LittleBytes(DayBits(v[1], v[2], v[3]), 3)
           /\ col.type = T.YEAR => Pack(col, v) =
                <<YearByte(v[1])>>
           /\ col.type = T.ENUM => Pack(col, v) =
                Lowest(v, col.len)
           /\ col.type = T.BLOB => Pack(col, v) =
                Join(LittleBytes(Len(v), col.len), v)
           /\ col.type = T.NEWDECIMAL => Pack(col, v) =
                Packed!decimal2bin(AsNumber(v))
           /\ col.type \in {T.VARCHAR, T.STRING} => Pack(col, v) =
                Join(LittleBytes(Len(v), IF col.len > 255 THEN 2 ELSE 1), v)
<1>1. ASSUME col.type \in (Fixed \ {T.INT24}) \union {T.BIT, T.SET}
      PROVE  Pack(col, v) = v
  <2>1. /\ col.type # T.INT24 /\ col.type # T.DATETIME /\ col.type # T.TIME
        /\ col.type # T.DATE /\ col.type # T.YEAR /\ col.type # T.ENUM
        /\ col.type # T.BLOB /\ ~(col.type \in {T.VARCHAR, T.STRING})
        /\ col.type # T.NEWDECIMAL
    BY <1>1, TypesAre DEF Fixed
  <2> QED BY <1>1, <2>1, SMT DEF Pack, Join
<1>2. ASSUME col.type = T.INT24
      PROVE  Pack(col, v) = Lowest(v, 3)
  <2>1. /\ col.type # T.DATETIME /\ col.type # T.TIME /\ col.type # T.DATE
        /\ col.type # T.YEAR /\ col.type # T.ENUM /\ col.type # T.BLOB
        /\ ~(col.type \in {T.VARCHAR, T.STRING}) /\ col.type # T.NEWDECIMAL
    BY <1>2, TypesAre DEF Fixed
  <2> QED BY <1>2, <2>1, SMT DEF Pack, Join
<1>3. ASSUME col.type = T.DATETIME
      PROVE  Pack(col, v) = MulAdd(Hundreds(v[1], v[2], v[3]), 8, DateTime,
                                      Hundreds(v[4], v[5], v[6]))
  <2>1. /\ col.type # T.INT24 /\ col.type # T.TIME /\ col.type # T.DATE
        /\ col.type # T.YEAR /\ col.type # T.ENUM /\ col.type # T.BLOB
        /\ ~(col.type \in {T.VARCHAR, T.STRING}) /\ col.type # T.NEWDECIMAL
    BY <1>3, TypesAre DEF Fixed
  <2> QED BY <1>3, <2>1, SMT DEF Pack, Join
<1>4. ASSUME col.type = T.TIME
      PROVE  Pack(col, v) = LittleBytes(Hundreds(v[1], v[2], v[3]), 3)
  <2>1. /\ col.type # T.INT24 /\ col.type # T.DATETIME /\ col.type # T.DATE
        /\ col.type # T.YEAR /\ col.type # T.ENUM /\ col.type # T.BLOB
        /\ ~(col.type \in {T.VARCHAR, T.STRING}) /\ col.type # T.NEWDECIMAL
    BY <1>4, TypesAre DEF Fixed
  <2> QED BY <1>4, <2>1, SMT DEF Pack, Join
<1>5. ASSUME col.type = T.DATE
      PROVE  Pack(col, v) = LittleBytes(DayBits(v[1], v[2], v[3]), 3)
  <2>1. /\ col.type # T.INT24 /\ col.type # T.DATETIME /\ col.type # T.TIME
        /\ col.type # T.YEAR /\ col.type # T.ENUM /\ col.type # T.BLOB
        /\ ~(col.type \in {T.VARCHAR, T.STRING}) /\ col.type # T.NEWDECIMAL
    BY <1>5, TypesAre DEF Fixed
  <2> QED BY <1>5, <2>1, SMT DEF Pack, Join
<1>6. ASSUME col.type = T.YEAR
      PROVE  Pack(col, v) = <<YearByte(v[1])>>
  <2>1. /\ col.type # T.INT24 /\ col.type # T.DATETIME /\ col.type # T.TIME
        /\ col.type # T.DATE /\ col.type # T.ENUM /\ col.type # T.BLOB
        /\ ~(col.type \in {T.VARCHAR, T.STRING}) /\ col.type # T.NEWDECIMAL
    BY <1>6, TypesAre DEF Fixed
  <2> QED BY <1>6, <2>1, SMT DEF Pack, Join
<1>7. ASSUME col.type = T.ENUM
      PROVE  Pack(col, v) = Lowest(v, col.len)
  <2>1. /\ col.type # T.INT24 /\ col.type # T.DATETIME /\ col.type # T.TIME
        /\ col.type # T.DATE /\ col.type # T.YEAR /\ col.type # T.BLOB
        /\ ~(col.type \in {T.VARCHAR, T.STRING}) /\ col.type # T.NEWDECIMAL
    BY <1>7, TypesAre DEF Fixed
  <2> QED BY <1>7, <2>1, SMT DEF Pack, Join
<1>8. ASSUME col.type = T.BLOB
      PROVE  Pack(col, v) = Join(LittleBytes(Len(v), col.len), v)
  <2>1. /\ col.type # T.INT24 /\ col.type # T.DATETIME /\ col.type # T.TIME
        /\ col.type # T.DATE /\ col.type # T.YEAR /\ col.type # T.ENUM
        /\ ~(col.type \in {T.VARCHAR, T.STRING}) /\ col.type # T.NEWDECIMAL
    BY <1>8, TypesAre DEF Fixed
  <2> QED BY <1>8, <2>1, SMT DEF Pack, Join
<1>9. ASSUME col.type = T.NEWDECIMAL
      PROVE  Pack(col, v) = Packed!decimal2bin(AsNumber(v))
  <2>1. /\ col.type # T.INT24 /\ col.type # T.DATETIME /\ col.type # T.TIME
        /\ col.type # T.DATE /\ col.type # T.YEAR /\ col.type # T.ENUM
        /\ col.type # T.BLOB /\ ~(col.type \in {T.VARCHAR, T.STRING})
    BY <1>9, TypesAre DEF Fixed
  <2> QED BY <1>9, <2>1, SMT DEF Pack, Join
<1>10. ASSUME col.type \in {T.VARCHAR, T.STRING}
      PROVE  Pack(col, v) = Join(LittleBytes(Len(v), IF col.len > 255 THEN 2 ELSE 1), v)
  <2>1. /\ col.type # T.INT24 /\ col.type # T.DATETIME /\ col.type # T.TIME
        /\ col.type # T.DATE /\ col.type # T.YEAR /\ col.type # T.ENUM
        /\ col.type # T.BLOB /\ col.type # T.NEWDECIMAL
    BY <1>10, TypesAre DEF Fixed
  <2> QED BY <1>10, <2>1, SMT DEF Pack, Join
<1> QED BY <1>1, <1>2, <1>3, <1>4, <1>5, <1>6, <1>7, <1>8, <1>9, <1>10

\* The types a master's columns may have.
LEMMA ColumnTypes ==
    ASSUME NEW col, ColumnOK(col)
    PROVE  /\ col.type \in {1, 2, 3, 4, 5, 7, 8, 9, 10, 11, 12, 13, 15, 16, 246, 247, 248, 252, 254}
           /\ col.len \in LenLimits(col.type)
<1>1. col.type \in Fixed \union (Dates \ {T.NEWDATE})
                  \union {T.ENUM, T.SET, T.VARCHAR, T.STRING, T.BLOB, T.BIT, T.NEWDECIMAL}
  BY DEF ColumnOK
<1> QED BY <1>1, TypesAre DEF ColumnOK, Fixed, Dates

\* What a declaration may add to a type.
LEMMA ColumnLens ==
    ASSUME NEW col, ColumnOK(col)
    PROVE  /\ col.type = T.VARCHAR => col.len \in 0 .. LongestVarchar
           /\ col.type = T.STRING => col.len \in 0 .. LongestString
           /\ col.type = T.BLOB => col.len \in 1 .. 4
           /\ col.type = T.BIT => col.len \in 1 .. 64
           /\ col.type = T.ENUM => col.len \in 1 .. 2
           /\ col.type = T.SET => col.len \in 1 .. 8
           /\ col.type = T.NEWDECIMAL => col.len \in {256 * p + s : p \in 1 .. 65, s \in 0 .. 30}
<1>0. col.len \in LenLimits(col.type)
  BY ColumnTypes
<1>1. ASSUME col.type = T.VARCHAR PROVE col.len \in 0 .. LongestVarchar
  <2>1. /\ ~(col.type = T.STRING) /\ ~(col.type = T.BLOB) /\ ~(col.type = T.BIT)
        /\ ~(col.type = T.ENUM) /\ ~(col.type = T.SET) /\ ~(col.type = T.NEWDECIMAL)
    BY <1>1, TypesAre
  <2>2. LenLimits(col.type) = 0 .. LongestVarchar
    BY <1>1, <2>1, SMT DEF LenLimits
  <2> QED BY <1>0, <2>2
<1>2. ASSUME col.type = T.STRING PROVE col.len \in 0 .. LongestString
  <2>1. /\ ~(col.type = T.VARCHAR) /\ ~(col.type = T.BLOB) /\ ~(col.type = T.BIT)
        /\ ~(col.type = T.ENUM) /\ ~(col.type = T.SET) /\ ~(col.type = T.NEWDECIMAL)
    BY <1>2, TypesAre
  <2>2. LenLimits(col.type) = 0 .. LongestString
    BY <1>2, <2>1, SMT DEF LenLimits
  <2> QED BY <1>0, <2>2
<1>3. ASSUME col.type = T.BLOB PROVE col.len \in 1 .. 4
  <2>1. /\ ~(col.type = T.VARCHAR) /\ ~(col.type = T.STRING) /\ ~(col.type = T.BIT)
        /\ ~(col.type = T.ENUM) /\ ~(col.type = T.SET) /\ ~(col.type = T.NEWDECIMAL)
    BY <1>3, TypesAre
  <2>2. LenLimits(col.type) = 1 .. 4
    BY <1>3, <2>1, SMT DEF LenLimits
  <2> QED BY <1>0, <2>2
<1>4. ASSUME col.type = T.BIT PROVE col.len \in 1 .. 64
  <2>1. /\ ~(col.type = T.VARCHAR) /\ ~(col.type = T.STRING) /\ ~(col.type = T.BLOB)
        /\ ~(col.type = T.ENUM) /\ ~(col.type = T.SET) /\ ~(col.type = T.NEWDECIMAL)
    BY <1>4, TypesAre
  <2>2. LenLimits(col.type) = 1 .. 64
    BY <1>4, <2>1, SMT DEF LenLimits
  <2> QED BY <1>0, <2>2
<1>5. ASSUME col.type = T.ENUM PROVE col.len \in 1 .. 2
  <2>1. /\ ~(col.type = T.VARCHAR) /\ ~(col.type = T.STRING) /\ ~(col.type = T.BLOB)
        /\ ~(col.type = T.BIT) /\ ~(col.type = T.SET) /\ ~(col.type = T.NEWDECIMAL)
    BY <1>5, TypesAre
  <2>2. LenLimits(col.type) = 1 .. 2
    BY <1>5, <2>1, SMT DEF LenLimits
  <2> QED BY <1>0, <2>2
<1>6. ASSUME col.type = T.SET PROVE col.len \in 1 .. 8
  <2>1. /\ ~(col.type = T.VARCHAR) /\ ~(col.type = T.STRING) /\ ~(col.type = T.BLOB)
        /\ ~(col.type = T.BIT) /\ ~(col.type = T.ENUM) /\ ~(col.type = T.NEWDECIMAL)
    BY <1>6, TypesAre
  <2>2. LenLimits(col.type) = 1 .. 8
    BY <1>6, <2>1, SMT DEF LenLimits
  <2> QED BY <1>0, <2>2
<1>7. ASSUME col.type = T.NEWDECIMAL PROVE col.len \in {256 * p + s : p \in 1 .. 65, s \in 0 .. 30}
  <2>1. /\ ~(col.type = T.VARCHAR) /\ ~(col.type = T.STRING) /\ ~(col.type = T.BLOB)
        /\ ~(col.type = T.BIT) /\ ~(col.type = T.ENUM) /\ ~(col.type = T.SET)
    BY <1>7, TypesAre
  <2>2. LenLimits(col.type) = {256 * p + s : p \in 1 .. 65, s \in 0 .. 30}
    BY <1>7, <2>1, SMT DEF LenLimits
  <2> QED BY <1>0, <2>2
<1> QED BY <1>1, <1>2, <1>3, <1>4, <1>5, <1>6, <1>7

\* The type and the number of the metadata in the table map.
LEMMA MetaForms ==
    ASSUME NEW col
    PROVE  /\ col.type \in {T.ENUM, T.SET} =>
                FieldType(col) = T.STRING /\ DeclaredMeta(col) = 256 * col.type + col.len
           /\ col.type = T.STRING =>
                /\ FieldType(col) = T.STRING
                /\ DeclaredMeta(col) = 256 * (254 - 16 * (col.len \div 256)) + (col.len % 256)
           /\ col.type = T.BIT =>
                FieldType(col) = T.BIT /\ DeclaredMeta(col) = 256 * (col.len \div 8) + (col.len % 8)
           /\ col.type \in {T.FLOAT, T.DOUBLE} =>
                FieldType(col) = col.type /\ DeclaredMeta(col) = Width(col.type)
           /\ col.type \in {T.VARCHAR, T.BLOB, T.NEWDECIMAL} =>
                FieldType(col) = col.type /\ DeclaredMeta(col) = col.len
           /\ col.type \in (Fixed \ {T.FLOAT, T.DOUBLE}) \union Dates =>
                FieldType(col) = col.type /\ DeclaredMeta(col) = 0
<1>1. ASSUME col.type \in {T.ENUM, T.SET}
      PROVE  FieldType(col) = T.STRING /\ DeclaredMeta(col) = 256 * col.type + col.len
  <2>1. /\ ~(col.type = T.STRING)
        /\ ~(col.type = T.BIT)
        /\ ~(col.type \in {T.FLOAT, T.DOUBLE})
        /\ ~(col.type \in {T.VARCHAR, T.BLOB, T.NEWDECIMAL})
    BY <1>1, TypesAre
  <2>2. FieldType(col) = T.STRING
    BY <1>1, <2>1, Zenon DEF FieldType
  <2>3. DeclaredMeta(col) = 256 * col.type + col.len
    BY <1>1, <2>1, Zenon DEF DeclaredMeta
  <2> QED BY <2>2, <2>3
<1>2. ASSUME col.type = T.STRING
      PROVE  FieldType(col) = T.STRING /\ DeclaredMeta(col) = 256 * (254 - 16 * (col.len \div 256)) + (col.len % 256)
  <2>1. /\ ~(col.type \in {T.ENUM, T.SET})
        /\ ~(col.type = T.BIT)
        /\ ~(col.type \in {T.FLOAT, T.DOUBLE})
        /\ ~(col.type \in {T.VARCHAR, T.BLOB, T.NEWDECIMAL})
    BY <1>2, TypesAre
  <2>2. FieldType(col) = T.STRING
    BY <1>2, <2>1, Zenon DEF FieldType
  <2>3. DeclaredMeta(col) = 256 * (254 - 16 * (col.len \div 256)) + (col.len % 256)
    BY <1>2, <2>1, Zenon DEF DeclaredMeta
  <2> QED BY <2>2, <2>3
<1>3. ASSUME col.type = T.BIT
      PROVE  FieldType(col) = T.BIT /\ DeclaredMeta(col) = 256 * (col.len \div 8) + (col.len % 8)
  <2>1. /\ ~(col.type \in {T.ENUM, T.SET})
        /\ ~(col.type = T.STRING)
        /\ ~(col.type \in {T.FLOAT, T.DOUBLE})
        /\ ~(col.type \in {T.VARCHAR, T.BLOB, T.NEWDECIMAL})
    BY <1>3, TypesAre
  <2>2. FieldType(col) = T.BIT
    BY <1>3, <2>1, Zenon DEF FieldType
  <2>3. DeclaredMeta(col) = 256 * (col.len \div 8) + (col.len % 8)
    BY <1>3, <2>1, Zenon DEF DeclaredMeta
  <2> QED BY <2>2, <2>3
<1>4. ASSUME col.type \in {T.FLOAT, T.DOUBLE}
      PROVE  FieldType(col) = col.type /\ DeclaredMeta(col) = Width(col.type)
  <2>1. /\ ~(col.type \in {T.ENUM, T.SET})
        /\ ~(col.type = T.STRING)
        /\ ~(col.type = T.BIT)
        /\ ~(col.type \in {T.VARCHAR, T.BLOB, T.NEWDECIMAL})
    BY <1>4, TypesAre
  <2>2. FieldType(col) = col.type
    BY <1>4, <2>1, Zenon DEF FieldType
  <2>3. DeclaredMeta(col) = Width(col.type)
    BY <1>4, <2>1, Zenon DEF DeclaredMeta
  <2> QED BY <2>2, <2>3
<1>5. ASSUME col.type \in {T.VARCHAR, T.BLOB, T.NEWDECIMAL}
      PROVE  FieldType(col) = col.type /\ DeclaredMeta(col) = col.len
  <2>1. /\ ~(col.type \in {T.ENUM, T.SET})
        /\ ~(col.type = T.STRING)
        /\ ~(col.type = T.BIT)
        /\ ~(col.type \in {T.FLOAT, T.DOUBLE})
    BY <1>5, TypesAre
  <2>2. FieldType(col) = col.type
    BY <1>5, <2>1, Zenon DEF FieldType
  <2>3. DeclaredMeta(col) = col.len
    BY <1>5, <2>1, Zenon DEF DeclaredMeta
  <2> QED BY <2>2, <2>3
<1>6. ASSUME col.type \in (Fixed \ {T.FLOAT, T.DOUBLE}) \union Dates
      PROVE  FieldType(col) = col.type /\ DeclaredMeta(col) = 0
  <2>1. /\ ~(col.type \in {T.ENUM, T.SET})
        /\ ~(col.type = T.STRING)
        /\ ~(col.type = T.BIT)
        /\ ~(col.type \in {T.FLOAT, T.DOUBLE})
        /\ ~(col.type \in {T.VARCHAR, T.BLOB, T.NEWDECIMAL})
    BY <1>6, TypesAre DEF Fixed, Dates
  <2>2. FieldType(col) = col.type
    BY <1>6, <2>1, Zenon DEF FieldType
  <2>3. DeclaredMeta(col) = 0
    BY <1>6, <2>1, Zenon DEF DeclaredMeta
  <2> QED BY <2>2, <2>3
<1> QED BY <1>1, <1>2, <1>3, <1>4, <1>5, <1>6

\* value2Cell finds a column's type, and a string's length, in the metadata.
LEMMA RealTypeOf ==
    ASSUME NEW col, ColumnOK(col)
    PROVE  /\ RealType(FieldType(col), DeclaredMeta(col)).type = col.type
           /\ col.type = T.STRING => RealType(FieldType(col), DeclaredMeta(col)).len = col.len
<1>1. CASE col.type \notin {T.ENUM, T.SET, T.STRING}
  <2>1. FieldType(col) = col.type /\ col.type # T.STRING
    BY <1>1, Zenon DEF FieldType
  <2> QED BY <2>1 DEF RealType
<1>2. CASE col.type \in {T.ENUM, T.SET}
  <2> DEFINE meta == 256 * col.type + col.len
  <2>1. FieldType(col) = T.STRING /\ DeclaredMeta(col) = meta
    BY <1>2, MetaForms
  <2>2. col.type \in {247, 248} /\ col.len \in 1 .. 8
    BY <1>2, ColumnLens, TypesAre
  <2>3. meta \div 256 = col.type /\ ~(meta < 256)
    BY <2>2
  <2>4. RealType(T.STRING, meta) = [type |-> meta \div 256, len |-> meta % 256]
    <3> HIDE DEF meta
    <3>1. meta \div 256 \in {T.SET, T.ENUM, T.STRING}
      BY <1>2, <2>3
    <3> QED BY <2>3, <3>1, Zenon DEF RealType
  <2>5. col.type # T.STRING
    BY <1>2, TypesAre
  <2> HIDE DEF meta
  <2>6. RealType(T.STRING, meta).type = col.type
    BY <2>3, <2>4
  <2> QED BY <2>1, <2>5, <2>6
<1>3. CASE col.type = T.STRING
  <2> DEFINE k == col.len \div 256
             meta == 256 * (254 - 16 * k) + (col.len % 256)
             byte0 == meta \div 256
             bits == 3 - ((byte0 \div 16) % 4)
  <2>1. FieldType(col) = T.STRING /\ DeclaredMeta(col) = meta
    BY <1>3, MetaForms
  <2>2. col.len \in 0 .. 1023
    BY <1>3, ColumnLens DEF LongestString
  <2>3. k \in {0, 1, 2, 3} /\ meta % 256 = col.len % 256 /\ byte0 = 254 - 16 * k /\ ~(meta < 256)
        /\ col.len = 256 * k + (col.len % 256) /\ col.len % 256 \in Nat
    BY <2>2, SMTT(30)
  <2>4. RealType(T.STRING, meta) =
          IF byte0 \in {T.SET, T.ENUM, T.STRING} THEN [type |-> byte0, len |-> meta % 256]
          ELSE IF bits # 0 THEN [type |-> byte0 + 16 * bits, len |-> (meta % 256) + 256 * bits]
          ELSE [type |-> T.STRING, len |-> meta % 256]
    <3> HIDE DEF meta
    <3> QED BY <2>3, Zenon DEF RealType
  <2> DEFINE r == RealType(T.STRING, meta)
             low == meta % 256
  <2>5. CASE k = 0
    <3>1. byte0 \in {T.SET, T.ENUM, T.STRING} /\ byte0 = 254
      <4> HIDE DEF k, byte0
      <4> QED BY <2>3, <2>5, TypesAre
    <3>2. r = [type |-> byte0, len |-> low]
      <4> HIDE DEF byte0, meta, bits, low
      <4> QED BY <2>4, <3>1 DEF low
    <3>3. low = col.len
      <4> HIDE DEF k
      <4> QED BY <2>3, <2>5
    <3>4. r.type = T.STRING /\ r.len = col.len
      <4> HIDE DEF byte0, r, low
      <4> QED BY <3>1, <3>2, <3>3, TypesAre
    <3> HIDE DEF r
    <3> QED BY <1>3, <2>1, <3>4 DEF r
  <2>6. CASE k \in {1, 2, 3}
    <3>1. byte0 \notin {T.SET, T.ENUM, T.STRING} /\ bits = k /\ bits # 0 /\ byte0 + 16 * bits = 254
      <4>1. byte0 = 254 - 16 * k
        BY <2>3
      <4> HIDE DEF k, byte0
      <4> QED BY <2>6, <4>1, TypesAre
    <3>2. r = [type |-> byte0 + 16 * bits, len |-> low + 256 * bits]
      <4> HIDE DEF byte0, meta, bits, low
      <4> QED BY <2>4, <3>1 DEF low
    <3>3. low + 256 * bits = col.len
      <4>1. low + 256 * k = col.len
        <5> HIDE DEF k
        <5> QED BY <2>3
      <4> HIDE DEF bits, low, k
      <4> QED BY <3>1, <4>1
    <3>4. r.type = T.STRING /\ r.len = col.len
      <4> HIDE DEF byte0, r, low, bits
      <4> QED BY <3>1, <3>2, <3>3, TypesAre
    <3> HIDE DEF r
    <3> QED BY <1>3, <2>1, <3>4 DEF r
  <2> QED BY <2>3, <2>5, <2>6
<1> QED BY <1>1, <1>2, <1>3

-----------------------------------------------------------------------------
(* Cells. *)

\* value2Cell: the reader of each type.
LEMMA CellForms ==
    ASSUME NEW e, NEW c, NEW ft, NEW meta, NEW type, type = RealType(ft, meta).type
    PROVE  /\ type \in Fixed => value2Cell(e, c, ft, meta) = FixedCell(e, c, type)
           /\ type \in Dates => value2Cell(e, c, ft, meta) = DateCell(e, c, type)
           /\ type = T.ENUM => value2Cell(e, c, ft, meta) = EnumCell(e, c, meta)
           /\ type = T.SET => value2Cell(e, c, ft, meta) = SetCell(e, c, meta)
           /\ type = T.BLOB => value2Cell(e, c, ft, meta) = BlobCell(e, c, meta)
           /\ type = T.VARCHAR => value2Cell(e, c, ft, meta) = VarcharCell(e, c, meta)
           /\ type = T.STRING =>
                value2Cell(e, c, ft, meta) = StringCell(e, c, RealType(ft, meta).len)
           /\ type = T.BIT => value2Cell(e, c, ft, meta) = BitCell(e, c, meta)
           /\ type = T.NEWDECIMAL =>
                value2Cell(e, c, ft, meta) = NewdecimalCell(e, c, meta \div 256, meta % 256)
<1>1. ASSUME type \in Fixed PROVE value2Cell(e, c, ft, meta) = FixedCell(e, c, type)
  <2>1. /\ ~(type \in Dates) /\ ~(type = T.ENUM) /\ ~(type = T.SET) /\ ~(type = T.BLOB)
        /\ ~(type \in {T.VARCHAR, T.VAR_STRING}) /\ ~(type = T.STRING) /\ ~(type = T.BIT) /\ ~(type = T.NEWDECIMAL)
    BY <1>1, TypesAre DEF Fixed, Dates
  <2> QED BY <1>1, <2>1, Zenon DEF value2Cell
<1>2. ASSUME type \in Dates PROVE value2Cell(e, c, ft, meta) = DateCell(e, c, type)
  <2>1. /\ ~(type \in Fixed) /\ ~(type = T.ENUM) /\ ~(type = T.SET) /\ ~(type = T.BLOB)
        /\ ~(type \in {T.VARCHAR, T.VAR_STRING}) /\ ~(type = T.STRING) /\ ~(type = T.BIT) /\ ~(type = T.NEWDECIMAL)
    BY <1>2, TypesAre DEF Fixed, Dates
  <2> QED BY <1>2, <2>1, Zenon DEF value2Cell
<1>3. ASSUME type = T.ENUM PROVE value2Cell(e, c, ft, meta) = EnumCell(e, c, meta)
  <2>1. /\ ~(type \in Fixed) /\ ~(type \in Dates) /\ ~(type = T.SET) /\ ~(type = T.BLOB)
        /\ ~(type \in {T.VARCHAR, T.VAR_STRING}) /\ ~(type = T.STRING) /\ ~(type = T.BIT) /\ ~(type = T.NEWDECIMAL)
    BY <1>3, TypesAre DEF Fixed, Dates
  <2> QED BY <1>3, <2>1, Zenon DEF value2Cell
<1>4. ASSUME type = T.SET PROVE value2Cell(e, c, ft, meta) = SetCell(e, c, meta)
  <2>1. /\ ~(type \in Fixed) /\ ~(type \in Dates) /\ ~(type = T.ENUM) /\ ~(type = T.BLOB)
        /\ ~(type \in {T.VARCHAR, T.VAR_STRING}) /\ ~(type = T.STRING) /\ ~(type = T.BIT) /\ ~(type = T.NEWDECIMAL)
    BY <1>4, TypesAre DEF Fixed, Dates
  <2> QED BY <1>4, <2>1, Zenon DEF value2Cell
<1>5. ASSUME type = T.BLOB PROVE value2Cell(e, c, ft, meta) = BlobCell(e, c, meta)
  <2>1. /\ ~(type \in Fixed) /\ ~(type \in Dates) /\ ~(type = T.ENUM) /\ ~(type = T.SET)
        /\ ~(type \in {T.VARCHAR, T.VAR_STRING}) /\ ~(type = T.STRING) /\ ~(type = T.BIT) /\ ~(type = T.NEWDECIMAL)
    BY <1>5, TypesAre DEF Fixed, Dates
  <2> QED BY <1>5, <2>1, Zenon DEF value2Cell
<1>6. ASSUME type = T.VARCHAR PROVE value2Cell(e, c, ft, meta) = VarcharCell(e, c, meta)
  <2>1. /\ ~(type \in Fixed) /\ ~(type \in Dates) /\ ~(type = T.ENUM) /\ ~(type = T.SET)
        /\ ~(type = T.BLOB) /\ ~(type = T.STRING) /\ ~(type = T.BIT) /\ ~(type = T.NEWDECIMAL)
    BY <1>6, TypesAre DEF Fixed, Dates
  <2> QED BY <1>6, <2>1, Zenon DEF value2Cell
<1>7. ASSUME type = T.STRING PROVE value2Cell(e, c, ft, meta) = StringCell(e, c, RealType(ft, meta).len)
  <2>1. /\ ~(type \in Fixed) /\ ~(type \in Dates) /\ ~(type = T.ENUM) /\ ~(type = T.SET)
        /\ ~(type = T.BLOB) /\ ~(type \in {T.VARCHAR, T.VAR_STRING}) /\ ~(type = T.BIT) /\ ~(type = T.NEWDECIMAL)
    BY <1>7, TypesAre DEF Fixed, Dates
  <2> QED BY <1>7, <2>1, Zenon DEF value2Cell
<1>8. ASSUME type = T.BIT PROVE value2Cell(e, c, ft, meta) = BitCell(e, c, meta)
  <2>1. /\ ~(type \in Fixed) /\ ~(type \in Dates) /\ ~(type = T.ENUM) /\ ~(type = T.SET)
        /\ ~(type = T.BLOB) /\ ~(type \in {T.VARCHAR, T.VAR_STRING}) /\ ~(type = T.STRING) /\ ~(type = T.NEWDECIMAL)
    BY <1>8, TypesAre DEF Fixed, Dates
  <2> QED BY <1>8, <2>1, Zenon DEF value2Cell
<1>9. ASSUME type = T.NEWDECIMAL PROVE value2Cell(e, c, ft, meta) = NewdecimalCell(e, c, meta \div 256, meta % 256)
  <2>1. /\ ~(type \in Fixed) /\ ~(type \in Dates) /\ ~(type = T.ENUM) /\ ~(type = T.SET)
        /\ ~(type = T.BLOB) /\ ~(type \in {T.VARCHAR, T.VAR_STRING}) /\ ~(type = T.STRING) /\ ~(type = T.BIT)
    BY <1>9, TypesAre DEF Fixed, Dates
  <2> QED BY <1>9, <2>1, Zenon DEF value2Cell
<1> QED BY <1>1, <1>2, <1>3, <1>4, <1>5, <1>6, <1>7, <1>8, <1>9

\* A cell is read: its value, and the cursor behind its bytes.
Reads(r, behind, value) == r.cur = behind /\ r.cell.value = value

\* The bytes of a value up to a width.
LEMMA LowestAre ==
    ASSUME NEW v, NEW n, v \in Octets, n \in Nat, n <= Len(v)
    PROVE  Lowest(v, n) \in Octets /\ Len(Lowest(v, n)) = n
<1>1. ASSUME NEW i \in 1 .. n PROVE v[i] \in 0 .. 255
  <2>1. i \in 1 .. Len(v)
    BY OctetsAre
  <2> QED BY <2>1, OctetsAre
<1> QED BY <1>1 DEF Lowest, Octets

\* value2Cell: a number of the width of its type.
LEMMA FixedRead ==
    ASSUME NEW e, NEW c, NEW type, NEW v, At(e, c, v), type \in Fixed \ {T.INT24},
           Len(v) = Width(type)
    PROVE  Reads(FixedCell(e, c, type), After(c, v), v)
<1>1. Bytes(e, c, Len(v)) = v
  BY BytesAt
<1>2. Extended(type, v) = v
  BY DEF Extended
<1>3. FixedCell(e, c, type) = [cell |-> Cell(type, CType(type), v), cur |-> c + Len(v)]
  BY <1>1, <1>2 DEF FixedCell
<1>4. Cell(type, CType(type), v).value = v
  BY DEF Cell
<1> QED BY <1>3, <1>4 DEF Reads, After

\* value2Cell: 24 bits and the byte their sign stands for.
LEMMA MediumRead ==
    ASSUME NEW e, NEW c, NEW v, At(e, c, Lowest(v, 3)), v \in Octets, Len(v) = 4,
           v[4] = IF v[3] >= 128 THEN 255 ELSE 0
    PROVE  Reads(FixedCell(e, c, T.INT24), After(c, Lowest(v, 3)), v)
<1> DEFINE b == Lowest(v, 3)
<1>1. b \in Octets /\ Len(b) = 3 /\ b[1] = v[1] /\ b[2] = v[2] /\ b[3] = v[3]
  <2>1. 3 \in Nat /\ 3 <= Len(v)
    OBVIOUS
  <2>2. b \in Octets /\ Len(b) = 3
    BY <2>1, LowestAre
  <2>3. b[1] = v[1] /\ b[2] = v[2] /\ b[3] = v[3]
    BY DEF Lowest
  <2> QED BY <2>2, <2>3
<1>2. Width(T.INT24) = 3
  BY TypesAre DEF Width
<1> HIDE DEF b
<1>3. Bytes(e, c, 3) = b
  BY <1>1, BytesAt DEF b
<1>4. Extended(T.INT24, b) = v
  <2>1. v \in Seq(0 .. 255) /\ b \in Seq(0 .. 255)
    BY <1>1 DEF Octets
  <2>2. Extended(T.INT24, b) = Append(b, v[4])
    BY <1>1 DEF Extended
  <2>3. Append(b, v[4]) = v
    <3>1. v[4] \in 0 .. 255
      BY <2>1
    <3> DEFINE a == v[4]
               w == Append(b, a)
    <3> HIDE DEF a
    <3>a. w \in Seq(0 .. 255) /\ Len(w) = Len(b) + 1 /\ w[Len(b) + 1] = a
          /\ \A i \in 1 .. Len(b) : w[i] = b[i]
      BY <2>1, <3>1, AppendProperties DEF a
    <3> HIDE DEF w
    <3>b. Len(w) = 4 /\ w[4] = a /\ w[1] = b[1] /\ w[2] = b[2] /\ w[3] = b[3]
      BY <1>1, <3>a
    <3>2. Append(b, v[4]) \in Seq(0 .. 255) /\ Len(Append(b, v[4])) = 4
          /\ Append(b, v[4])[1] = v[1] /\ Append(b, v[4])[2] = v[2]
          /\ Append(b, v[4])[3] = v[3] /\ Append(b, v[4])[4] = v[4]
      BY <1>1, <3>a, <3>b DEF w, a
    <3>3. \A i \in 1 .. 4 : Append(b, v[4])[i] = v[i]
      BY <3>2
    <3> QED BY <2>1, <3>2, <3>3, SeqEqual
  <2> QED BY <2>2, <2>3
<1>5. FixedCell(e, c, T.INT24) = [cell |-> Cell(T.INT24, CType(T.INT24), v), cur |-> c + 3]
  BY <1>2, <1>3, <1>4 DEF FixedCell
<1>6. Cell(T.INT24, CType(T.INT24), v).value = v
  BY DEF Cell
<1>7. After(c, b) = c + 3
  BY <1>1 DEF After
<1>8. Reads(FixedCell(e, c, T.INT24), After(c, b), v)
  BY <1>5, <1>6, <1>7 DEF Reads
<1> QED BY <1>8 DEF b

\* value2Cell: a string or a BLOB behind its length.
LEMMA PrefixedRead ==
    ASSUME NEW e, NEW c, NEW n, NEW v, NEW mtype, NEW ctype,
           At(e, c, Join(LittleBytes(Len(v), n), v)), v \in Octets,
           n \in {1, 2, 3, 4}, Fits(Len(v), n)
    PROVE  Reads(Prefixed(e, c, n, mtype, ctype), After(c, Join(LittleBytes(Len(v), n), v)), v)
<1> DEFINE l == LittleBytes(Len(v), n)
<1>1. n \in Nat /\ n \in {1, 2, 3, 4, 6, 8} /\ Len(v) \in Nat
  BY OctetsAre
<1>2. l \in Octets /\ Len(l) = n
  BY <1>1, LittleBytesAre
<1>3. At(e, c, l) /\ At(e, After(c, l), v) /\ After(After(c, l), v) = After(c, Join(l, v))
  <2> HIDE DEF l
  <2> QED BY <1>2, AtJoin DEF l
<1>4. ReadUint(e, c, n) = Len(v)
  BY <1>1, <1>3, UintAt
<1>5. After(c, l) = c + n
  BY <1>2 DEF After
<1>6. Bytes(e, c + n, Len(v)) = v
  BY <1>3, <1>5, BytesAt
<1>7. Prefixed(e, c, n, mtype, ctype) = [cell |-> Cell(mtype, ctype, v), cur |-> c + n + Len(v)]
  BY <1>4, <1>6 DEF Prefixed
<1>8. c + n + Len(v) = After(c, Join(l, v))
  BY <1>3, <1>5 DEF After
<1>9. Cell(mtype, ctype, v).value = v
  BY DEF Cell
<1> QED BY <1>7, <1>8, <1>9 DEF Reads

\* A date of type is read from n bytes as v.
ReadAsDate(e, c, type, v, n) ==
    DateCell(e, c, type) = [cell |-> Cell(type, "STRING", v), cur |-> c + n]

\* The cell, then, and the cursor behind it.
LEMMA DateReads ==
    ASSUME NEW e, NEW c, NEW type, NEW b, NEW n, NEW v, Len(b) = n, ReadAsDate(e, c, type, v, n)
    PROVE  Reads(DateCell(e, c, type), After(c, b), v)
  BY DEF ReadAsDate, Reads, Cell, After

\* value2Cell: a TIME is the parts of a number.
LEMMA TimeForm ==
    ASSUME NEW e, NEW c, NEW type, type = T.TIME
    PROVE  ReadAsDate(e, c, type, Fields(ReadUint(e, c, 3)), 3)
<1>1. ~(type \in {T.DATE, T.NEWDATE}) /\ ~(type = T.YEAR) /\ ~(type = T.DATETIME)
  BY TypesAre
<1> QED BY <1>1, Zenon DEF DateCell, ReadAsDate

\* value2Cell: a DATE is bits of a number.
LEMMA DateForm ==
    ASSUME NEW e, NEW c, NEW type, type = T.DATE
    PROVE  ReadAsDate(e, c, type, <<ReadUint(e, c, 3) \div 512, (ReadUint(e, c, 3) \div 32) % 16, ReadUint(e, c, 3) % 32>>, 3)
<1>1. ~(type = T.TIME) /\ ~(type = T.YEAR) /\ ~(type = T.DATETIME)
  BY TypesAre
<1>2. type \in {T.DATE, T.NEWDATE}
  OBVIOUS
<1> QED BY <1>1, <1>2, Zenon DEF DateCell, ReadAsDate

\* value2Cell: a YEAR counts from 1900.
LEMMA YearForm ==
    ASSUME NEW e, NEW c, NEW type, type = T.YEAR
    PROVE  ReadAsDate(e, c, type, <<ReadUint(e, c, 1) + 1900>>, 1)
<1>1. ~(type = T.TIME) /\ ~(type \in {T.DATE, T.NEWDATE}) /\ ~(type = T.DATETIME)
  BY TypesAre
<1> QED BY <1>1, Zenon DEF DateCell, ReadAsDate

\* value2Cell: a DATETIME is the parts of two numbers in one.
LEMMA DatetimeForm ==
    ASSUME NEW e, NEW c, NEW type, type = T.DATETIME
    PROVE  ReadAsDate(e, c, type, Fields(DivMod(Bytes(e, c, 8), DateTime).div)
                             \o Fields(DivMod(Bytes(e, c, 8), DateTime).mod), 8)
<1>1. ~(type = T.TIME) /\ ~(type \in {T.DATE, T.NEWDATE}) /\ ~(type = T.YEAR)
  BY TypesAre
<1> QED BY <1>1, Zenon DEF DateCell, ReadAsDate

\* A number of 24 bits is read.
LEMMA ThreeRead ==
    ASSUME NEW e, NEW c, NEW v, NEW b, b = LittleBytes(v, 3), At(e, c, b), v \in Nat, Fits(v, 3)
    PROVE  ReadUint(e, c, 3) = v /\ Len(b) = 3
<1>1. 3 \in {1, 2, 3, 4, 6, 8} /\ 3 \in Nat
  OBVIOUS
<1>2. At(e, c, LittleBytes(v, 3))
  OBVIOUS
<1>3. ReadUint(e, c, 3) = v
  BY <1>1, <1>2, UintAt
<1> QED BY <1>1, <1>3, LittleBytesAre

\* A date's numbers are found in the digits they were packed into, in the bits.
LEMMA HundredsRead ==
    ASSUME NEW h \in Nat, NEW m \in 0 .. 99, NEW s \in 0 .. 99
    PROVE  Hundreds(h, m, s) \in Nat /\ Fields(Hundreds(h, m, s)) = <<h, m, s>>
<1> DEFINE w == h * 10000 + m * 100 + s
<1>1. w \div 10000 = h /\ w % 10000 = m * 100 + s /\ w \in Nat
  OBVIOUS
<1>2. (m * 100 + s) \div 100 = m /\ w % 100 = s
  OBVIOUS
<1>3. Hundreds(h, m, s) = w
  BY DEF Hundreds
<1> HIDE DEF w
<1>4. Fields(w) = <<h, m, s>>
  BY <1>1, <1>2 DEF Fields
<1> QED BY <1>1, <1>3, <1>4

\* A DATE in bits, and its parts again.
DayParts(w) == <<w \div 512, (w \div 32) % 16, w % 32>>

\* The day, the month and the year do not run into each other.
LEMMA DayRead ==
    ASSUME NEW y \in 0 .. LastYear, NEW m \in 0 .. 12, NEW d \in 0 .. 31,
           NEW w, w = DayBits(y, m, d)
    PROVE  w \in Nat /\ Fits(w, 3) /\ DayParts(w) = <<y, m, d>>
<1>0. w = y * 512 + m * 32 + d /\ y \in Nat /\ y < 10000
  <2>1. LastYear \in Nat /\ LastYear < 10000
    BY DEF LastYear
  <2> QED BY <2>1 DEF DayBits
<1>1. w \in Nat /\ w < 16777216
  BY <1>0, SMT
<1>2. Fits(w, 3)
  BY <1>1, SMT DEF Fits
<1>3. w \div 512 = y /\ w % 32 = d
  BY <1>0
<1>4. w \div 32 = y * 16 + m /\ (y * 16 + m) % 16 = m
  BY <1>0
<1>5. w \in Nat
  BY <1>0
<1> QED BY <1>2, <1>3, <1>4, <1>5 DEF DayParts

\* A TIME's number takes three bytes.
LEMMA TimeFits ==
    ASSUME NEW h \in 0 .. 838, NEW m \in 0 .. 59, NEW s \in 0 .. 59
    PROVE  Fits(Hundreds(h, m, s), 3)
<1>1. h * 10000 + m * 100 + s < 16777216
  BY SMT
<1> QED BY <1>1, SMT DEF Fits, Hundreds

\* value2Cell: a TIME.
LEMMA TimeRead ==
    ASSUME NEW e, NEW c, NEW type, NEW b, NEW w, type = T.TIME, At(e, c, b),
           b = LittleBytes(w, 3), w \in Nat, Fits(w, 3)
    PROVE  Reads(DateCell(e, c, type), After(c, b), Fields(w))
<1>1. ReadUint(e, c, 3) = w /\ Len(b) = 3
  BY ThreeRead
<1>2. ReadAsDate(e, c, type, Fields(w), 3)
  BY <1>1, TimeForm
<1> QED BY <1>1, <1>2, DateReads

\* value2Cell: a DATE.
LEMMA DateRead ==
    ASSUME NEW e, NEW c, NEW type, NEW b, NEW w, type = T.DATE, At(e, c, b),
           b = LittleBytes(w, 3), w \in Nat, Fits(w, 3)
    PROVE  Reads(DateCell(e, c, type), After(c, b), DayParts(w))
<1>1. ReadUint(e, c, 3) = w /\ Len(b) = 3
  BY ThreeRead
<1>2. ReadAsDate(e, c, type, DayParts(w), 3)
  BY <1>1, DateForm DEF DayParts
<1> QED BY <1>1, <1>2, DateReads

\* One byte.
LEMMA OneByteIs ==
    ASSUME NEW w \in 0 .. 255
    PROVE  LittleBytes(w, 1) = <<w>> /\ Fits(w, 1)
<1>1. 1 \in Nat /\ w \in Nat /\ w % 256 = w /\ 1 - 1 = 0
  OBVIOUS
<1>2. PICK high : Shifted(high, w, 1) /\ LittleBytes(w, 1) = LowBytes(high, 1)
  BY <1>1, LittleSteps
<1>3. high[1 - 1] % 256 = w
  BY <1>1, <1>2 DEF Shifted
<1>4. LowBytes(high, 1) = [i \in 1 .. 1 |-> w]
  BY <1>3 DEF LowBytes
<1>5. [i \in 1 .. 1 |-> w] = <<w>>
  OBVIOUS
<1>6. Fits(w, 1)
  BY SMT DEF Fits
<1> QED BY <1>2, <1>4, <1>5, <1>6

\* value2Cell: a YEAR.
LEMMA YearRead ==
    ASSUME NEW e, NEW c, NEW type, NEW b, NEW w, type = T.YEAR, At(e, c, b),
           w \in 0 .. 255, b = <<w>>
    PROVE  Reads(DateCell(e, c, type), After(c, b), <<w + 1900>>)
<1> DEFINE v == <<w + 1900>>
<1>1. 1 \in {1, 2, 3, 4, 6, 8} /\ w \in Nat /\ Len(b) = 1
  OBVIOUS
<1>2. At(e, c, LittleBytes(w, 1)) /\ Fits(w, 1)
  BY OneByteIs
<1>3. ReadUint(e, c, 1) = w
  BY <1>1, <1>2, UintAt
<1>4. ReadAsDate(e, c, type, v, 1)
  BY <1>3, YearForm
<1> HIDE DEF v
<1>5. Reads(DateCell(e, c, type), After(c, b), v)
  <2>1. Len(b) = 1
    BY <1>1
  <2> QED BY <1>4, <2>1, DateReads
<1> QED BY <1>5 DEF v

\* The cell of a column.
CellOf(e, c, col) == value2Cell(e, c, FieldType(col), DeclaredMeta(col))

\* value2Cell comes to the reader of a column's type.
LEMMA CellOfForms ==
    ASSUME NEW e, NEW c, NEW col, ColumnOK(col)
    PROVE  /\ col.type \in Fixed => CellOf(e, c, col) = FixedCell(e, c, col.type)
           /\ col.type \in Dates => CellOf(e, c, col) = DateCell(e, c, col.type)
           /\ col.type = T.ENUM => CellOf(e, c, col) = EnumCell(e, c, 256 * col.type + col.len)
           /\ col.type = T.SET => CellOf(e, c, col) = SetCell(e, c, 256 * col.type + col.len)
           /\ col.type = T.BLOB => CellOf(e, c, col) = BlobCell(e, c, col.len)
           /\ col.type = T.VARCHAR => CellOf(e, c, col) = VarcharCell(e, c, col.len)
           /\ col.type = T.STRING => CellOf(e, c, col) = StringCell(e, c, col.len)
           /\ col.type = T.BIT => CellOf(e, c, col) =
                BitCell(e, c, 256 * (col.len \div 8) + (col.len % 8))
           /\ col.type = T.NEWDECIMAL => CellOf(e, c, col) =
                NewdecimalCell(e, c, col.len \div 256, col.len % 256)
<1> DEFINE ft == FieldType(col)
           meta == DeclaredMeta(col)
<1>1. RealType(ft, meta).type = col.type
      /\ (col.type = T.STRING => RealType(ft, meta).len = col.len)
  BY RealTypeOf
<1>2. CellOf(e, c, col) = value2Cell(e, c, ft, meta)
  BY DEF CellOf
<1>3. /\ col.type \in {T.ENUM, T.SET} => meta = 256 * col.type + col.len
      /\ col.type = T.BIT => meta = 256 * (col.len \div 8) + (col.len % 8)
      /\ col.type \in {T.VARCHAR, T.BLOB, T.NEWDECIMAL} => meta = col.len
  BY MetaForms
<1> HIDE DEF ft, meta
<1>4. /\ col.type \in Fixed => value2Cell(e, c, ft, meta) = FixedCell(e, c, col.type)
      /\ col.type \in Dates => value2Cell(e, c, ft, meta) = DateCell(e, c, col.type)
      /\ col.type = T.ENUM => value2Cell(e, c, ft, meta) = EnumCell(e, c, meta)
      /\ col.type = T.SET => value2Cell(e, c, ft, meta) = SetCell(e, c, meta)
      /\ col.type = T.BLOB => value2Cell(e, c, ft, meta) = BlobCell(e, c, meta)
      /\ col.type = T.VARCHAR => value2Cell(e, c, ft, meta) = VarcharCell(e, c, meta)
      /\ col.type = T.STRING => value2Cell(e, c, ft, meta) = StringCell(e, c, RealType(ft, meta).len)
      /\ col.type = T.BIT => value2Cell(e, c, ft, meta) = BitCell(e, c, meta)
      /\ col.type = T.NEWDECIMAL => value2Cell(e, c, ft, meta) = NewdecimalCell(e, c, meta \div 256, meta % 256)
  BY <1>1, CellForms
<1> QED BY <1>1, <1>2, <1>3, <1>4

\* The bytes of an ENUM, and the zeros behind them up to four.
LEMMA ZerosBehind ==
    ASSUME NEW v, NEW n \in {1, 2}, v \in Octets, Len(v) = 4, \A i \in n + 1 .. 4 : v[i] = 0
    PROVE  Join(Lowest(v, n), [i \in 1 .. 4 - n |-> 0]) = v
<1> DEFINE b == Lowest(v, n)
           z == [i \in 1 .. 4 - n |-> 0]
           w == Join(b, z)
<1>1. n \in Nat /\ n <= Len(v)
  OBVIOUS
<1>2. b \in Octets /\ Len(b) = n
  BY <1>1, LowestAre
<1>3. \A i \in 1 .. n : b[i] = v[i]
  BY DEF Lowest
<1>4. z \in Octets /\ Len(z) = 4 - n
  BY DEF Octets
<1>5. \A i \in 1 .. 4 - n : z[i] = 0
  OBVIOUS
<1> HIDE DEF b, z
<1>6. /\ w \in Octets /\ Len(w) = Len(b) + Len(z)
      /\ \A i \in 1 .. Len(b) : w[i] = b[i]
      /\ \A i \in 1 .. Len(z) : w[Len(b) + i] = z[i]
  <2>1. b \in Octets /\ z \in Octets
    BY <1>2, <1>4
  <2> QED BY <2>1, Joined
<1> HIDE DEF w
<1>7. Len(w) = Len(v)
  BY <1>2, <1>4, <1>6
<1>8. ASSUME NEW i \in 1 .. Len(w) PROVE w[i] = v[i]
  <2>1. CASE i <= n
    BY <1>2, <1>3, <1>6, <2>1
  <2>2. CASE ~(i <= n)
    <3>1. i - n \in 1 .. 4 - n /\ Len(b) + (i - n) = i /\ i \in n + 1 .. 4
      BY <1>2, <1>7, <2>2
    <3>2. w[i] = z[i - n]
      BY <1>4, <1>6, <3>1
    <3> QED BY <1>5, <3>1, <3>2
  <2> QED BY <2>1, <2>2
<1>9. w \in Seq(0 .. 255) /\ v \in Seq(0 .. 255)
  BY <1>6 DEF Octets
<1>10. w = v
  BY <1>7, <1>8, <1>9, SeqEqual
<1> QED BY <1>10 DEF w, b, z

\* value2Cell: an ENUM of one byte or two.
LEMMA EnumRead ==
    ASSUME NEW e, NEW c, NEW meta, NEW n, NEW v, At(e, c, Lowest(v, n)), meta % 256 = n,
           n \in {1, 2}, v \in Octets, Len(v) = 4, \A i \in n + 1 .. 4 : v[i] = 0
    PROVE  Reads(EnumCell(e, c, meta), After(c, Lowest(v, n)), v)
<1> DEFINE b == Lowest(v, n)
<1>1. n \in Nat /\ n <= Len(v) /\ n # 0
  OBVIOUS
<1>2. b \in Octets /\ Len(b) = n
  BY <1>1, LowestAre, ZenonT(60)
<1>3. Join(b, [i \in 1 .. 4 - n |-> 0]) = v
  BY ZerosBehind
<1> HIDE DEF b
<1>4. Bytes(e, c, n) = b
  BY <1>2, BytesAt DEF b
<1>5. Bytes(e, c, n) \o [i \in 1 .. 4 - n |-> 0] = v
  BY <1>3, <1>4, Zenon DEF Join
<1>6. EnumCell(e, c, meta) =
        [cell |-> Cell(T.ENUM, "INT32", Bytes(e, c, n) \o [i \in 1 .. 4 - n |-> 0]), cur |-> c + n]
  BY <1>1, Zenon DEF EnumCell
<1>7. EnumCell(e, c, meta) = [cell |-> Cell(T.ENUM, "INT32", v), cur |-> c + n]
  BY <1>5, <1>6, Zenon
<1>8. After(c, b) = c + n
  BY <1>2, Zenon DEF After
<1>9. Reads(EnumCell(e, c, meta), After(c, b), v)
  BY <1>7, <1>8 DEF Reads, Cell
<1> QED BY <1>9 DEF b

\* value2Cell: behind a SET the cursor is right, whatever was read.
LEMMA SetRead ==
    ASSUME NEW e, NEW c, NEW meta, NEW v, meta % 256 = Len(v)
    PROVE  SetCell(e, c, meta).cur = After(c, v)
  BY DEF SetCell, After

\* value2Cell: a BIT column.
LEMMA BitCellRead ==
    ASSUME NEW e, NEW c, NEW meta, NEW v, At(e, c, v), BitBytes(meta) = Len(v)
    PROVE  Reads(BitCell(e, c, meta), After(c, v), v)
<1>1. Bytes(e, c, Len(v)) = v
  BY BytesAt
<1>2. BitCell(e, c, meta) = [cell |-> Cell(T.BIT, "BINARY", v), cur |-> c + Len(v)]
  BY <1>1, Zenon DEF BitCell
<1> QED BY <1>2 DEF Reads, Cell, After

\* What fits in the length before a string, a BLOB.
LEMMA FitsBefore ==
    ASSUME NEW len \in Nat
    PROVE  /\ len <= 255 => Fits(len, 1)
           /\ len <= LongestVarchar => Fits(len, 2)
           /\ \A n \in 1 .. 4 : len <= BlobLimit(n) => Fits(len, n)
<1>1. len <= 255 => Fits(len, 1)
  BY SMT DEF Fits
<1>2. len <= LongestVarchar => Fits(len, 2)
  BY SMT DEF Fits, LongestVarchar
<1>3. len <= BlobLimit(1) => Fits(len, 1)
  BY SMT DEF Fits, BlobLimit
<1>4. len <= BlobLimit(2) => Fits(len, 2)
  BY SMT DEF Fits, BlobLimit
<1>5. len <= BlobLimit(3) => Fits(len, 3)
  BY SMT DEF Fits, BlobLimit
<1>6. len <= BlobLimit(4) => Fits(len, 4)
  BY SMT DEF Fits, BlobLimit, FourBytes
<1>7. \A n \in 1 .. 4 : n \in {1, 2, 3, 4}
  OBVIOUS
<1>8. ASSUME NEW n \in 1 .. 4 PROVE len <= BlobLimit(n) => Fits(len, n)
  <2>1. CASE n = 1
    BY <1>3, <2>1
  <2>2. CASE n = 2
    BY <1>4, <2>2
  <2>3. CASE n = 3
    BY <1>5, <2>3
  <2>4. CASE n = 4
    BY <1>6, <2>4
  <2> QED BY <1>7, <2>1, <2>2, <2>3, <2>4
<1> QED BY <1>1, <1>2, <1>8

\* How many bytes BIT columns take.
LEMMA BitWidth ==
    ASSUME NEW n \in 1 .. 64, NEW meta, meta = 256 * (n \div 8) + (n % 8)
    PROVE  BitBytes(meta) = (n + 7) \div 8
<1> DEFINE q == n \div 8
           r == n % 8
<1>1. q \in 0 .. 8 /\ r \in 0 .. 7 /\ n = 8 * q + r
  OBVIOUS
<1>2. meta = 256 * q + r
  OBVIOUS
<1> HIDE DEF q, r
<1>3. meta \div 256 = q /\ meta % 256 = r
  BY <1>1, <1>2
<1>4. (meta \div 256) * 8 + (meta % 256) + 7 = n + 7
  BY <1>1, <1>3
<1> QED BY <1>4, Zenon DEF BitBytes

\* The number of a TIME, of a DATE.
LEMMA TimeValue ==
    ASSUME NEW v, NEW w, IsTime(v), w = Hundreds(v[1], v[2], v[3])
    PROVE  w \in Nat /\ Fits(w, 3) /\ Fields(w) = v
<1>1. v[1] \in 0 .. 838 /\ v[2] \in 0 .. 59 /\ v[3] \in 0 .. 59 /\ v = <<v[1], v[2], v[3]>>
  BY DEF IsTime
<1>2. v[1] \in Nat /\ v[2] \in 0 .. 99 /\ v[3] \in 0 .. 99
  BY <1>1
<1> DEFINE h == v[1]
           m == v[2]
           s == v[3]
<1>3. h \in Nat /\ m \in 0 .. 99 /\ s \in 0 .. 99 /\ v = <<h, m, s>> /\ w = Hundreds(h, m, s)
  BY <1>1, <1>2
<1>4. Fits(w, 3)
  BY <1>1, TimeFits
<1> HIDE DEF h, m, s
<1>5. Hundreds(h, m, s) \in Nat /\ Fields(Hundreds(h, m, s)) = <<h, m, s>>
  BY <1>3, HundredsRead
<1> QED BY <1>3, <1>4, <1>5

\* A DATE fits in its three bytes and is read again.
LEMMA DateValue ==
    ASSUME NEW v, NEW w, IsDay(v), w = DayBits(v[1], v[2], v[3])
    PROVE  w \in Nat /\ Fits(w, 3) /\ DayParts(w) = v
<1>1. v[1] \in 0 .. LastYear /\ v[2] \in 0 .. 12 /\ v[3] \in 0 .. 31 /\ v = <<v[1], v[2], v[3]>>
  BY DEF IsDay
<1> DEFINE y == v[1]
           m == v[2]
           d == v[3]
<1>2. y \in 0 .. LastYear /\ m \in 0 .. 12 /\ d \in 0 .. 31 /\ v = <<y, m, d>> /\ w = DayBits(y, m, d)
  BY <1>1
<1> HIDE DEF y, m, d
<1>3. w \in Nat /\ Fits(w, 3) /\ DayParts(w) = <<y, m, d>>
  BY <1>2, DayRead
<1> QED BY <1>2, <1>3

\* value2Cell: a YEAR is the year that was written, but for 0000.
LEMMA YearCellRead ==
    ASSUME NEW e, NEW c, NEW col, NEW v, ColumnOK(col), ValueOK(col, v), At(e, c, Pack(col, v)),
           col.type = T.YEAR
    PROVE  /\ CellOf(e, c, col).cur = After(c, Pack(col, v))
           /\ CellOf(e, c, col).cell.value = YearShown(v)
<1> DEFINE b == Pack(col, v)
           w == YearByte(v[1])
           t == <<w + 1900>>
<1>1. IsYear(v)
  BY Zenon DEF ValueOK, IsDate
<1>2. b = <<w>>
  BY PackForms
<1>3. w \in 0 .. 255 /\ t = YearShown(v)
  <2>1. PICK y \in {NoYear} \union 1901 .. 2155 : v = <<y>>
    BY <1>1 DEF IsYear
  <2>2. CASE y = 0
    BY <2>1, <2>2 DEF NoYear, YearByte, YearShown
  <2>3. CASE y \in 1901 .. 2155
    <3>1. v # <<0>> /\ v[1] = y
      BY <2>1, <2>3
    <3>2. w = y - 1900 /\ YearShown(v) = v
      BY <2>3, <3>1 DEF NoYear, YearByte, YearShown
    <3> QED BY <2>1, <2>3, <3>2
  <2> QED BY <2>1, <2>2, <2>3 DEF NoYear
<1>4. At(e, c, b) /\ col.type \in Dates
  BY DEF Dates
<1>5. CellOf(e, c, col) = DateCell(e, c, col.type)
  BY <1>4, CellOfForms
<1> HIDE DEF b, w
<1>6. Reads(DateCell(e, c, col.type), After(c, b), t)
  BY <1>2, <1>3, <1>4, YearRead
<1> HIDE DEF t
<1>7. t = YearShown(v)
  BY <1>3
<1> QED BY <1>5, <1>6, <1>7, Zenon DEF Reads, b

\* value2Cell: behind the bytes of a value stands the cursor, and it is read as
\* it should be seen, but for a SET; DATETIMEs, YEARs and DECIMALs apart.
LEMMA MostCellsRead ==
    ASSUME NEW e, NEW c, NEW col, NEW v, ColumnOK(col), ValueOK(col, v), At(e, c, Pack(col, v)),
           col.type \notin {T.DATETIME, T.YEAR, T.NEWDECIMAL}
    PROVE  /\ CellOf(e, c, col).cur = After(c, Pack(col, v))
           /\ col.type # T.SET => CellOf(e, c, col).cell.value = v
<1>1. CASE col.type \in Fixed \ {T.INT24}
  <2>1. Pack(col, v) = v
    BY <1>1, PackForms
  <2>2. Len(v) = Width(col.type)
    BY <1>1, Zenon DEF ValueOK, IsNumber
  <2>3. Reads(FixedCell(e, c, col.type), After(c, v), v)
    BY <1>1, <2>1, <2>2, FixedRead
  <2>4. CellOf(e, c, col) = FixedCell(e, c, col.type)
    BY <1>1, CellOfForms
  <2> QED BY <2>1, <2>3, <2>4 DEF Reads
<1>2. CASE col.type = T.INT24
  <2>1. Pack(col, v) = Lowest(v, 3)
    BY <1>2, PackForms
  <2>2. v \in Octets /\ Len(v) = 4 /\ v[4] = (IF v[3] >= 128 THEN 255 ELSE 0)
    BY <1>2, Zenon DEF ValueOK, IsNumber, IsBytes, Octets
  <2>3. Reads(FixedCell(e, c, T.INT24), After(c, Lowest(v, 3)), v)
    BY <2>1, <2>2, MediumRead
  <2>4. CellOf(e, c, col) = FixedCell(e, c, T.INT24)
    <3>1. col.type \in Fixed
      BY <1>2 DEF Fixed
    <3> QED BY <1>2, <3>1, CellOfForms
  <2> QED BY <2>1, <2>3, <2>4 DEF Reads
<1>3. CASE col.type = T.TIME
  <2> DEFINE w == Hundreds(v[1], v[2], v[3])
             b == Pack(col, v)
  <2>1. b = LittleBytes(w, 3)
    BY <1>3, PackForms
  <2>2. IsTime(v)
    BY <1>3, Zenon DEF ValueOK, IsDate
  <2>3. w = Hundreds(v[1], v[2], v[3])
    OBVIOUS
  <2>4. At(e, c, b) /\ col.type \in Dates
    BY <1>3 DEF Dates
  <2>5. CellOf(e, c, col) = DateCell(e, c, col.type)
    BY <2>4, CellOfForms
  <2> HIDE DEF w, b
  <2>6. w \in Nat /\ Fits(w, 3) /\ Fields(w) = v
    BY <2>2, <2>3, TimeValue, Zenon
  <2>7. Reads(DateCell(e, c, col.type), After(c, b), Fields(w))
    BY <1>3, <2>1, <2>4, <2>6, TimeRead
  <2> QED BY <2>5, <2>6, <2>7, Zenon DEF Reads, b
<1>4. CASE col.type = T.DATE
  <2> DEFINE w == DayBits(v[1], v[2], v[3])
             b == Pack(col, v)
  <2>1. b = LittleBytes(w, 3)
    BY <1>4, PackForms
  <2>2. IsDay(v)
    BY <1>4, Zenon DEF ValueOK, IsDate
  <2>3. w = DayBits(v[1], v[2], v[3])
    OBVIOUS
  <2>4. At(e, c, b) /\ col.type \in Dates
    BY <1>4 DEF Dates
  <2>5. CellOf(e, c, col) = DateCell(e, c, col.type)
    BY <2>4, CellOfForms
  <2> HIDE DEF w, b
  <2>6. w \in Nat /\ Fits(w, 3) /\ DayParts(w) = v
    BY <2>2, <2>3, DateValue, Zenon
  <2>7. Reads(DateCell(e, c, col.type), After(c, b), DayParts(w))
    BY <1>4, <2>1, <2>4, <2>6, DateRead
  <2> QED BY <2>5, <2>6, <2>7, Zenon DEF Reads, b
<1>5. CASE col.type = T.ENUM
  <2>1. Pack(col, v) = Lowest(v, col.len)
    BY <1>5, PackForms
  <2>2. v \in Octets /\ Len(v) = 4 /\ \A i \in col.len + 1 .. 4 : v[i] = 0
    BY <1>5, Zenon DEF ValueOK, IsBits, IsBytes, Octets
  <2> DEFINE meta == 256 * col.type + col.len
  <2>3. col.len \in {1, 2} /\ meta % 256 = col.len
    <3>1. col.type = 247 /\ col.len \in 1 .. 2
      BY <1>5, ColumnLens, TypesAre
    <3> QED BY <3>1
  <2>4. CellOf(e, c, col) = EnumCell(e, c, meta)
    BY <1>5, CellOfForms
  <2> HIDE DEF meta
  <2>5. Reads(EnumCell(e, c, meta), After(c, Lowest(v, col.len)), v)
    BY <2>1, <2>2, <2>3, EnumRead
  <2> QED BY <2>1, <2>4, <2>5 DEF Reads
<1>6. CASE col.type = T.SET
  <2>0. Len(v) = col.len
    BY <1>6, Zenon DEF ValueOK, IsBits
  <2>1. Pack(col, v) = v /\ Len(v) = col.len
    BY <1>6, <2>0, PackForms
  <2> DEFINE meta == 256 * col.type + col.len
  <2>2. meta % 256 = col.len
    <3>1. col.type = 248 /\ col.len \in 1 .. 8
      BY <1>6, ColumnLens, TypesAre
    <3> QED BY <3>1
  <2>3. CellOf(e, c, col) = SetCell(e, c, meta)
    BY <1>6, CellOfForms
  <2> HIDE DEF meta
  <2> QED BY <1>6, <2>1, <2>2, <2>3, SetRead
<1>7. CASE col.type = T.BIT
  <2>0. Len(v) = (col.len + 7) \div 8
    BY <1>7, Zenon DEF ValueOK, IsBits
  <2>1. Pack(col, v) = v /\ Len(v) = (col.len + 7) \div 8
    BY <1>7, <2>0, PackForms
  <2> DEFINE meta == 256 * (col.len \div 8) + (col.len % 8)
  <2>2. BitBytes(meta) = (col.len + 7) \div 8
    BY <1>7, ColumnLens, BitWidth
  <2>3. CellOf(e, c, col) = BitCell(e, c, meta)
    BY <1>7, CellOfForms
  <2> HIDE DEF meta
  <2>4. Reads(BitCell(e, c, meta), After(c, v), v)
    BY <2>1, <2>2, BitCellRead
  <2> QED BY <2>1, <2>3, <2>4 DEF Reads
<1>8. CASE col.type = T.BLOB
  <2>1. Pack(col, v) = Join(LittleBytes(Len(v), col.len), v)
    BY <1>8, PackForms
  <2>a. v \in Octets /\ Len(v) <= BlobLimit(col.len)
    BY <1>8, Zenon DEF ValueOK, IsString, IsBytes, Octets
  <2>2. v \in Octets /\ Len(v) <= BlobLimit(col.len) /\ col.len \in 1 .. 4
    BY <1>8, <2>a, ColumnLens
  <2>3. Fits(Len(v), col.len) /\ col.len \in {1, 2, 3, 4}
    BY <2>2, FitsBefore, OctetsAre
  <2>4. CellOf(e, c, col) = Prefixed(e, c, col.len, T.BLOB, "BINARY")
    <3>1. CellOf(e, c, col) = BlobCell(e, c, col.len)
      BY <1>8, CellOfForms
    <3>2. BlobCell(e, c, col.len) = Prefixed(e, c, col.len, T.BLOB, "BINARY")
      BY <2>2 DEF BlobCell
    <3> QED BY <3>1, <3>2
  <2>5. Reads(Prefixed(e, c, col.len, T.BLOB, "BINARY"), After(c, Pack(col, v)), v)
    BY <2>1, <2>2, <2>3, PrefixedRead
  <2> QED BY <2>4, <2>5 DEF Reads
<1>9. CASE col.type \in {T.VARCHAR, T.STRING}
  <2> DEFINE n == IF col.len > 255 THEN 2 ELSE 1
  <2>1. Pack(col, v) = Join(LittleBytes(Len(v), n), v)
    BY <1>9, PackForms
  <2>2. v \in Octets /\ Len(v) <= col.len /\ col.len \in Nat /\ col.len <= LongestVarchar
    <3>1. col.len \in 0 .. LongestVarchar \/ col.len \in 0 .. LongestString
      BY <1>9, ColumnLens
    <3>a. LongestString \in Nat /\ LongestVarchar \in Nat /\ LongestString <= LongestVarchar
      BY DEF LongestString, LongestVarchar
    <3>2. col.len \in Nat /\ col.len <= LongestVarchar
      BY <3>1, <3>a
    <3>3. v \in Octets /\ Len(v) <= col.len
      BY <1>9, Zenon DEF ValueOK, IsString, IsBytes, Octets
    <3> QED BY <3>2, <3>3
  <2>3. Len(v) \in Nat
    BY <2>2, OctetsAre
  <2>4. Fits(Len(v), n) /\ n \in {1, 2, 3, 4} /\ LenBytes(col.len) = n
    <3>1. CASE col.len > 255
      <4>1. n = 2 /\ ~(col.len < 256) /\ Len(v) <= LongestVarchar
        BY <2>2, <2>3, <3>1, SMT DEF LongestVarchar
      <4> QED BY <2>3, <4>1, FitsBefore DEF LenBytes
    <3>2. CASE ~(col.len > 255)
      <4>1. n = 1 /\ col.len < 256 /\ Len(v) <= 255
        BY <2>2, <2>3, <3>2
      <4> QED BY <2>3, <4>1, FitsBefore DEF LenBytes
    <3> QED BY <3>1, <3>2
  <2> HIDE DEF n
  <2>5. ASSUME NEW mtype, CellOf(e, c, col) = Prefixed(e, c, n, mtype, "STRING")
        PROVE  Reads(CellOf(e, c, col), After(c, Pack(col, v)), v)
    BY <2>1, <2>2, <2>4, <2>5, PrefixedRead
  <2>6. \/ CellOf(e, c, col) = Prefixed(e, c, n, T.VARCHAR, "STRING")
        \/ CellOf(e, c, col) = Prefixed(e, c, n, T.STRING, "STRING")
    <3>1. CASE col.type = T.VARCHAR
      <4>1. CellOf(e, c, col) = VarcharCell(e, c, col.len)
        BY <3>1, CellOfForms
      <4> QED BY <2>4, <4>1, Zenon DEF VarcharCell
    <3>2. CASE col.type = T.STRING
      <4>1. CellOf(e, c, col) = StringCell(e, c, col.len)
        BY <3>2, CellOfForms
      <4> QED BY <2>4, <4>1, Zenon DEF StringCell
    <3> QED BY <1>9, <3>1, <3>2
  <2>7. Reads(CellOf(e, c, col), After(c, Pack(col, v)), v)
    BY <2>5, <2>6
  <2> QED BY <2>7 DEF Reads
<1> QED
  <2>1. col.type \in Fixed \union (Dates \ {T.NEWDATE})
                  \union {T.ENUM, T.SET, T.VARCHAR, T.STRING, T.BLOB, T.BIT, T.NEWDECIMAL}
    BY Zenon DEF ColumnOK
  <2>2. \/ col.type \in Fixed \ {T.INT24} \/ col.type = T.INT24 \/ col.type = T.TIME
        \/ col.type = T.DATE \/ col.type = T.ENUM \/ col.type = T.SET
        \/ col.type = T.BIT \/ col.type = T.BLOB \/ col.type \in {T.VARCHAR, T.STRING}
    BY <2>1 DEF Dates
  <2> QED BY <1>1, <1>2, <1>3, <1>4, <1>5, <1>6, <1>7, <1>8, <1>9, <2>2

-----------------------------------------------------------------------------
(* DATETIME: a product divided again. *)

\* What is carried from byte to byte, and the bytes of a product.
Carried(carry, b, n, m, c) ==
    /\ carry \in [0 .. n -> Nat]
    /\ carry[0] = c /\ \A i \in 1 .. n : carry[i] = (b[i] * m + carry[i - 1]) \div 256
MulBytes(carry, b, n, m) == [i \in 1 .. n |-> (b[i] * m + carry[i - 1]) % 256]

\* A product, byte by byte.
LEMMA MulAddSteps ==
    ASSUME NEW v \in Nat, NEW n \in Nat, NEW m \in Nat, NEW c \in Nat
    PROVE  \E carry : /\ Carried(carry, LittleBytes(v, n), n, m, c)
                      /\ MulAdd(v, n, m, c) = MulBytes(carry, LittleBytes(v, n), n, m)
<1> DEFINE b == LittleBytes(v, n)
           F(f) == [i \in 0 .. n |-> IF i = 0 THEN c ELSE (b[i] * m + f[i - 1]) \div 256]
           carry == CHOOSE f : f = F(f)
           G == [p \in (1 .. n) \X Nat |-> (b[p[1]] * m + p[2]) \div 256]
           Nats == {i \in 0 .. n : carry[i] \in Nat}
<1>1. MulAdd(v, n, m, c) = MulBytes(carry, b, n, m)
  BY DEF MulAdd, MulBytes
<1>a. \A i \in 1 .. n : b[i] \in Nat
  <2>1. b \in Octets /\ Len(b) = n
    BY LittleBytesAre
  <2> HIDE DEF b
  <2>2. \A i \in 1 .. Len(b) : b[i] \in 0 .. 255
    BY <2>1, OctetsAre
  <2>3. \A i \in 1 .. n : b[i] \in 0 .. 255
    BY <2>1, <2>2, Zenon
  <2> QED BY <2>3
<1> HIDE DEF b
<1>b. \A i \in 1 .. n : \A w \in Nat : (b[i] * m + w) \div 256 \in Nat
  <2> TAKE i \in 1 .. n
  <2> TAKE w \in Nat
  <2>1. b[i] * m \in Nat
    BY <1>a
  <2>2. \A u \in Nat : (u + w) \div 256 \in Nat
    OBVIOUS
  <2> QED BY <2>1, <2>2
<1>2. G \in [(1 .. n) \X Nat -> Nat]
  <2>1. \A p \in (1 .. n) \X Nat : p[1] \in 1 .. n /\ p[2] \in Nat
    OBVIOUS
  <2> QED BY <1>b, <2>1
<1>3. \E f : f = F(f)
  <2>1. PICK f \in [0 .. n -> Nat] : f[0] = c /\ \A i \in 1 .. n : f[i] = G[<<i, f[i - 1]>>]
    <3> HIDE DEF G, F, carry, Nats
    <3> QED BY <1>2, StepsDefine
  <2>2. ASSUME NEW i \in 1 .. n PROVE f[i] = (b[i] * m + f[i - 1]) \div 256
    <3>1. i - 1 \in 0 .. n /\ <<i, f[i - 1]>> \in (1 .. n) \X Nat
      BY <2>1
    <3>2. G[<<i, f[i - 1]>>] = (b[i] * m + f[i - 1]) \div 256
      BY <3>1
    <3> QED BY <2>1, <3>2
  <2>3. \A i \in 0 .. n : f[i] = IF i = 0 THEN c ELSE (b[i] * m + f[i - 1]) \div 256
    BY <2>1, <2>2
  <2>4. f = F(f)
    BY <2>1, <2>3
  <2> QED BY <2>4
<1>4. carry = F(carry)
  <2> HIDE DEF F
  <2> QED BY <1>3
<1> HIDE DEF carry
<1>5. carry[0] = c /\ \A i \in 1 .. n : carry[i] = (b[i] * m + carry[i - 1]) \div 256
  BY <1>4
<1>6. Nats = 0 .. n
  <2>1. 0 \in Nats
    BY <1>5
  <2>2. ASSUME NEW i \in 1 .. n, i - 1 \in Nats PROVE i \in Nats
    <3>1. carry[i - 1] \in Nat
      BY <2>2
    <3> QED BY <1>b, <1>5, <3>1
  <2>3. Nats \in SUBSET (0 .. n)
    OBVIOUS
  <2> HIDE DEF Nats
  <2> QED BY <2>1, <2>2, <2>3, Upwards
<1>7. carry \in [0 .. n -> Nat]
  <2>1. \A i \in 0 .. n : carry[i] \in Nat
    BY <1>6
  <2> QED BY <1>4, <2>1
<1>8. Carried(carry, b, n, m, c)
  BY <1>5, <1>7 DEF Carried
<1> QED BY <1>1, <1>8 DEF b

\* One byte times the factor, and what is carried.
Product(b, low) == b * DateTime + low

\* One byte divided out: what was carried is the rest.
LEMMA DividedOut ==
    ASSUME NEW b, NEW low, NEW v, v = Product(b, low), b \in 0 .. 255, low \in Nat, low < DateTime
    PROVE  /\ v \in Nat /\ v \div 256 \in Nat /\ v \div 256 < DateTime /\ v % 256 \in 0 .. 255
           /\ 256 * (v \div 256) + (v % 256) = v
           /\ v \div DateTime = b /\ v % DateTime = low
  BY SMT DEF DateTime, Product

\* A number of four bytes, byte by byte: nothing is left of it behind the fourth.
LEMMA ShortNumber ==
    ASSUME NEW v \in Nat, v < FourBytes, NEW high, Shifted(high, v, 8)
    PROVE  /\ high[8] = 0
           /\ \A i \in 5 .. 8 : high[i - 1] % 256 = 0
           /\ \A i \in 1 .. 8 : high[i - 1] = 256 * high[i] + (high[i - 1] % 256)
<1>1. /\ high \in [0 .. 8 -> Nat] /\ high[0] = v
      /\ \A i \in 1 .. 8 : high[i] = high[i - 1] \div 256
  BY DEF Shifted
<1>2. \A w \in Nat : w = 256 * (w \div 256) + (w % 256)
  OBVIOUS
<1>3. \A i \in 1 .. 8 : high[i - 1] = 256 * high[i] + (high[i - 1] % 256)
  <2> TAKE i \in 1 .. 8
  <2>1. high[i - 1] \in Nat
    BY <1>1
  <2> QED BY <1>1, <1>2, <2>1
<1>4. high[4] = 0
  <2>1. /\ high[1] = high[0] \div 256 /\ high[2] = high[1] \div 256
        /\ high[3] = high[2] \div 256 /\ high[4] = high[3] \div 256
    <3>1. 1 - 1 = 0 /\ 2 - 1 = 1 /\ 3 - 1 = 2 /\ 4 - 1 = 3
      OBVIOUS
    <3> QED BY <1>1, <3>1
  <2>2. \A x0, x1, x2, x3, x4 \in Nat :
          x0 < FourBytes /\ x1 = x0 \div 256 /\ x2 = x1 \div 256 /\ x3 = x2 \div 256
            /\ x4 = x3 \div 256 => x4 = 0
    BY SMT DEF FourBytes
  <2>3. high[0] \in Nat /\ high[1] \in Nat /\ high[2] \in Nat /\ high[3] \in Nat /\ high[4] \in Nat
    BY <1>1
  <2> QED BY <1>1, <2>1, <2>2, <2>3
<1>5. high[5] = 0 /\ high[6] = 0 /\ high[7] = 0 /\ high[8] = 0
  <2>1. 5 - 1 = 4 /\ 6 - 1 = 5 /\ 7 - 1 = 6 /\ 8 - 1 = 7 /\ 0 \div 256 = 0
    OBVIOUS
  <2> QED BY <1>1, <1>4, <2>1
<1>6. \A i \in 5 .. 8 : high[i - 1] = 0
  BY <1>4, <1>5
<1> QED BY <1>3, <1>5, <1>6

\* Induction over the bytes of a DATETIME.
LEMMA UpToEight ==
    ASSUME NEW S, S \in SUBSET (0 .. 8), 0 \in S, \A i \in 1 .. 8 : i - 1 \in S => i \in S
    PROVE  \A i \in 0 .. 8 : i \in S
<1>1. 8 \in Nat
  OBVIOUS
<1>2. S = 0 .. 8
  BY <1>1, Upwards
<1> QED BY <1>2

\* What is carried stays below the factor, and all of it is spent behind the
\* bytes of the number.
LEMMA CarriedAway ==
    ASSUME NEW b, NEW c, NEW carry, Carried(carry, b, 8, DateTime, c), c < DateTime,
           \A i \in 1 .. 8 : b[i] \in 0 .. 255, \A i \in 5 .. 8 : b[i] = 0
    PROVE  /\ \A i \in 0 .. 8 : carry[i] \in Nat /\ carry[i] < DateTime
           /\ carry[8] = 0
<1>1. /\ carry \in [0 .. 8 -> Nat] /\ carry[0] = c
      /\ \A i \in 1 .. 8 : carry[i] = (b[i] * DateTime + carry[i - 1]) \div 256
  BY DEF Carried
<1> DEFINE Small == {i \in 0 .. 8 : carry[i] < DateTime}
<1>2. 0 \in Small
  BY <1>1
<1>3. ASSUME NEW i \in 1 .. 8, i - 1 \in Small PROVE i \in Small
  <2> DEFINE v == b[i] * DateTime + carry[i - 1]
  <2>1. b[i] \in 0 .. 255 /\ carry[i - 1] \in Nat /\ carry[i - 1] < DateTime
    BY <1>1, <1>3
  <2>2. v \div 256 < DateTime
    <3>1. v = Product(b[i], carry[i - 1])
      BY DEF Product
    <3> HIDE DEF v
    <3> QED BY <2>1, <3>1, DividedOut
  <2> HIDE DEF v
  <2>3. carry[i] = v \div 256
    BY <1>1 DEF v
  <2> QED BY <2>2, <2>3
<1>4. Small = 0 .. 8
  <2>1. Small \in SUBSET (0 .. 8) /\ 8 \in Nat
    OBVIOUS
  <2>2. 0 \in Small /\ \A i \in 1 .. 8 : i - 1 \in Small => i \in Small
    BY <1>2, <1>3
  <2> HIDE DEF Small
  <2>3. \A i \in 0 .. 8 : i \in Small
    BY <2>1, <2>2, UpToEight, Zenon
  <2> QED BY <2>1, <2>3
<1>5. \A i \in 0 .. 8 : carry[i] \in Nat /\ carry[i] < DateTime
  BY <1>1, <1>4
<1>6. \A i \in 5 .. 8 : carry[i] = carry[i - 1] \div 256
  <2> TAKE i \in 5 .. 8
  <2>1. i \in 1 .. 8 /\ b[i] = 0 /\ carry[i - 1] \in Nat
    BY <1>1
  <2>2. DateTime \in Nat
    BY SMT DEF DateTime
  <2>3. 0 * DateTime + carry[i - 1] = carry[i - 1]
    BY <2>1, <2>2
  <2> QED BY <1>1, <2>1, <2>3
<1>7. \A x4, x5, x6, x7, x8 \in Nat :
        x4 < DateTime /\ x5 = x4 \div 256 /\ x6 = x5 \div 256 /\ x7 = x6 \div 256
          /\ x8 = x7 \div 256 => x8 = 0
  BY SMT DEF DateTime
<1>8. /\ carry[5] = carry[4] \div 256 /\ carry[6] = carry[5] \div 256
      /\ carry[7] = carry[6] \div 256 /\ carry[8] = carry[7] \div 256
  <2>1. 5 - 1 = 4 /\ 6 - 1 = 5 /\ 7 - 1 = 6 /\ 8 - 1 = 7
    OBVIOUS
  <2> QED BY <1>6, <2>1
<1>9. carry[4] \in Nat /\ carry[5] \in Nat /\ carry[6] \in Nat /\ carry[7] \in Nat
      /\ carry[8] \in Nat /\ carry[4] < DateTime
  BY <1>5
<1>10. carry[8] = 0
  BY <1>7, <1>8, <1>9
<1> QED BY <1>5, <1>10

\* value2Cell's division finds the two numbers in a DATETIME.
LEMMA DivModRead ==
    ASSUME NEW v \in Nat, v < FourBytes, NEW c \in Nat, c < DateTime
    PROVE  DivMod(MulAdd(v, 8, DateTime, c), DateTime) = [div |-> v, mod |-> c]
<1> DEFINE b == LittleBytes(v, 8)
           w == MulAdd(v, 8, DateTime, c)
<1>0. 8 \in Nat /\ DateTime \in Nat
  BY SMT DEF DateTime
<1>1. PICK high : Shifted(high, v, 8) /\ b = LowBytes(high, 8)
  BY <1>0, LittleSteps
<1>2. PICK carry : Carried(carry, b, 8, DateTime, c) /\ w = MulBytes(carry, b, 8, DateTime)
  BY <1>0, MulAddSteps
<1>3. \A i \in 1 .. 8 : b[i] = high[i - 1] % 256 /\ b[i] \in 0 .. 255
  <2>1. b \in Octets /\ Len(b) = 8
    BY <1>0, LittleBytesAre
  <2> HIDE DEF b
  <2>2. \A i \in 1 .. 8 : b[i] \in 0 .. 255
    BY <2>1, OctetsAre
  <2>3. \A i \in 1 .. 8 : b[i] = high[i - 1] % 256
    BY <1>1 DEF LowBytes
  <2> QED BY <2>2, <2>3
<1> HIDE DEF b
<1>4. /\ high[8] = 0 /\ \A i \in 5 .. 8 : high[i - 1] % 256 = 0
      /\ \A i \in 1 .. 8 : high[i - 1] = 256 * high[i] + (high[i - 1] % 256)
  BY <1>1, ShortNumber
<1>5. /\ \A i \in 0 .. 8 : carry[i] \in Nat /\ carry[i] < DateTime
      /\ carry[8] = 0
  <2>1. \A i \in 5 .. 8 : b[i] = 0
    BY <1>3, <1>4
  <2>2. \A i \in 1 .. 8 : b[i] \in 0 .. 255
    BY <1>3
  <2> QED BY <1>2, <2>1, <2>2, CarriedAway
<1> HIDE DEF w
<1>6. Len(w) = 8
  BY <1>2 DEF MulBytes
<1> DEFINE Linked(i) == /\ high[i - 1] = 256 * high[i] + ((256 * carry[i] + w[i]) \div DateTime)
                        /\ carry[i - 1] = (256 * carry[i] + w[i]) % DateTime
<1>7. ASSUME NEW i \in 1 .. 8 PROVE Linked(i)
  <2> DEFINE p == b[i] * DateTime + carry[i - 1]
  <2>1. b[i] \in 0 .. 255 /\ carry[i - 1] \in Nat /\ carry[i - 1] < DateTime
    BY <1>3, <1>5
  <2>2. 256 * (p \div 256) + (p % 256) = p /\ p \div DateTime = b[i] /\ p % DateTime = carry[i - 1]
    <3>1. p = Product(b[i], carry[i - 1])
      BY DEF Product
    <3> HIDE DEF p
    <3> QED BY <2>1, <3>1, DividedOut
  <2>3. carry[i] = p \div 256
    BY <1>2 DEF Carried
  <2>4. w[i] = p % 256
    BY <1>2 DEF MulBytes
  <2>5. high[i - 1] = 256 * high[i] + b[i]
    BY <1>3, <1>4
  <2> HIDE DEF p
  <2>6. 256 * carry[i] + w[i] = p
    BY <2>2, <2>3, <2>4
  <2> QED BY <2>2, <2>5, <2>6
<1> HIDE DEF Linked
<1> DEFINE F(part) ==
             [i \in 1 .. Len(w) + 1 |->
                IF i > Len(w) THEN [div |-> 0, mod |-> 0]
                ELSE [div |-> 256 * part[i + 1].div + ((256 * part[i + 1].mod + w[i]) \div DateTime),
                      mod |-> (256 * part[i + 1].mod + w[i]) % DateTime]]
           X == [i \in 1 .. Len(w) + 1 |-> [div |-> high[i - 1], mod |-> carry[i - 1]]]
           part == CHOOSE f : f = F(f)
<1>8. DivMod(w, DateTime) = part[1]
  BY Zenon DEF DivMod
<1>9. X = F(X)
  <2>1. ASSUME NEW i \in 1 .. Len(w) + 1
        PROVE  X[i] = IF i > Len(w) THEN [div |-> 0, mod |-> 0]
                      ELSE [div |-> 256 * X[i + 1].div + ((256 * X[i + 1].mod + w[i]) \div DateTime),
                            mod |-> (256 * X[i + 1].mod + w[i]) % DateTime]
    <3>1. CASE i > Len(w)
      <4>1. i - 1 = 8
        BY <1>6, <3>1
      <4> QED BY <1>4, <1>5, <3>1, <4>1, ZenonT(60)
    <3>2. CASE ~(i > Len(w))
      <4>1. i \in 1 .. 8 /\ i + 1 \in 1 .. Len(w) + 1 /\ i + 1 - 1 = i
        BY <1>6, <3>2
      <4>2. X[i + 1].div = high[i] /\ X[i + 1].mod = carry[i]
        BY <4>1
      <4>3. X[i] = [div |-> high[i - 1], mod |-> carry[i - 1]]
        OBVIOUS
      <4>4. Linked(i)
        BY <1>7, <4>1
      <4> HIDE DEF X
      <4> QED BY <3>2, <4>2, <4>3, <4>4, ZenonT(60) DEF Linked
    <3> QED BY <3>1, <3>2
  <2>2. X = [i \in 1 .. Len(w) + 1 |-> X[i]]
    OBVIOUS
  <2> HIDE DEF X
  <2> QED BY <2>1, <2>2, ZenonT(60)
<1>10. part = F(part)
  <2> HIDE DEF F, X
  <2> QED BY <1>9
<1> HIDE DEF part
<1> DEFINE Same == {j \in 0 .. 8 : part[9 - j] = [div |-> high[8 - j], mod |-> carry[8 - j]]}
<1>11. 0 \in Same
  <2>1. 9 - 0 = 9 /\ 8 - 0 = 8 /\ 9 \in 1 .. Len(w) + 1 /\ 9 > Len(w)
    BY <1>6
  <2>2. part[9] = [div |-> 0, mod |-> 0]
    BY <1>10, <2>1
  <2>3. part[9 - 0] = [div |-> high[8 - 0], mod |-> carry[8 - 0]]
    BY <1>4, <1>5, <2>1, <2>2, Zenon
  <2>4. 0 \in 0 .. 8
    OBVIOUS
  <2> QED BY <2>3, <2>4
<1>12. ASSUME NEW j \in 1 .. 8, j - 1 \in Same PROVE j \in Same
  <2> DEFINE i == 9 - j
  <2>1. i \in 1 .. 8 /\ i \in 1 .. Len(w) + 1 /\ ~(i > Len(w)) /\ 9 - (j - 1) = i + 1
        /\ 8 - (j - 1) = i /\ 8 - j = i - 1 /\ j \in 0 .. 8
    BY <1>6
  <2>2. part[i + 1] = [div |-> high[i], mod |-> carry[i]]
    BY <1>12, <2>1
  <2> HIDE DEF i
  <2>3. part[i] = [div |-> 256 * part[i + 1].div + ((256 * part[i + 1].mod + w[i]) \div DateTime),
                   mod |-> (256 * part[i + 1].mod + w[i]) % DateTime]
    BY <1>10, <2>1, ZenonT(60)
  <2>4. part[i + 1].div = high[i] /\ part[i + 1].mod = carry[i]
    BY <2>2
  <2>5. Linked(i)
    BY <1>7, <2>1
  <2>6. part[i] = [div |-> 256 * high[i] + ((256 * carry[i] + w[i]) \div DateTime),
                   mod |-> (256 * carry[i] + w[i]) % DateTime]
    BY <2>3, <2>4
  <2>7. part[i] = [div |-> high[i - 1], mod |-> carry[i - 1]]
    BY <2>5, <2>6 DEF Linked
  <2> QED BY <2>1, <2>7 DEF i
<1>13. 8 \in Same
  <2>1. Same \in SUBSET (0 .. 8)
    OBVIOUS
  <2> HIDE DEF Same
  <2>2. Same = 0 .. 8
    BY <1>0, <1>11, <1>12, <2>1, Upwards
  <2> QED BY <2>2
<1>14. part[1] = [div |-> high[0], mod |-> carry[0]]
  <2>1. 9 - 8 = 1 /\ 8 - 8 = 0
    OBVIOUS
  <2> QED BY <1>13, <2>1
<1>15. high[0] = v /\ carry[0] = c
  BY <1>1, <1>2 DEF Shifted, Carried
<1>16. DivMod(w, DateTime) = [div |-> v, mod |-> c]
  BY <1>8, <1>14, <1>15, Zenon
<1> QED BY <1>16 DEF w

\* The bytes of a product.
LEMMA MulAddAre ==
    ASSUME NEW v \in Nat, NEW n \in Nat, NEW m \in Nat, NEW c \in Nat
    PROVE  MulAdd(v, n, m, c) \in Octets /\ Len(MulAdd(v, n, m, c)) = n
<1> DEFINE b == LittleBytes(v, n)
<1>1. PICK carry : Carried(carry, b, n, m, c) /\ MulAdd(v, n, m, c) = MulBytes(carry, b, n, m)
  BY MulAddSteps
<1>2. b \in Octets /\ Len(b) = n
  BY LittleBytesAre
<1> HIDE DEF b
<1>3. ASSUME NEW i \in 1 .. n PROVE (b[i] * m + carry[i - 1]) % 256 \in 0 .. 255
  <2>1. carry[i - 1] \in Nat
    BY <1>1 DEF Carried
  <2>2. b[i] \in Nat
    <3>1. \A k \in 1 .. Len(b) : b[k] \in 0 .. 255
      BY <1>2, OctetsAre
    <3>2. b[i] \in 0 .. 255
      BY <1>2, <3>1, Zenon
    <3> QED BY <3>2
  <2>3. b[i] * m \in Nat
    BY <2>2
  <2>4. \A u, w \in Nat : (u + w) % 256 \in 0 .. 255
    OBVIOUS
  <2> QED BY <2>1, <2>3, <2>4
<1>4. MulBytes(carry, b, n, m) \in Seq(0 .. 255) /\ Len(MulBytes(carry, b, n, m)) = n
  BY <1>3 DEF MulBytes
<1> QED BY <1>1, <1>4 DEF Octets

\* A DATETIME takes eight bytes.
LEMMA MomentBytes ==
    ASSUME NEW d, NEW t, NEW b, b = MulAdd(d, 8, DateTime, t), d \in Nat, t \in Nat
    PROVE  b \in Octets /\ Len(b) = 8
<1> DEFINE n == 8
<1>1. n \in Nat /\ DateTime \in Nat
  BY SMT DEF DateTime
<1>2. b = MulAdd(d, n, DateTime, t) /\ n = 8
  OBVIOUS
<1> HIDE DEF n
<1>3. MulAdd(d, n, DateTime, t) \in Octets
  BY <1>1, MulAddAre
<1>4. Len(MulAdd(d, n, DateTime, t)) = n
  BY <1>1, MulAddAre
<1> QED BY <1>2, <1>3, <1>4

\* Two texts one behind the other.
LEMMA SixFields ==
    ASSUME NEW a \in Nat, NEW b \in Nat, NEW c \in Nat, NEW d \in Nat, NEW f \in Nat, NEW g \in Nat
    PROVE  <<a, b, c>> \o <<d, f, g>> = <<a, b, c, d, f, g>>
<1> DEFINE s == <<a, b, c>>
           t == <<d, f, g>>
           u == <<a, b, c, d, f, g>>
<1>1. /\ s \in Seq(Nat) /\ Len(s) = 3 /\ s[1] = a /\ s[2] = b /\ s[3] = c
      /\ t \in Seq(Nat) /\ Len(t) = 3 /\ t[1] = d /\ t[2] = f /\ t[3] = g
      /\ u \in Seq(Nat) /\ Len(u) = 6 /\ u[1] = a /\ u[2] = b /\ u[3] = c
      /\ u[4] = d /\ u[5] = f /\ u[6] = g
  OBVIOUS
<1> HIDE DEF s, t, u
<1>2. /\ s \o t \in Seq(Nat) /\ Len(s \o t) = Len(s) + Len(t)
      /\ \A i \in 1 .. Len(s) + Len(t) : (s \o t)[i] = IF i <= Len(s) THEN s[i] ELSE t[i - Len(s)]
  BY <1>1, ConcatProperties
<1>3. ASSUME NEW i \in 1 .. 6 PROVE (s \o t)[i] = u[i]
  <2>1. i \in {1, 2, 3, 4, 5, 6} /\ i \in 1 .. Len(s) + Len(t)
    BY <1>1
  <2>2. (s \o t)[i] = IF i <= Len(s) THEN s[i] ELSE t[i - Len(s)]
    BY <1>2, <2>1
  <2>3. 4 - 3 = 1 /\ 5 - 3 = 2 /\ 6 - 3 = 3
    OBVIOUS
  <2> QED BY <1>1, <2>1, <2>2, <2>3
<1> DEFINE w == s \o t
<1>4. w \in Seq(Nat) /\ Len(w) = 6 /\ \A i \in 1 .. 6 : w[i] = u[i]
  BY <1>1, <1>2, <1>3
<1> HIDE DEF w
<1>5. Len(w) = Len(u) /\ \A i \in 1 .. Len(w) : w[i] = u[i]
  BY <1>1, <1>4
<1>6. w = u
  BY <1>1, <1>4, <1>5, SeqEqual
<1> QED BY <1>6 DEF s, t, u, w

\* The two numbers of a DATETIME.
LEMMA MomentNumbers ==
    ASSUME NEW v, IsMoment(v)
    PROVE  /\ Hundreds(v[1], v[2], v[3]) \in Nat /\ Hundreds(v[1], v[2], v[3]) < FourBytes
           /\ Hundreds(v[4], v[5], v[6]) \in Nat /\ Hundreds(v[4], v[5], v[6]) < DateTime
           /\ Fields(Hundreds(v[1], v[2], v[3])) \o Fields(Hundreds(v[4], v[5], v[6])) = v
<1> DEFINE a == v[1]
           b == v[2]
           c == v[3]
           d == v[4]
           f == v[5]
           g == v[6]
<1>1. /\ a \in 0 .. LastYear /\ b \in 0 .. 12 /\ c \in 0 .. 31
      /\ d \in 0 .. 23 /\ f \in 0 .. 59 /\ g \in 0 .. 59
      /\ v = <<a, b, c, d, f, g>>
  BY DEF IsMoment
<1> HIDE DEF a, b, c, d, f, g
<1>2. a \in Nat /\ a < 10000
  <2>1. LastYear \in Nat /\ LastYear < 10000
    BY DEF LastYear
  <2> QED BY <1>1, <2>1
<1>3. /\ b \in 0 .. 99 /\ c \in 0 .. 99 /\ d \in Nat /\ f \in 0 .. 99 /\ g \in 0 .. 99
  BY <1>1
<1>4. Hundreds(a, b, c) \in Nat /\ Fields(Hundreds(a, b, c)) = <<a, b, c>>
  <2>1. a \in Nat /\ b \in 0 .. 99 /\ c \in 0 .. 99
    BY <1>2, <1>3
  <2> QED BY <2>1, HundredsRead
<1>8. Hundreds(d, f, g) \in Nat /\ Fields(Hundreds(d, f, g)) = <<d, f, g>>
  <2>1. d \in Nat /\ f \in 0 .. 99 /\ g \in 0 .. 99
    BY <1>3
  <2> QED BY <2>1, HundredsRead
<1>5. Hundreds(a, b, c) < FourBytes
  BY <1>2, <1>3, SMT DEF Hundreds, FourBytes
<1>6. Hundreds(d, f, g) < DateTime
  BY <1>1, SMT DEF Hundreds, DateTime
<1>7. <<a, b, c>> \o <<d, f, g>> = v
  <2>1. a \in Nat /\ b \in Nat /\ c \in Nat /\ d \in Nat /\ f \in Nat /\ g \in Nat
    BY <1>2, <1>3
  <2>2. <<a, b, c>> \o <<d, f, g>> = <<a, b, c, d, f, g>>
    BY <2>1, SixFields
  <2> QED BY <1>1, <2>2, Zenon
<1> QED BY <1>4, <1>8, <1>5, <1>6, <1>7 DEF a, b, c, d, f, g

\* value2Cell: a DATETIME.
LEMMA MomentRead ==
    ASSUME NEW e, NEW c, NEW type, NEW b, NEW v, NEW d, NEW t, type = T.DATETIME, At(e, c, b),
           b = MulAdd(d, 8, DateTime, t), d \in Nat, d < FourBytes, t \in Nat, t < DateTime,
           Fields(d) \o Fields(t) = v
    PROVE  Reads(DateCell(e, c, type), After(c, b), v)
<1>2. b \in Octets /\ Len(b) = 8
  BY MomentBytes
<1>3. Bytes(e, c, 8) = b
  <2>1. Bytes(e, c, Len(b)) = b
    BY BytesAt, Zenon
  <2> QED BY <1>2, <2>1, Zenon
<1>4. DivMod(b, DateTime) = [div |-> d, mod |-> t]
  BY DivModRead
<1>5. DivMod(b, DateTime).div = d /\ DivMod(b, DateTime).mod = t
  BY <1>4
<1>6. ReadAsDate(e, c, type, Fields(DivMod(Bytes(e, c, 8), DateTime).div)
                             \o Fields(DivMod(Bytes(e, c, 8), DateTime).mod), 8)
  BY DatetimeForm
<1>7. ReadAsDate(e, c, type, v, 8)
  BY <1>3, <1>5, <1>6, Zenon
<1> QED BY <1>2, <1>7, DateReads

\* The values of a column are not Null.
LEMMA ValueNotNull ==
    ASSUME NEW col, NEW v, ColumnOK(col), ValueOK(col, v)
    PROVE  v # Null
<1>1. ASSUME v \in Octets PROVE v # Null
  <2>1. \A i \in 1 .. Len(v) : v[i] \in 0 .. 255
    BY <1>1, OctetsAre
  <2>2. ASSUME v = Null PROVE FALSE
    <3>1. Len(v) = 1 /\ v[1] = -1
      BY <2>2 DEF Null
    <3>2. 1 \in 1 .. Len(v)
      BY <3>1
    <3>3. v[1] \in 0 .. 255
      BY <2>1, <3>2
    <3> QED BY <3>1, <3>3
  <2> QED BY <2>2
<1>2. ASSUME v[1] \in Nat PROVE v # Null
  <2>1. ASSUME v = Null PROVE FALSE
    <3>1. v[1] = -1
      BY <2>1 DEF Null
    <3> QED BY <1>2, <3>1
  <2> QED BY <2>1
<1>3. CASE col.type \in Fixed \ {T.INT24}
  BY <1>1, <1>3, Zenon DEF ValueOK, IsNumber, IsBytes, Octets
<1>4. CASE col.type = T.INT24
  BY <1>1, <1>4, Zenon DEF ValueOK, IsNumber, IsBytes, Octets
<1>5. CASE col.type = T.TIME
  <2>1. IsTime(v)
    BY <1>5, Zenon DEF ValueOK, IsDate
  <2> QED BY <1>2, <2>1 DEF IsTime
<1>6. CASE col.type = T.DATE
  <2>1. IsDay(v)
    BY <1>6, Zenon DEF ValueOK, IsDate
  <2>2. v[1] \in 0 .. LastYear
    BY <2>1 DEF IsDay
  <2> QED BY <1>2, <2>2
<1>7. CASE col.type = T.DATETIME
  <2>1. IsMoment(v)
    BY <1>7, Zenon DEF ValueOK, IsDate
  <2>2. v[1] \in 0 .. LastYear
    BY <2>1 DEF IsMoment
  <2> QED BY <1>2, <2>2
<1>8. CASE col.type = T.YEAR
  <2>1. IsYear(v)
    BY <1>8, Zenon DEF ValueOK, IsDate
  <2>2. PICK y \in {NoYear} \union 1901 .. 2155 : v = <<y>>
    BY <2>1 DEF IsYear
  <2>3. v[1] \in Nat
    BY <2>2 DEF NoYear
  <2> QED BY <1>2, <2>3
<1>9. CASE col.type \in {T.VARCHAR, T.STRING}
  BY <1>1, <1>9, Zenon DEF ValueOK, IsString, IsBytes, Octets
<1>10. CASE col.type = T.BLOB
  BY <1>1, <1>10, Zenon DEF ValueOK, IsString, IsBytes, Octets
<1>11. CASE col.type = T.BIT
  BY <1>1, <1>11, Zenon DEF ValueOK, IsBits, IsBytes, Octets
<1>12. CASE col.type = T.SET
  BY <1>1, <1>12, Zenon DEF ValueOK, IsBits, IsBytes, Octets
<1>13. CASE col.type = T.ENUM
  BY <1>1, <1>13, Zenon DEF ValueOK, IsBits, IsBytes, Octets
<1>14. CASE col.type = T.NEWDECIMAL
  <2>1. v \in {0, 1} \X Seq(0 .. 9) \X Seq(0 .. 9)
    BY <1>14, Zenon DEF ValueOK, IsDecimal
  <2>2. v[1] \in Nat
    BY <2>1
  <2> QED BY <1>2, <2>2
<1> QED
  <2>1. col.type \in Fixed \union (Dates \ {T.NEWDATE})
                  \union {T.ENUM, T.SET, T.VARCHAR, T.STRING, T.BLOB, T.BIT, T.NEWDECIMAL}
    BY Zenon DEF ColumnOK
  <2>2. \/ col.type \in Fixed \ {T.INT24} \/ col.type = T.INT24 \/ col.type = T.TIME
        \/ col.type = T.DATE \/ col.type = T.DATETIME \/ col.type = T.YEAR \/ col.type = T.ENUM
        \/ col.type = T.SET \/ col.type = T.BIT \/ col.type = T.BLOB
        \/ col.type \in {T.VARCHAR, T.STRING} \/ col.type = T.NEWDECIMAL
    BY <2>1 DEF Dates
  <2> QED BY <1>3, <1>4, <1>5, <1>6, <1>7, <1>8, <1>9, <1>10, <1>11, <1>12, <1>13, <1>14, <2>2

\* The bytes of a value are bytes.
LEMMA PackAre ==
    ASSUME NEW col, NEW v, ColumnOK(col), ValueOK(col, v)
    PROVE  Pack(col, v) \in Octets
<1> DEFINE p == Pack(col, v)
<1>1. CASE col.type \in Fixed \ {T.INT24}
  <2>1. p = v
    BY <1>1, PackForms
  <2>2. v \in Octets
    BY <1>1, Zenon DEF ValueOK, IsNumber, IsBytes, Octets
  <2> QED BY <2>1, <2>2
<1>2. CASE col.type = T.INT24
  <2>1. p = Lowest(v, 3)
    BY <1>2, PackForms
  <2>2. v \in Octets /\ Len(v) = 4
    BY <1>2, Zenon DEF ValueOK, IsNumber, IsBytes, Octets
  <2>3. 3 \in Nat /\ 3 <= Len(v)
    BY <2>2
  <2> QED BY <2>1, <2>2, <2>3, LowestAre
<1>3. CASE col.type = T.TIME
  <2>1. p = LittleBytes(Hundreds(v[1], v[2], v[3]), 3)
    BY <1>3, PackForms
  <2>2. IsTime(v)
    BY <1>3, Zenon DEF ValueOK, IsDate
  <2>3. Hundreds(v[1], v[2], v[3]) \in Nat /\ 3 \in Nat
    BY <2>2, TimeValue
  <2> QED BY <2>1, <2>3, LittleBytesAre
<1>4. CASE col.type = T.DATE
  <2>1. p = LittleBytes(DayBits(v[1], v[2], v[3]), 3)
    BY <1>4, PackForms
  <2>2. IsDay(v)
    BY <1>4, Zenon DEF ValueOK, IsDate
  <2>3. DayBits(v[1], v[2], v[3]) \in Nat /\ 3 \in Nat
    BY <2>2, DateValue
  <2> QED BY <2>1, <2>3, LittleBytesAre
<1>5. CASE col.type = T.DATETIME
  <2>1. p = MulAdd(Hundreds(v[1], v[2], v[3]), 8, DateTime, Hundreds(v[4], v[5], v[6]))
    BY <1>5, PackForms
  <2>2. IsMoment(v)
    BY <1>5, Zenon DEF ValueOK, IsDate
  <2>3. Hundreds(v[1], v[2], v[3]) \in Nat /\ Hundreds(v[4], v[5], v[6]) \in Nat
    BY <2>2, MomentNumbers
  <2> QED BY <2>1, <2>3, MomentBytes
<1>6. CASE col.type = T.YEAR
  <2>1. p = <<YearByte(v[1])>>
    BY <1>6, PackForms
  <2>2. IsYear(v)
    BY <1>6, Zenon DEF ValueOK, IsDate
  <2>3. YearByte(v[1]) \in 0 .. 255
    BY <2>2 DEF IsYear, NoYear, YearByte
  <2> QED BY <2>1, <2>3 DEF Octets
<1>7. CASE col.type \in {T.VARCHAR, T.STRING}
  <2> DEFINE n == IF col.len > 255 THEN 2 ELSE 1
  <2>1. p = Join(LittleBytes(Len(v), n), v)
    BY <1>7, PackForms
  <2>2. v \in Octets
    BY <1>7, Zenon DEF ValueOK, IsString, IsBytes, Octets
  <2>3. Len(v) \in Nat /\ n \in Nat
    BY <2>2, OctetsAre
  <2> HIDE DEF n
  <2>4. LittleBytes(Len(v), n) \in Octets
    BY <2>3, LittleBytesAre
  <2> QED BY <2>1, <2>2, <2>4, Joined
<1>8. CASE col.type = T.BLOB
  <2>1. p = Join(LittleBytes(Len(v), col.len), v)
    BY <1>8, PackForms
  <2>2. v \in Octets
    BY <1>8, Zenon DEF ValueOK, IsString, IsBytes, Octets
  <2>3. Len(v) \in Nat /\ col.len \in Nat
    BY <1>8, <2>2, OctetsAre, ColumnLens
  <2>4. LittleBytes(Len(v), col.len) \in Octets
    BY <2>3, LittleBytesAre
  <2> QED BY <2>1, <2>2, <2>4, Joined
<1>9. CASE col.type \in {T.BIT, T.SET}
  <2>1. p = v
    BY <1>9, PackForms
  <2>2. v \in Octets
    <3>1. CASE col.type = T.BIT
      BY <3>1, Zenon DEF ValueOK, IsBits, IsBytes, Octets
    <3>2. CASE col.type = T.SET
      BY <3>2, Zenon DEF ValueOK, IsBits, IsBytes, Octets
    <3> QED BY <1>9, <3>1, <3>2
  <2> QED BY <2>1, <2>2
<1>10. CASE col.type = T.ENUM
  <2>1. p = Lowest(v, col.len)
    BY <1>10, PackForms
  <2>2. v \in Octets /\ Len(v) = 4
    BY <1>10, Zenon DEF ValueOK, IsBits, IsBytes, Octets
  <2>3. col.len \in Nat /\ col.len <= Len(v)
    BY <1>10, <2>2, ColumnLens
  <2> QED BY <2>1, <2>2, <2>3, LowestAre
<1>11. CASE col.type = T.NEWDECIMAL
  BY <1>11, Zenon DEF ValueOK, IsDecimal, IsBytes, Octets
<1> QED
  <2>1. col.type \in Fixed \union (Dates \ {T.NEWDATE})
                  \union {T.ENUM, T.SET, T.VARCHAR, T.STRING, T.BLOB, T.BIT, T.NEWDECIMAL}
    BY Zenon DEF ColumnOK
  <2>2. \/ col.type \in Fixed \ {T.INT24} \/ col.type = T.INT24 \/ col.type = T.TIME
        \/ col.type = T.DATE \/ col.type = T.DATETIME \/ col.type = T.YEAR \/ col.type = T.ENUM
        \/ col.type \in {T.BIT, T.SET} \/ col.type = T.BLOB
        \/ col.type \in {T.VARCHAR, T.STRING} \/ col.type = T.NEWDECIMAL
    BY <2>1 DEF Dates
  <2> HIDE DEF p
  <2> QED BY <1>1, <1>2, <1>3, <1>4, <1>5, <1>6, <1>7, <1>8, <1>9, <1>10, <1>11, <2>2 DEF p

-----------------------------------------------------------------------------
(* DECIMALs, and every cell. *)

\* decimal_bin_size is a number.
LEMMA DecimalSize ==
    ASSUME NEW p \in Nat, NEW s \in Nat
    PROVE  Dec!decimal_bin_size(p, s) \in Int
<1> DEFINE Size(n) == (n \div 9) * Dec!SizeofDec1 + Dec!dig2bytes[n % 9]
<1>1. Dec!decimal_bin_size(p, s) = Size(p - s) + Size(s)
  BY Zenon DEF Dec!decimal_bin_size
<1>2. \A i \in 0 .. 9 : Dec!dig2bytes[i] \in Int
  BY DEF Dec!dig2bytes
<1>3. Dec!SizeofDec1 \in Int
  BY <1>2 DEF Dec!SizeofDec1
<1>4. \A n \in Int : Size(n) \in Int
  <2>1. \A n \in Int : n \div 9 \in Int /\ n % 9 \in 0 .. 9
    OBVIOUS
  <2>2. ASSUME NEW a \in Int, NEW b \in Int, NEW c \in Int PROVE a * b + c \in Int
    OBVIOUS
  <2> QED BY <1>2, <1>3, <2>1, <2>2
<1>5. Size(p - s) \in Int /\ Size(s) \in Int
  <2>1. p - s \in Int /\ s \in Int
    OBVIOUS
  <2> HIDE DEF Size
  <2> QED BY <1>4, <2>1
<1> HIDE DEF Size
<1> QED BY <1>1, <1>5

\* value2Cell: a DECIMAL is read in an event as it is read alone.
LEMMA DecimalPlaced ==
    ASSUME NEW e, NEW c, NEW col, NEW v, ColumnOK(col), ValueOK(col, v), At(e, c, Pack(col, v)),
           col.type = T.NEWDECIMAL, DecimalRead(col, v)
    PROVE  /\ CellOf(e, c, col).cur = After(c, Pack(col, v))
           /\ CellOf(e, c, col).cell.value = Shown(col, v)
<1> DEFINE p == Pack(col, v)
           size == Dec!decimal_bin_size(col.len \div 256, col.len % 256)
           R(b) == Dec!bin2decimal(b, 128, col.len \div 256, col.len % 256)
           Text(r) == Cell(T.NEWDECIMAL, "STRING", Dec!decimal2string(r.d, 512, 0, 0, 0).text)
<1>1. p \in Octets
  BY PackAre
<1>2. Len(p) \in Nat
  BY <1>1, OctetsAre
<1>3. CellOf(e, c, col) = NewdecimalCell(e, c, col.len \div 256, col.len % 256)
  BY CellOfForms
<1>4. value2Cell(p, 0, T.NEWDECIMAL, col.len) = NewdecimalCell(p, 0, col.len \div 256, col.len % 256)
  <2>1. FieldType(col) = T.NEWDECIMAL /\ DeclaredMeta(col) = col.len
    BY MetaForms
  <2>2. CellOf(p, 0, col) = NewdecimalCell(p, 0, col.len \div 256, col.len % 256)
    BY CellOfForms
  <2> QED BY <2>1, <2>2, Zenon DEF CellOf
<1>5. value2Cell(p, 0, T.NEWDECIMAL, col.len)
        = [cell |-> Cell(T.NEWDECIMAL, "STRING", Shown(col, v)), cur |-> Len(p)]
  BY Zenon DEF DecimalRead
<1>6. \A x, y : NewdecimalCell(x, y, col.len \div 256, col.len % 256)
        = IF R(Bytes(x, y, size)).error # "OK" THEN [cell |-> NoCell, cur |-> y]
          ELSE [cell |-> Text(R(Bytes(x, y, size))), cur |-> y + size]
  BY Zenon DEF NewdecimalCell, DecimalText
<1>0. size \in Int
  <2>1. col.len \in {256 * q + s : q \in 1 .. 65, s \in 0 .. 30}
    BY ColumnLens
  <2>2. PICK q \in 1 .. 65, s \in 0 .. 30 : col.len = 256 * q + s
    BY <2>1
  <2>3. col.len \in Nat
    BY <2>2
  <2>4. col.len \div 256 \in Nat /\ col.len % 256 \in Nat
    BY <2>3
  <2> QED BY <2>4, DecimalSize
<1> HIDE DEF p, size, R, Text
<1>7. R(Bytes(p, 0, size)).error = "OK"
  <2>1. SUFFICES ASSUME R(Bytes(p, 0, size)).error # "OK" PROVE FALSE
    OBVIOUS
  <2>2. value2Cell(p, 0, T.NEWDECIMAL, col.len) = [cell |-> NoCell, cur |-> 0]
    BY <1>4, <1>6, <2>1
  <2>3. NoCell = Cell(T.NEWDECIMAL, "STRING", Shown(col, v))
    BY <1>5, <2>2
  <2> QED BY <2>3, TypesAre DEF NoCell, Cell
<1>8. /\ Text(R(Bytes(p, 0, size))) = Cell(T.NEWDECIMAL, "STRING", Shown(col, v))
      /\ 0 + size = Len(p)
  <2>1. value2Cell(p, 0, T.NEWDECIMAL, col.len)
          = [cell |-> Text(R(Bytes(p, 0, size))), cur |-> 0 + size]
    BY <1>4, <1>6, <1>7
  <2> QED BY <1>5, <2>1
<1>9. size = Len(p)
  BY <1>0, <1>2, <1>8
<1>10. Bytes(e, c, size) = p /\ Bytes(p, 0, size) = p
  <2>1. At(e, c, p) /\ At(p, 0, p)
    <3>1. At(e, c, p)
      BY DEF p
    <3>2. At(p, 0, p)
      BY <1>1, <1>2, OctetsAre DEF At
    <3> QED BY <3>1, <3>2
  <2> QED BY <1>9, <2>1, BytesAt
<1>11. CellOf(e, c, col) = [cell |-> Cell(T.NEWDECIMAL, "STRING", Shown(col, v)), cur |-> c + size]
  <2>1. Text(R(p)) = Cell(T.NEWDECIMAL, "STRING", Shown(col, v)) /\ R(p).error = "OK"
    BY <1>7, <1>8, <1>10, Zenon
  <2>2. NewdecimalCell(e, c, col.len \div 256, col.len % 256)
        = IF R(Bytes(e, c, size)).error # "OK" THEN [cell |-> NoCell, cur |-> c]
          ELSE [cell |-> Text(R(Bytes(e, c, size))), cur |-> c + size]
    BY <1>6, Zenon
  <2>3. Bytes(e, c, size) = p
    BY <1>10
  <2> QED BY <1>3, <2>1, <2>2, <2>3, Zenon
<1> QED BY <1>9, <1>11 DEF Cell, After, p

\* value2Cell: behind the bytes of a value stands the cursor, and it is read as
\* it should be seen, but for a SET.
LEMMA CellRead ==
    ASSUME NEW e, NEW c, NEW col, NEW v, ColumnOK(col), ValueOK(col, v), At(e, c, Pack(col, v)),
           col.type = T.NEWDECIMAL => DecimalRead(col, v)
    PROVE  /\ CellOf(e, c, col).cur = After(c, Pack(col, v))
           /\ col.type # T.SET => CellOf(e, c, col).cell.value = Shown(col, v)
<1>1. v # Null
  BY ValueNotNull
<1>2. CASE col.type = T.NEWDECIMAL
  BY <1>2, DecimalPlaced
<1>3. /\ col.type \notin {T.NEWDECIMAL, T.YEAR} => Shown(col, v) = v
      /\ col.type = T.YEAR => Shown(col, v) = YearShown(v)
  BY <1>1, TypesAre DEF Shown
<1>4. CASE col.type = T.DATETIME
  <2> DEFINE d == Hundreds(v[1], v[2], v[3])
             t == Hundreds(v[4], v[5], v[6])
             b == Pack(col, v)
  <2>1. b = MulAdd(d, 8, DateTime, t)
    BY <1>4, PackForms
  <2>2. IsMoment(v)
    BY <1>4, Zenon DEF ValueOK, IsDate
  <2>3. d \in Nat /\ d < FourBytes /\ t \in Nat /\ t < DateTime /\ Fields(d) \o Fields(t) = v
    BY <2>2, MomentNumbers
  <2>4. At(e, c, b) /\ col.type \in Dates
    BY <1>4 DEF Dates
  <2>5. CellOf(e, c, col) = DateCell(e, c, col.type)
    BY <2>4, CellOfForms
  <2>6. col.type \notin {T.NEWDECIMAL, T.YEAR}
    BY <1>4, TypesAre
  <2> HIDE DEF d, t, b
  <2>7. Reads(DateCell(e, c, col.type), After(c, b), v)
    BY <1>4, <2>1, <2>3, <2>4, MomentRead
  <2> QED BY <1>3, <2>5, <2>6, <2>7, Zenon DEF Reads, b
<1>5. CASE col.type \notin {T.DATETIME, T.YEAR, T.NEWDECIMAL}
  BY <1>3, <1>5, MostCellsRead
<1>6. CASE col.type = T.YEAR
  BY <1>3, <1>6, YearCellRead
<1> QED BY <1>2, <1>4, <1>5, <1>6

-----------------------------------------------------------------------------
(* The metadata of a table map. *)

\* What decodeMetadata makes of the bytes of a field.
MetaAt(e, c, type) ==
    IF type \in OneByte THEN Byte(e, c)
    ELSE IF type \in LittleEndian THEN Byte(e, c) + 256 * Byte(e, c + 1)
    ELSE IF type \in HighFirst THEN 256 * Byte(e, c) + Byte(e, c + 1)
    ELSE 0

\* Bytes that stand for a number of a field's metadata.
MetaIs(b, type, meta) ==
    \/ type \in OneByte /\ meta \in 0 .. 255 /\ b = <<meta>>
    \/ type \in LittleEndian
         /\ \E low \in 0 .. 255, high \in 0 .. 255 : b = <<low, high>> /\ meta = low + 256 * high
    \/ type \in HighFirst
         /\ \E low \in 0 .. 255, high \in 0 .. 255 : b = <<high, low>> /\ meta = 256 * high + low
    \/ type \notin OneByte \union LittleEndian \union HighFirst /\ b = <<>> /\ meta = 0

\* The bytes of a field's metadata, one type after the other.
LEMMA FieldMetaForms ==
    ASSUME NEW col
    PROVE  /\ col.type \in {T.ENUM, T.SET} => FieldMeta(col) = <<col.type, col.len>>
           /\ col.type = T.STRING =>
                FieldMeta(col) = <<254 - 16 * (col.len \div 256), col.len % 256>>
           /\ col.type = T.VARCHAR => FieldMeta(col) = LittleBytes(col.len, 2)
           /\ col.type = T.BLOB => FieldMeta(col) = <<col.len>>
           /\ col.type = T.BIT => FieldMeta(col) = <<col.len % 8, col.len \div 8>>
           /\ col.type \in {T.FLOAT, T.DOUBLE} => FieldMeta(col) = <<Width(col.type)>>
           /\ col.type = T.NEWDECIMAL => FieldMeta(col) = <<col.len \div 256, col.len % 256>>
           /\ col.type \in (Fixed \ {T.FLOAT, T.DOUBLE}) \union Dates => FieldMeta(col) = <<>>
<1>1. ASSUME col.type \in {T.ENUM, T.SET} PROVE FieldMeta(col) = <<col.type, col.len>>
  <2>1. /\ ~(col.type = T.STRING) /\ ~(col.type = T.VARCHAR) /\ ~(col.type = T.BLOB)
        /\ ~(col.type = T.BIT) /\ ~(col.type \in {T.FLOAT, T.DOUBLE}) /\ ~(col.type = T.NEWDECIMAL)
    BY <1>1, TypesAre
  <2> QED BY <1>1, <2>1, Zenon DEF FieldMeta
<1>2. ASSUME col.type = T.STRING
      PROVE  FieldMeta(col) = <<254 - 16 * (col.len \div 256), col.len % 256>>
  <2>1. /\ ~(col.type \in {T.ENUM, T.SET}) /\ ~(col.type = T.VARCHAR) /\ ~(col.type = T.BLOB)
        /\ ~(col.type = T.BIT) /\ ~(col.type \in {T.FLOAT, T.DOUBLE}) /\ ~(col.type = T.NEWDECIMAL)
    BY <1>2, TypesAre
  <2> QED BY <1>2, <2>1, Zenon DEF FieldMeta
<1>3. ASSUME col.type = T.VARCHAR PROVE FieldMeta(col) = LittleBytes(col.len, 2)
  <2>1. /\ ~(col.type \in {T.ENUM, T.SET}) /\ ~(col.type = T.STRING) /\ ~(col.type = T.BLOB)
        /\ ~(col.type = T.BIT) /\ ~(col.type \in {T.FLOAT, T.DOUBLE}) /\ ~(col.type = T.NEWDECIMAL)
    BY <1>3, TypesAre
  <2> QED BY <1>3, <2>1, Zenon DEF FieldMeta
<1>4. ASSUME col.type = T.BLOB PROVE FieldMeta(col) = <<col.len>>
  <2>1. /\ ~(col.type \in {T.ENUM, T.SET}) /\ ~(col.type = T.STRING) /\ ~(col.type = T.VARCHAR)
        /\ ~(col.type = T.BIT) /\ ~(col.type \in {T.FLOAT, T.DOUBLE}) /\ ~(col.type = T.NEWDECIMAL)
    BY <1>4, TypesAre
  <2> QED BY <1>4, <2>1, Zenon DEF FieldMeta
<1>5. ASSUME col.type = T.BIT PROVE FieldMeta(col) = <<col.len % 8, col.len \div 8>>
  <2>1. /\ ~(col.type \in {T.ENUM, T.SET}) /\ ~(col.type = T.STRING) /\ ~(col.type = T.VARCHAR)
        /\ ~(col.type = T.BLOB) /\ ~(col.type \in {T.FLOAT, T.DOUBLE}) /\ ~(col.type = T.NEWDECIMAL)
    BY <1>5, TypesAre
  <2> QED BY <1>5, <2>1, Zenon DEF FieldMeta
<1>6. ASSUME col.type \in {T.FLOAT, T.DOUBLE} PROVE FieldMeta(col) = <<Width(col.type)>>
  <2>1. /\ ~(col.type \in {T.ENUM, T.SET}) /\ ~(col.type = T.STRING) /\ ~(col.type = T.VARCHAR)
        /\ ~(col.type = T.BLOB) /\ ~(col.type = T.BIT) /\ ~(col.type = T.NEWDECIMAL)
    BY <1>6, TypesAre
  <2> QED BY <1>6, <2>1, Zenon DEF FieldMeta
<1>7. ASSUME col.type = T.NEWDECIMAL PROVE FieldMeta(col) = <<col.len \div 256, col.len % 256>>
  <2>1. /\ ~(col.type \in {T.ENUM, T.SET}) /\ ~(col.type = T.STRING) /\ ~(col.type = T.VARCHAR)
        /\ ~(col.type = T.BLOB) /\ ~(col.type = T.BIT) /\ ~(col.type \in {T.FLOAT, T.DOUBLE})
    BY <1>7, TypesAre
  <2> QED BY <1>7, <2>1, Zenon DEF FieldMeta
<1>8. ASSUME col.type \in (Fixed \ {T.FLOAT, T.DOUBLE}) \union Dates PROVE FieldMeta(col) = <<>>
  <2>1. /\ ~(col.type \in {T.ENUM, T.SET}) /\ ~(col.type = T.STRING) /\ ~(col.type = T.VARCHAR)
        /\ ~(col.type = T.BLOB) /\ ~(col.type = T.BIT) /\ ~(col.type \in {T.FLOAT, T.DOUBLE})
        /\ ~(col.type = T.NEWDECIMAL)
    BY <1>8, TypesAre DEF Fixed, Dates
  <2> QED BY <1>8, <2>1, Zenon DEF FieldMeta
<1> QED BY <1>1, <1>2, <1>3, <1>4, <1>5, <1>6, <1>7, <1>8

\* A number of two bytes, byte by byte.
LEMMA TwoBytes ==
    ASSUME NEW v \in Nat, Fits(v, 2)
    PROVE  \E low \in 0 .. 255, high \in 0 .. 255 :
             LittleBytes(v, 2) = <<low, high>> /\ v = low + 256 * high
<1>1. PICK high : Shifted(high, v, 2) /\ LittleBytes(v, 2) = LowBytes(high, 2)
  <2>1. 2 \in Nat
    OBVIOUS
  <2> QED BY <2>1, LittleSteps
<1>2. high[0] = v /\ high[1] = v \div 256
  <2>1. 1 \in 1 .. 2 /\ 1 - 1 = 0
    OBVIOUS
  <2> QED BY <1>1, <2>1 DEF Shifted
<1>3. LittleBytes(v, 2) = <<v % 256, (v \div 256) % 256>>
  <2>1. LowBytes(high, 2) = <<high[0] % 256, high[1] % 256>>
    BY DEF LowBytes
  <2> QED BY <1>1, <1>2, <2>1
<1>4. v < 65536
  BY DEF Fits
<1>5. /\ v % 256 \in 0 .. 255 /\ v \div 256 \in 0 .. 255 /\ (v \div 256) % 256 = v \div 256
      /\ v = (v % 256) + 256 * (v \div 256)
  BY <1>4
<1> QED BY <1>3, <1>5, ZenonT(60)

\* Two bytes for a type whose metadata have the high one first.
LEMMA HighIs ==
    ASSUME NEW b, NEW meta, NEW high, NEW low, b = <<high, low>>, meta = 256 * high + low,
           high \in 0 .. 255, low \in 0 .. 255
    PROVE  MetaIs(b, T.STRING, meta) /\ MetaIs(b, T.NEWDECIMAL, meta)
<1>1. T.STRING \in HighFirst /\ T.NEWDECIMAL \in HighFirst
  BY DEF HighFirst
<1> QED BY <1>1 DEF MetaIs

\* The master writes the metadata of every column as decodeMetadata takes them.
LEMMA MetaWritten ==
    ASSUME NEW col, ColumnOK(col)
    PROVE  MetaIs(FieldMeta(col), FieldType(col), DeclaredMeta(col))
<1> DEFINE Goal == MetaIs(FieldMeta(col), FieldType(col), DeclaredMeta(col))
<1>1. CASE col.type \in {T.ENUM, T.SET}
  <2>1. /\ FieldType(col) = T.STRING /\ DeclaredMeta(col) = 256 * col.type + col.len
        /\ FieldMeta(col) = <<col.type, col.len>>
    BY <1>1, MetaForms, FieldMetaForms
  <2>2. col.type \in 0 .. 255 /\ col.len \in 0 .. 255
    BY <1>1, ColumnLens, TypesAre
  <2> QED BY <2>1, <2>2, HighIs
<1>2. CASE col.type = T.STRING
  <2> DEFINE high == 254 - 16 * (col.len \div 256)
             low == col.len % 256
  <2>1. /\ FieldType(col) = T.STRING /\ DeclaredMeta(col) = 256 * high + low
        /\ FieldMeta(col) = <<high, low>>
    BY <1>2, MetaForms, FieldMetaForms
  <2>2. col.len \in 0 .. 1023
    BY <1>2, ColumnLens DEF LongestString
  <2>3. high \in 0 .. 255 /\ low \in 0 .. 255
    BY <2>2, SMTT(30)
  <2> HIDE DEF high, low
  <2> QED BY <2>1, <2>3, HighIs
<1>3. CASE col.type = T.NEWDECIMAL
  <2> DEFINE high == col.len \div 256
             low == col.len % 256
  <2>1. /\ FieldType(col) = T.NEWDECIMAL /\ DeclaredMeta(col) = col.len
        /\ FieldMeta(col) = <<high, low>>
    BY <1>3, MetaForms, FieldMetaForms
  <2>2. col.len \in {256 * p + s : p \in 1 .. 65, s \in 0 .. 30}
    BY <1>3, ColumnLens
  <2>3. PICK p \in 1 .. 65, s \in 0 .. 30 : col.len = 256 * p + s
    BY <2>2
  <2>4. high = p /\ low = s
    BY <2>3
  <2> HIDE DEF high, low
  <2>5. high \in 0 .. 255 /\ low \in 0 .. 255 /\ col.len = 256 * high + low
    BY <2>3, <2>4
  <2> QED BY <2>1, <2>5, HighIs
<1>4. CASE col.type = T.VARCHAR
  <2>1. /\ FieldType(col) = T.VARCHAR /\ DeclaredMeta(col) = col.len
        /\ FieldMeta(col) = LittleBytes(col.len, 2)
    BY <1>4, MetaForms, FieldMetaForms
  <2>2. col.len \in Nat /\ col.len <= LongestVarchar
    <3>1. col.len \in 0 .. LongestVarchar
      BY <1>4, ColumnLens
    <3>2. LongestVarchar \in Nat
      BY DEF LongestVarchar
    <3> QED BY <3>1, <3>2
  <2>3. Fits(col.len, 2)
    BY <2>2, FitsBefore
  <2>4. \E low \in 0 .. 255, high \in 0 .. 255 :
          LittleBytes(col.len, 2) = <<low, high>> /\ col.len = low + 256 * high
    BY <2>2, <2>3, TwoBytes
  <2>5. T.VARCHAR \in LittleEndian
    BY DEF LittleEndian
  <2> QED BY <2>1, <2>4, <2>5, ZenonT(60) DEF MetaIs
<1>5. CASE col.type = T.BIT
  <2> DEFINE high == col.len \div 8
             low == col.len % 8
  <2>1. /\ FieldType(col) = T.BIT /\ DeclaredMeta(col) = 256 * high + low
        /\ FieldMeta(col) = <<low, high>>
    BY <1>5, MetaForms, FieldMetaForms
  <2>2. col.len \in 1 .. 64
    BY <1>5, ColumnLens
  <2>3. high \in 0 .. 255 /\ low \in 0 .. 255 /\ 256 * high + low = low + 256 * high
    BY <2>2
  <2> HIDE DEF high, low
  <2>4. T.BIT \in LittleEndian
    BY DEF LittleEndian
  <2>5. \E l \in 0 .. 255, h \in 0 .. 255 :
          FieldMeta(col) = <<l, h>> /\ DeclaredMeta(col) = l + 256 * h
    BY <2>1, <2>3
  <2> QED BY <2>1, <2>4, <2>5 DEF MetaIs
<1>6. CASE col.type \in {T.FLOAT, T.DOUBLE}
  <2>1. /\ FieldType(col) = col.type /\ DeclaredMeta(col) = Width(col.type)
        /\ FieldMeta(col) = <<Width(col.type)>>
    BY <1>6, MetaForms, FieldMetaForms
  <2>2. Width(col.type) \in 0 .. 255
    BY <1>6 DEF Width, T
  <2>3. col.type \in OneByte
    BY <1>6 DEF OneByte
  <2> QED BY <2>1, <2>2, <2>3 DEF MetaIs
<1>7. CASE col.type = T.BLOB
  <2>1. /\ FieldType(col) = T.BLOB /\ DeclaredMeta(col) = col.len
        /\ FieldMeta(col) = <<col.len>>
    BY <1>7, MetaForms, FieldMetaForms
  <2>2. col.len \in 0 .. 255
    BY <1>7, ColumnLens
  <2>3. T.BLOB \in OneByte
    BY DEF OneByte
  <2> QED BY <2>1, <2>2, <2>3 DEF MetaIs
<1>8. CASE col.type \in (Fixed \ {T.FLOAT, T.DOUBLE}) \union Dates
  <2>1. /\ FieldType(col) = col.type /\ DeclaredMeta(col) = 0 /\ FieldMeta(col) = <<>>
    BY <1>8, MetaForms, FieldMetaForms
  <2>2. col.type \notin OneByte \union LittleEndian \union HighFirst
    BY <1>8, TypesAre DEF Fixed, Dates, OneByte, LittleEndian, HighFirst
  <2> QED BY <2>1, <2>2 DEF MetaIs
<1> QED
  <2>1. col.type \in Fixed \union (Dates \ {T.NEWDATE})
                  \union {T.ENUM, T.SET, T.VARCHAR, T.STRING, T.BLOB, T.BIT, T.NEWDECIMAL}
    BY Zenon DEF ColumnOK
  <2>2. \/ col.type \in {T.ENUM, T.SET} \/ col.type = T.STRING \/ col.type = T.NEWDECIMAL
        \/ col.type = T.VARCHAR \/ col.type = T.BIT \/ col.type \in {T.FLOAT, T.DOUBLE}
        \/ col.type = T.BLOB \/ col.type \in (Fixed \ {T.FLOAT, T.DOUBLE}) \union Dates
    BY <2>1
  <2> QED BY <1>1, <1>2, <1>3, <1>4, <1>5, <1>6, <1>7, <1>8, <2>2

\* decodeMetadata: the bytes of a field are as many as its type says, and they are
\* read as the number they stand for.
LEMMA MetaRead ==
    ASSUME NEW b, NEW type, NEW meta, MetaIs(b, type, meta)
    PROVE  /\ b \in Octets /\ Len(b) = MetaWidth(type)
           /\ \A e, c : At(e, c, b) => MetaAt(e, c, type) = meta
<1>0. OneByte \intersect LittleEndian = {} /\ (OneByte \union LittleEndian) \intersect HighFirst = {}
  BY TypesAre DEF OneByte, LittleEndian, HighFirst
<1>1. CASE type \in OneByte /\ meta \in 0 .. 255 /\ b = <<meta>>
  <2>1. b \in Octets /\ Len(b) = 1 /\ b[1] = meta
    BY <1>1 DEF Octets
  <2>2. MetaWidth(type) = 1
    BY <1>1, Zenon DEF MetaWidth
  <2>3. ASSUME NEW e, NEW c, At(e, c, b) PROVE MetaAt(e, c, type) = meta
    <3>1. Byte(e, c) = meta
      BY <2>1, <2>3, FirstAt
    <3> QED BY <1>1, <3>1, Zenon DEF MetaAt
  <2> QED BY <2>1, <2>2, <2>3
<1>2. ASSUME NEW x \in 0 .. 255, NEW y \in 0 .. 255, b = <<x, y>>
      PROVE  /\ b \in Octets /\ Len(b) = 2
             /\ \A e, c : At(e, c, b) => Byte(e, c) = x /\ Byte(e, c + 1) = y
  <2>1. b \in Octets /\ Len(b) = 2 /\ b[1] = x /\ b[2] = y
    BY <1>2 DEF Octets
  <2>2. ASSUME NEW e, NEW c, At(e, c, b) PROVE Byte(e, c) = x /\ Byte(e, c + 1) = y
    <3>1. c \in Nat
      BY <2>2 DEF At
    <3>2. \A i \in 1 .. Len(b) : Byte(e, c + i - 1) = b[i]
      BY <2>2, BytesAt
    <3>3. 1 \in 1 .. Len(b) /\ 2 \in 1 .. Len(b) /\ c + 1 - 1 = c /\ c + 2 - 1 = c + 1
      BY <2>1, <3>1
    <3> QED BY <2>1, <3>2, <3>3
  <2> QED BY <2>1, <2>2
<1>3. CASE type \in LittleEndian /\ \E low \in 0 .. 255, high \in 0 .. 255 :
                                       b = <<low, high>> /\ meta = low + 256 * high
  <2>1. PICK low \in 0 .. 255, high \in 0 .. 255 : b = <<low, high>> /\ meta = low + 256 * high
    BY <1>3
  <2>2. type \notin OneByte /\ type \in LittleEndian
    BY <1>0, <1>3
  <2>3. MetaWidth(type) = 2
    BY <2>2 DEF MetaWidth
  <2>6. \A e, c : At(e, c, b) => Byte(e, c) = low /\ Byte(e, c + 1) = high
    BY <1>2, <2>1
  <2>4. ASSUME NEW e, NEW c, At(e, c, b) PROVE MetaAt(e, c, type) = meta
    <3>1. Byte(e, c) = low /\ Byte(e, c + 1) = high
      BY <2>4, <2>6
    <3> QED BY <2>1, <2>2, <3>1, Zenon DEF MetaAt
  <2>5. b \in Octets /\ Len(b) = 2
    BY <1>2, <2>1
  <2> QED BY <2>3, <2>4, <2>5
<1>4. CASE type \in HighFirst /\ \E low \in 0 .. 255, high \in 0 .. 255 :
                                    b = <<high, low>> /\ meta = 256 * high + low
  <2>1. PICK low \in 0 .. 255, high \in 0 .. 255 : b = <<high, low>> /\ meta = 256 * high + low
    BY <1>4
  <2>2. type \notin OneByte /\ type \notin LittleEndian /\ type \in HighFirst
    BY <1>0, <1>4
  <2>3. MetaWidth(type) = 2
    BY <2>2 DEF MetaWidth
  <2>6. \A e, c : At(e, c, b) => Byte(e, c) = high /\ Byte(e, c + 1) = low
    BY <1>2, <2>1
  <2>4. ASSUME NEW e, NEW c, At(e, c, b) PROVE MetaAt(e, c, type) = meta
    <3>1. Byte(e, c) = high /\ Byte(e, c + 1) = low
      BY <2>4, <2>6
    <3> QED BY <2>1, <2>2, <3>1, Zenon DEF MetaAt
  <2>5. b \in Octets /\ Len(b) = 2
    BY <1>2, <2>1
  <2> QED BY <2>3, <2>4, <2>5
<1>5. CASE type \notin OneByte \union LittleEndian \union HighFirst /\ b = <<>> /\ meta = 0
  <2>1. b \in Octets /\ Len(b) = 0
    BY <1>5 DEF Octets
  <2>2. type \notin OneByte /\ type \notin LittleEndian /\ type \notin HighFirst
    BY <1>5
  <2>3. MetaWidth(type) = 0
    BY <2>2 DEF MetaWidth
  <2>4. \A e, c : MetaAt(e, c, type) = meta
    BY <1>5, <2>2, Zenon DEF MetaAt
  <2> QED BY <2>1, <2>3, <2>4
<1> QED BY <1>1, <1>3, <1>4, <1>5 DEF MetaIs

\* Where the metadata of each field begin, and what they are read as.
Indexed(index, types, c) ==
    index[0] = c /\ \A i \in 1 .. Len(types) : index[i] = index[i - 1] + MetaWidth(types[i])
MetasAt(e, index, types) == [i \in DOMAIN types |-> MetaAt(e, index[i - 1], types[i])]

\* decodeMetadata goes from field to field.
LEMMA MetadataSteps ==
    ASSUME NEW types, NEW e, NEW c \in Nat, Len(types) \in Nat
    PROVE  \E index : /\ Indexed(index, types, c)
                      /\ decodeMetadata(types, e, c) = MetasAt(e, index, types)
<1> DEFINE n == Len(types)
           F(f) == [i \in 0 .. Len(types) |-> IF i = 0 THEN c ELSE f[i - 1] + MetaWidth(types[i])]
           index == CHOOSE f : f = F(f)
           G == [p \in (1 .. n) \X Nat |-> p[2] + MetaWidth(types[p[1]])]
<1>1. decodeMetadata(types, e, c) = MetasAt(e, index, types)
  BY Zenon DEF decodeMetadata, MetasAt, MetaAt
<1>2. G \in [(1 .. n) \X Nat -> Nat]
  <2>1. \A i : MetaWidth(i) \in Nat
    BY DEF MetaWidth
  <2>2. \A p \in (1 .. n) \X Nat : p[2] \in Nat
    OBVIOUS
  <2> QED BY <2>1, <2>2
<1>3. \E f : f = F(f)
  <2>1. PICK f \in [0 .. n -> Nat] : f[0] = c /\ \A i \in 1 .. n : f[i] = G[<<i, f[i - 1]>>]
    <3> HIDE DEF G, F, index
    <3> QED BY <1>2, StepsDefine
  <2>2. ASSUME NEW i \in 1 .. n PROVE f[i] = f[i - 1] + MetaWidth(types[i])
    <3>1. i - 1 \in 0 .. n /\ <<i, f[i - 1]>> \in (1 .. n) \X Nat
      BY <2>1
    <3>2. G[<<i, f[i - 1]>>] = f[i - 1] + MetaWidth(types[i])
      BY <3>1
    <3> QED BY <2>1, <3>2
  <2>3. \A i \in 0 .. n : f[i] = IF i = 0 THEN c ELSE f[i - 1] + MetaWidth(types[i])
    BY <2>1, <2>2
  <2>4. f = F(f)
    BY <2>1, <2>3
  <2> QED BY <2>4
<1>4. index = F(index)
  <2> HIDE DEF F
  <2> QED BY <1>3
<1> HIDE DEF index
<1>5. index[0] = c /\ \A i \in 1 .. n : index[i] = index[i - 1] + MetaWidth(types[i])
  BY <1>4
<1> QED BY <1>1, <1>5 DEF Indexed

\* Fields whose metadata stand one behind the other.
MetasAre(bytes, types, metas) ==
    /\ Len(types) \in Nat /\ DOMAIN types = 1 .. Len(types) /\ Len(bytes) = Len(types)
    /\ \A i \in 1 .. Len(types) : MetaIs(bytes[i], types[i], metas[i])

\* decodeMetadata: every field's number is the one the master meant.
LEMMA MetadataRead ==
    ASSUME NEW e, NEW c, NEW bytes, NEW types, NEW metas,
           MetasAre(bytes, types, metas), bytes \in Seq(Octets), At(e, c, FlattenSeq(bytes))
    PROVE  decodeMetadata(types, e, c) = [i \in DOMAIN types |-> metas[i]]
<1> DEFINE n == Len(types)
<1>1. /\ n \in Nat /\ DOMAIN types = 1 .. n /\ Len(bytes) = n
      /\ \A i \in 1 .. n : MetaIs(bytes[i], types[i], metas[i])
  BY DEF MetasAre
<1>2. PICK f : Flat(f, bytes) /\ FlattenSeq(bytes) = f[n]
  <2>1. bytes \in Seq(Seq(0 .. 255))
    BY DEF Octets
  <2>2. \E f : Flat(f, bytes) /\ FlattenSeq(bytes) = f[Len(bytes)]
    BY <2>1, FlattenSteps
  <2> QED BY <1>1, <2>2
<1>3. c \in Nat
  BY DEF At
<1>4. PICK index : Indexed(index, types, c) /\ decodeMetadata(types, e, c) = MetasAt(e, index, types)
  BY <1>1, <1>3, MetadataSteps
<1> HIDE DEF n
<1>5. index[0] = c /\ \A i \in 1 .. n : index[i] = index[i - 1] + MetaWidth(types[i])
  BY <1>4 DEF Indexed, n
<1>6. /\ \A i \in 0 .. n : f[i] \in Octets
      /\ \A i \in 1 .. n : At(f[n], Len(f[i - 1]), bytes[i])
      /\ \A i \in 1 .. n : Len(f[i]) = Len(f[i - 1]) + Len(bytes[i])
  <2>0. Flat(f, bytes) /\ bytes \in Seq(Octets)
    BY <1>2
  <2>1. \A i \in 0 .. Len(bytes) : f[i] \in Octets
    BY <2>0, FlatAt
  <2>2. \A i \in 1 .. Len(bytes) : At(f[Len(bytes)], Len(f[i - 1]), bytes[i])
    BY <2>0, FlatAt
  <2>3. \A i \in 1 .. Len(bytes) : Len(f[i]) = Len(f[i - 1]) + Len(bytes[i])
    BY <2>0, FlatAt
  <2> QED BY <1>1, <2>1, <2>2, <2>3, Zenon
<1>7. \A i \in 0 .. n : Len(f[i]) \in Nat
  BY <1>6, OctetsAre
<1> DEFINE Same == {i \in 0 .. n : index[i] = c + Len(f[i])}
<1>8. Same = 0 .. n
  <2>1. 0 \in Same
    <3>1. f[0] = <<>>
      BY <1>2 DEF Flat
    <3>2. Len(f[0]) = 0
      BY <3>1
    <3>3. c + 0 = c /\ 0 \in 0 .. n
      BY <1>1, <1>3
    <3>4. index[0] = c + Len(f[0])
      BY <1>5, <3>2, <3>3
    <3> QED BY <3>3, <3>4
  <2>2. ASSUME NEW i \in 1 .. n, i - 1 \in Same PROVE i \in Same
    <3>1. index[i - 1] = c + Len(f[i - 1]) /\ i - 1 \in 0 .. n /\ i \in 0 .. n
      BY <1>1, <2>2
    <3>2. Len(bytes[i]) = MetaWidth(types[i]) /\ bytes[i] \in Octets
      BY <1>1, MetaRead
    <3>3. Len(bytes[i]) \in Nat
      BY <3>2, OctetsAre
    <3>4. index[i] = index[i - 1] + Len(bytes[i]) /\ Len(f[i]) = Len(f[i - 1]) + Len(bytes[i])
      BY <1>5, <1>6, <3>2
    <3>5. index[i] = c + Len(f[i])
      <4>1. Len(f[i - 1]) \in Nat
        BY <1>7, <3>1
      <4>2. \A a \in Nat, b \in Nat : (c + a) + b = c + (a + b)
        BY <1>3
      <4> QED BY <3>1, <3>3, <3>4, <4>1, <4>2
    <3> QED BY <3>1, <3>5
  <2>3. Same \in SUBSET (0 .. n)
    OBVIOUS
  <2> HIDE DEF Same
  <2> QED BY <1>1, <2>1, <2>2, <2>3, Upwards
<1>9. ASSUME NEW i \in 1 .. n PROVE MetaAt(e, index[i - 1], types[i]) = metas[i]
  <2>1. i - 1 \in 0 .. n
    BY <1>1
  <2>2. index[i - 1] = c + Len(f[i - 1])
    BY <1>8, <2>1
  <2>3. At(f[n], Len(f[i - 1]), bytes[i]) /\ At(e, c, f[n])
    BY <1>2, <1>6
  <2>4. At(e, index[i - 1], bytes[i])
    BY <2>2, <2>3, AtWithin
  <2>5. MetaIs(bytes[i], types[i], metas[i])
    BY <1>1
  <2>6. \A x, y : At(x, y, bytes[i]) => MetaAt(x, y, types[i]) = metas[i]
    BY <2>5, MetaRead
  <2> QED BY <2>4, <2>6
<1>10. MetasAt(e, index, types) = [i \in DOMAIN types |-> metas[i]]
  BY <1>1, <1>9 DEF MetasAt
<1> QED BY <1>4, <1>10

-----------------------------------------------------------------------------
(* The null bits of an image. *)

\* For each column that is used, whether it is null, and the bytes of its value.
Nulls(cols, used, row) == [i \in DOMAIN cols |-> IF used[i] THEN <<row[i] = Null>> ELSE <<>>]
Vals(cols, used, row) ==
    [i \in DOMAIN cols |-> IF used[i] /\ ~(row[i] = Null) THEN Pack(cols[i], row[i]) ELSE <<>>]

\* A row of a table; its null bits stand at the numbers of the columns when every
\* column is used, or when none is null.
RowOK(cols, used, row) ==
    /\ Len(cols) \in Nat \ {0} /\ DOMAIN cols = 1 .. Len(cols)
    /\ used \in Seq(BOOLEAN) /\ Len(used) = Len(cols)
    /\ \A i \in 1 .. Len(cols) : ColumnOK(cols[i])
    /\ \A i \in 1 .. Len(cols) : row[i] # Null => ValueOK(cols[i], row[i])
DecimalsOK(cols, row) ==
    \A i \in 1 .. Len(cols) :
        row[i] # Null /\ cols[i].type = T.NEWDECIMAL => DecimalRead(cols[i], row[i])
NullsPlaced(cols, used, row) ==
    \/ \A i \in 1 .. Len(cols) : used[i]
    \/ /\ Len(cols) <= 8 /\ \E i \in 1 .. Len(cols) : used[i]
       /\ \A i \in 1 .. Len(cols) : row[i] # Null

\* Null bits, for all columns: one for each.
LEMMA AllNulls ==
    ASSUME NEW n \in Nat, NEW s, s \in Seq(Seq(BOOLEAN)), Len(s) = n,
           NEW b, \A i \in 1 .. n : s[i] = <<b[i]>>
    PROVE  Len(FlattenSeq(s)) = n /\ \A i \in 1 .. n : FlattenSeq(s)[i] = b[i]
<1>1. PICK f : Flat(f, s) /\ FlattenSeq(s) = f[Len(s)]
  BY FlattenSteps
<1>2. f[0] = <<>> /\ \A i \in 1 .. n : f[i] = Join(f[i - 1], <<b[i]>>)
  BY <1>1 DEF Flat
<1>3. \A i \in 1 .. n : b[i] \in BOOLEAN
  <2> TAKE i \in 1 .. n
  <2>1. s[i] \in Seq(BOOLEAN) /\ s[i] = <<b[i]>>
    BY ElementOfSeq
  <2>2. <<b[i]>>[1] \in BOOLEAN
    BY <2>1
  <2> QED BY <2>2
<1> DEFINE Good == {i \in 0 .. n : /\ f[i] \in Seq(BOOLEAN) /\ Len(f[i]) = i
                                   /\ \A j \in 1 .. i : f[i][j] = b[j]}
<1>4. 0 \in Good
  <2>1. <<>> \in Seq(BOOLEAN) /\ Len(<<>>) = 0
    OBVIOUS
  <2>2. f[0] \in Seq(BOOLEAN) /\ Len(f[0]) = 0 /\ 0 \in 0 .. n
    BY <1>2, <2>1
  <2>3. \A j \in 1 .. 0 : f[0][j] = b[j]
    OBVIOUS
  <2> QED BY <2>2, <2>3
<1>5. ASSUME NEW i \in 1 .. n, i - 1 \in Good PROVE i \in Good
  <2> DEFINE t == f[i - 1]
             u == <<b[i]>>
  <2>1. t \in Seq(BOOLEAN) /\ Len(t) = i - 1 /\ \A j \in 1 .. i - 1 : t[j] = b[j]
    BY <1>5
  <2>2. u \in Seq(BOOLEAN) /\ Len(u) = 1 /\ u[1] = b[i]
    BY <1>3
  <2>3. f[i] = t \o u
    BY <1>2 DEF Join
  <2> HIDE DEF t, u
  <2>4. /\ t \o u \in Seq(BOOLEAN) /\ Len(t \o u) = Len(t) + Len(u)
        /\ \A j \in 1 .. Len(t) + Len(u) :
             (t \o u)[j] = IF j <= Len(t) THEN t[j] ELSE u[j - Len(t)]
    BY <2>1, <2>2, ConcatProperties
  <2>5. f[i] \in Seq(BOOLEAN) /\ Len(f[i]) = i
    BY <2>1, <2>2, <2>3, <2>4
  <2>6. ASSUME NEW j \in 1 .. i PROVE f[i][j] = b[j]
    <3>1. f[i][j] = IF j <= i - 1 THEN t[j] ELSE u[j - (i - 1)]
      BY <2>1, <2>2, <2>3, <2>4
    <3>2. CASE j <= i - 1
      <4>1. j \in 1 .. i - 1
        BY <3>2
      <4> QED BY <2>1, <3>1, <3>2, <4>1
    <3>3. CASE ~(j <= i - 1)
      <4>1. j = i /\ j - (i - 1) = 1
        BY <3>3
      <4> QED BY <2>2, <3>1, <3>3, <4>1
    <3> QED BY <3>2, <3>3
  <2>7. i \in 0 .. n
    OBVIOUS
  <2> QED BY <2>5, <2>6, <2>7
<1>6. Good \in SUBSET (0 .. n)
  OBVIOUS
<1>7. Good = 0 .. n
  <2> HIDE DEF Good
  <2> QED BY <1>4, <1>5, <1>6, Upwards
<1>8. n \in Good
  <2> HIDE DEF Good
  <2> QED BY <1>7
<1> QED BY <1>1, <1>8

\* Null bits, for some columns of which none is null: at least one, no more than
\* there are columns, and none is set.
LEMMA NoNulls ==
    ASSUME NEW n \in Nat, NEW s, s \in Seq(Seq(BOOLEAN)), Len(s) = n,
           \A i \in 1 .. n : s[i] \in {<<FALSE>>, <<>>}, \E i \in 1 .. n : s[i] = <<FALSE>>
    PROVE  /\ FlattenSeq(s) \in Seq({FALSE}) /\ Len(FlattenSeq(s)) \in 1 .. n
<1>1. PICK f : Flat(f, s) /\ FlattenSeq(s) = f[Len(s)]
  BY FlattenSteps
<1>2. f[0] = <<>> /\ \A i \in 1 .. n : f[i] = Join(f[i - 1], s[i])
  BY <1>1 DEF Flat
<1> DEFINE Good == {i \in 0 .. n : /\ f[i] \in Seq({FALSE}) /\ Len(f[i]) \in 0 .. i
                                   /\ (\E j \in 1 .. i : s[j] = <<FALSE>>) => Len(f[i]) > 0}
<1>3. 0 \in Good
  <2>1. <<>> \in Seq({FALSE}) /\ Len(<<>>) = 0
    OBVIOUS
  <2>2. f[0] \in Seq({FALSE}) /\ Len(f[0]) \in 0 .. 0 /\ 0 \in 0 .. n
    BY <1>2, <2>1
  <2>3. \A j \in 1 .. 0 : FALSE
    OBVIOUS
  <2> QED BY <2>2, <2>3
<1>4. ASSUME NEW i \in 1 .. n, i - 1 \in Good PROVE i \in Good
  <2> DEFINE t == f[i - 1]
             u == s[i]
  <2>1. /\ t \in Seq({FALSE}) /\ Len(t) \in 0 .. i - 1
        /\ (\E j \in 1 .. i - 1 : s[j] = <<FALSE>>) => Len(t) > 0
    BY <1>4
  <2>2. u \in Seq({FALSE}) /\ Len(u) \in 0 .. 1 /\ (s[i] = <<FALSE>> => Len(u) = 1)
    <3>1. CASE u = <<FALSE>>
      BY <3>1
    <3>2. CASE u = <<>>
      <4>1. <<>> \in Seq({FALSE}) /\ Len(<<>>) = 0 /\ Len(<<FALSE>>) = 1
        OBVIOUS
      <4>2. <<>> # <<FALSE>>
        BY <4>1
      <4> QED BY <3>2, <4>1, <4>2
    <3> QED BY <3>1, <3>2
  <2>3. f[i] = t \o u
    BY <1>2 DEF Join
  <2> HIDE DEF t, u
  <2>4. t \o u \in Seq({FALSE}) /\ Len(t \o u) = Len(t) + Len(u)
    BY <2>1, <2>2, ConcatProperties
  <2>d. Len(t) \in 0 .. i - 1 /\ Len(u) \in 0 .. 1
    BY <2>1, <2>2, Zenon
  <2>a. \A x \in 0 .. i - 1, y \in 0 .. 1 :
          x + y \in 0 .. i /\ (x + y > 0 <=> x > 0 \/ y > 0)
    OBVIOUS
  <2>b. Len(t) + Len(u) \in 0 .. i
    BY <2>d, <2>a, Zenon
  <2>c. Len(t) + Len(u) > 0 <=> Len(t) > 0 \/ Len(u) > 0
    BY <2>d, <2>a, Zenon
  <2>5. f[i] \in Seq({FALSE}) /\ Len(f[i]) \in 0 .. i
    BY <2>3, <2>4, <2>b
  <2>6. ASSUME NEW j \in 1 .. i, s[j] = <<FALSE>> PROVE Len(f[i]) > 0
    <3>1. CASE j = i
      <4>0. Len(u) = 1
        BY <2>2, <2>6, <3>1, Zenon
      <4>1. Len(u) > 0
        BY <4>0
      <4> QED BY <2>3, <2>4, <2>c, <4>1
    <3>2. CASE j # i
      <4>1. j \in 1 .. i - 1
        BY <3>2
      <4>2. Len(t) > 0
        BY <2>1, <2>6, <4>1
      <4> QED BY <2>3, <2>4, <2>c, <4>2
    <3> QED BY <3>1, <3>2
  <2>7. i \in 0 .. n
    OBVIOUS
  <2> QED BY <2>5, <2>6, <2>7
<1>5. Good \in SUBSET (0 .. n)
  OBVIOUS
<1>6. Good = 0 .. n
  <2> HIDE DEF Good
  <2> QED BY <1>3, <1>4, <1>5, Upwards
<1>7. n \in Good
  <2> HIDE DEF Good
  <2> QED BY <1>6
<1>8. FlattenSeq(s) = f[n]
  BY <1>1
<1>9. f[n] \in Seq({FALSE}) /\ Len(f[n]) \in 0 .. n /\ Len(f[n]) > 0
  BY <1>7
<1> QED BY <1>8, <1>9

\* Null bits none of which is set stand in one byte.
LEMMA NoneSet ==
    ASSUME NEW e, NEW c, NEW bits, At(e, c, Bitmap(bits)), bits \in Seq({FALSE}),
           Len(bits) \in 1 .. 8, NEW idx \in 0 .. 7
    PROVE  ~isSet(e, c, idx)
<1>1. idx \in Nat /\ idx \div 8 < BitmapLen(Len(bits)) /\ Len(bits) \in Nat
  <2>1. \A m \in 1 .. 8, k \in 0 .. 7 : k \in Nat /\ k \div 8 < (m + 7) \div 8 /\ m \in Nat
    OBVIOUS
  <2>2. Len(bits) \in 1 .. 8 /\ idx \in 0 .. 7
    OBVIOUS
  <2> QED BY <2>1, <2>2, Zenon DEF BitmapLen
<1>2. isSet(e, c, idx) <=> idx + 1 <= Len(bits) /\ bits[idx + 1]
  BY <1>1, BitRead
<1>3. ASSUME idx + 1 <= Len(bits) PROVE ~bits[idx + 1]
  <2>1. idx + 1 \in 1 .. Len(bits)
    BY <1>1, <1>3
  <2>2. bits[idx + 1] \in {FALSE}
    BY <2>1, ElementOfSeq
  <2> QED BY <2>2
<1> QED BY <1>2, <1>3

\* The null bits of a row: as many bytes as the columns need, and a bit set for
\* each column that is used and null.
LEMMA NullsRead ==
    ASSUME NEW e, NEW c, NEW cols, NEW used, NEW row, RowOK(cols, used, row),
           NullsPlaced(cols, used, row), At(e, c, Bitmap(FlattenSeq(Nulls(cols, used, row))))
    PROVE  /\ Len(Bitmap(FlattenSeq(Nulls(cols, used, row)))) = BitmapLen(Len(cols))
           /\ \A i \in 1 .. Len(cols) : used[i] => (isSet(e, c, i - 1) <=> row[i] = Null)
<1> DEFINE n == Len(cols)
           s == Nulls(cols, used, row)
           bits == FlattenSeq(s)
           b == [i \in 1 .. n |-> row[i] = Null]
<1>1. n \in Nat /\ n > 0 /\ DOMAIN cols = 1 .. n
  BY DEF RowOK
<1>2. \A i \in 1 .. n : used[i] \in BOOLEAN
  BY ElementOfSeq DEF RowOK
<1>3. \A i \in 1 .. n : s[i] = IF used[i] THEN <<row[i] = Null>> ELSE <<>>
  BY <1>1 DEF Nulls
<1>4. s \in Seq(Seq(BOOLEAN)) /\ Len(s) = n
  <2>1. \A i \in 1 .. n : (IF used[i] THEN <<row[i] = Null>> ELSE <<>>) \in Seq(BOOLEAN)
    <3> TAKE i \in 1 .. n
    <3>1. (row[i] = Null) \in BOOLEAN
      OBVIOUS
    <3>2. \A x \in BOOLEAN : <<x>> \in Seq(BOOLEAN)
      OBVIOUS
    <3>3. <<row[i] = Null>> \in Seq(BOOLEAN)
      BY <3>1, <3>2
    <3>4. <<>> \in Seq(BOOLEAN)
      OBVIOUS
    <3> QED BY <3>3, <3>4, Zenon
  <2>2. s = [i \in 1 .. n |-> IF used[i] THEN <<row[i] = Null>> ELSE <<>>]
    BY <1>1 DEF Nulls
  <2> QED BY <1>1, <2>1, <2>2
<1>5. /\ Len(Bitmap(bits)) = BitmapLen(Len(bits)) \/ Len(bits) \notin Nat
  BY BitmapAre
<1>6. At(e, c, Bitmap(bits))
  OBVIOUS
<1>7. NullsPlaced(cols, used, row)
  OBVIOUS
<1> HIDE DEF bits, s
<1>8. CASE \A i \in 1 .. n : used[i]
  <2>1. \A i \in 1 .. n : s[i] = <<b[i]>>
    BY <1>3, <1>8
  <2>2. Len(bits) = n /\ \A i \in 1 .. n : bits[i] = b[i]
    <3> HIDE DEF b, n
    <3>1. Len(FlattenSeq(s)) = n
      BY <1>1, <1>4, <2>1, AllNulls
    <3>2. \A i \in 1 .. n : FlattenSeq(s)[i] = b[i]
      BY <1>1, <1>4, <2>1, AllNulls
    <3> QED BY <3>1, <3>2, Zenon DEF bits
  <2>3. ASSUME NEW i \in 1 .. n PROVE isSet(e, c, i - 1) <=> row[i] = Null
    <3>1. i - 1 \in Nat /\ (i - 1) \div 8 < BitmapLen(Len(bits)) /\ i - 1 + 1 = i /\ i <= Len(bits)
      <4>1. \A m \in Nat : i <= m => (i - 1) \div 8 < (m + 7) \div 8
        OBVIOUS
      <4> QED BY <1>1, <2>2, <4>1 DEF BitmapLen
    <3>2. isSet(e, c, i - 1) <=> i - 1 + 1 <= Len(bits) /\ bits[i - 1 + 1]
      BY <1>1, <1>6, <2>2, <3>1, BitRead
    <3>3. bits[i] = (row[i] = Null)
      BY <2>2
    <3> QED BY <3>1, <3>2, <3>3
  <2> QED BY <1>1, <1>5, <2>2, <2>3 DEF bits, s
<1>9. CASE /\ n <= 8 /\ \E i \in 1 .. n : used[i]
           /\ \A i \in 1 .. n : row[i] # Null
  <2>1. \A i \in 1 .. n : s[i] \in {<<FALSE>>, <<>>}
    <3> TAKE i \in 1 .. n
    <3>1. (row[i] = Null) = FALSE
      BY <1>9
    <3> QED BY <1>3, <3>1
  <2>2. \E i \in 1 .. n : s[i] = <<FALSE>>
    <3>1. PICK i \in 1 .. n : used[i]
      BY <1>9
    <3>2. (row[i] = Null) = FALSE
      BY <1>9
    <3> QED BY <1>3, <3>1, <3>2
  <2>3. bits \in Seq({FALSE}) /\ Len(bits) \in 1 .. n
    BY <1>1, <1>4, <2>1, <2>2, NoNulls DEF bits
  <2>0. n \in 1 .. 8
    <3> HIDE DEF n
    <3> QED BY <1>1, <1>9
  <2>4. Len(bits) \in 1 .. 8 /\ Len(bits) \in Nat
    <3>1. \A m \in 1 .. 8 : \A k \in 1 .. m : k \in 1 .. 8 /\ k \in Nat
      OBVIOUS
    <3> QED BY <2>3, <2>0, <3>1, Zenon
  <2>5. BitmapLen(Len(bits)) = BitmapLen(n)
    <3>1. \A m \in 1 .. 8 : (m + 7) \div 8 = 1
      OBVIOUS
    <3> QED BY <2>4, <2>0, <3>1 DEF BitmapLen
  <2>6. ASSUME NEW i \in 1 .. n PROVE ~isSet(e, c, i - 1)
    <3>1. i - 1 \in 0 .. 7
      BY <1>1, <1>9
    <3> QED BY <1>6, <2>3, <2>4, <3>1, NoneSet
  <2>7. \A i \in 1 .. n : isSet(e, c, i - 1) <=> row[i] = Null
    BY <1>9, <2>6
  <2> QED BY <1>5, <2>4, <2>5, <2>7 DEF bits, s
<1> QED BY <1>7, <1>8, <1>9 DEF NullsPlaced
-----------------------------------------------------------------------------
(* Images. *)

IsSequence(s) == \E S : s \in Seq(S)

\* One column of an image after the other: the code's loop.
Present(e, c, isused, i) == ~isSet(e, c, i - 1) /\ isSet(e, isused, i - 1)
Decoded(here, p, r) ==
    IF here THEN [cur |-> r.cur, cells |-> Append(p.cells, r.cell)]
            ELSE [cur |-> p.cur, cells |-> Append(p.cells, NoCell)]
Columns(after, e, c, types, meta, isused) ==
    /\ after[0] = [cur |-> c + BitmapLen(Len(types)), cells |-> <<>>]
    /\ \A i \in 1 .. Len(types) :
         after[i] = Decoded(Present(e, c, isused, i), after[i - 1],
                            value2Cell(e, after[i - 1].cur, types[i], meta[i]))

\* parseRowsEvent decodes an image column by column.
LEMMA ImageSteps ==
    ASSUME NEW e, NEW c, NEW types, NEW meta, NEW isused, Len(types) \in Nat
    PROVE  \E after : /\ Columns(after, e, c, types, meta, isused)
                      /\ DecodeImage(e, c, types, meta, isused) = after[Len(types)]
<1> DEFINE n == Len(types)
           Step(i, p) == LET v == value2Cell(e, p.cur, types[i], meta[i]) IN
                IF ~isSet(e, c, i - 1) /\ isSet(e, isused, i - 1)
                THEN [cur |-> v.cur, cells |-> Append(p.cells, v.cell)]
                ELSE [cur |-> p.cur, cells |-> Append(p.cells, NoCell)]
           first == [cur |-> c + BitmapLen(n), cells |-> <<>>]
           F(f, m) == [i \in 0 .. m |-> IF i = 0 THEN first ELSE Step(i, f[i - 1])]
           after == CHOOSE f : f = F(f, n)
           Found == {m \in 0 .. n : \E f : f = F(f, m)}
<1>1. DecodeImage(e, c, types, meta, isused) = after[n]
  BY DEF DecodeImage
<1>2. ASSUME NEW i, NEW p
      PROVE  Step(i, p) = Decoded(Present(e, c, isused, i), p, value2Cell(e, p.cur, types[i], meta[i]))
  BY Zenon DEF Decoded, Present
<1> HIDE DEF Step, first
<1>4. \E f : f = F(f, n)
  <2>1. 0 \in Found
    <3>1. [i \in 0 .. 0 |-> first] = F([i \in 0 .. 0 |-> first], 0)
      OBVIOUS
    <3> HIDE DEF F
    <3> QED BY <3>1
  <2>2. ASSUME NEW m \in 1 .. n, m - 1 \in Found PROVE m \in Found
    <3>1. PICK f : f = F(f, m - 1)
      BY <2>2
    <3> DEFINE g == [i \in 0 .. m |-> IF i = m THEN Step(m, f[m - 1]) ELSE f[i]]
    <3>2. ASSUME NEW i \in 0 .. m
          PROVE  g[i] = IF i = 0 THEN first ELSE Step(i, g[i - 1])
      <4>1. CASE i = m
        <5>1. g[i] = Step(m, f[m - 1]) /\ g[i - 1] = f[m - 1] /\ i # 0
          BY <4>1
        <5> HIDE DEF g
        <5> QED BY <4>1, <5>1
      <4>2. CASE i # m
        <5>1. i \in 0 .. m - 1 /\ (i # 0 => i - 1 \in 0 .. m /\ i - 1 # m)
          BY <4>2
        <5>2. g[i] = f[i] /\ (i # 0 => g[i - 1] = f[i - 1])
          BY <4>2, <5>1
        <5>3. f[i] = IF i = 0 THEN first ELSE Step(i, f[i - 1])
          BY <3>1, <5>1
        <5> HIDE DEF g
        <5> QED BY <5>2, <5>3
      <4> QED BY <4>1, <4>2
    <3>3. g = F(g, m)
      <4>1. g = [i \in 0 .. m |-> g[i]]
        OBVIOUS
      <4> HIDE DEF g
      <4> QED BY <3>2, <4>1
    <3> HIDE DEF F, g
    <3> QED BY <3>3
  <2>3. Found \in SUBSET (0 .. n)
    OBVIOUS
  <2>4. Found = 0 .. n
    <3> HIDE DEF Found
    <3> QED BY <2>1, <2>2, <2>3, Upwards
  <2>5. n \in Found
    <3> HIDE DEF Found
    <3> QED BY <2>4
  <2> HIDE DEF F
  <2> QED BY <2>5
<1>5. after = F(after, n)
  <2> HIDE DEF F
  <2> QED BY <1>4
<1> HIDE DEF after
<1>6. after[0] = first /\ \A i \in 1 .. n : after[i] = Step(i, after[i - 1])
  BY <1>5
<1>7. Columns(after, e, c, types, meta, isused)
  BY <1>2, <1>6 DEF Columns, first
<1> QED BY <1>1, <1>7

\* What Append adds is the last element, and nothing else changes.
LEMMA Appended ==
    ASSUME NEW s, IsSequence(s), NEW x
    PROVE  /\ IsSequence(Append(s, x)) /\ Len(s) \in Nat /\ DOMAIN s = 1 .. Len(s)
           /\ Len(Append(s, x)) = Len(s) + 1 /\ DOMAIN Append(s, x) = 1 .. Len(s) + 1
           /\ \A i \in 1 .. Len(s) : Append(s, x)[i] = s[i]
           /\ Append(s, x)[Len(s) + 1] = x
<1>1. PICK S : s \in Seq(S)
  BY DEF IsSequence
<1>2. s \in Seq(S \union {x}) /\ x \in S \union {x}
  <2>1. s \in [1 .. Len(s) -> S] /\ Len(s) \in Nat
    BY <1>1, LenProperties
  <2>2. s \in [1 .. Len(s) -> S \union {x}]
    BY <2>1
  <2> QED BY <2>1, <2>2, SeqDef
<1>3. /\ Append(s, x) \in Seq(S \union {x}) /\ Len(Append(s, x)) = Len(s) + 1
      /\ \A i \in 1 .. Len(s) : Append(s, x)[i] = s[i]
      /\ Append(s, x)[Len(s) + 1] = x
  BY <1>2, AppendProperties
<1>4. DOMAIN Append(s, x) = 1 .. Len(s) + 1
  BY <1>3, LenProperties
<1>5. Len(s) \in Nat /\ DOMAIN s = 1 .. Len(s)
  BY <1>1, LenProperties
<1> QED BY <1>3, <1>4, <1>5 DEF IsSequence

\* One cell more, and the cursor.
Longer(d, p, cell, cursor) ==
    /\ IsSequence(d.cells) /\ Len(p.cells) \in Nat /\ Len(d.cells) = Len(p.cells) + 1
    /\ \A i \in 1 .. Len(p.cells) : d.cells[i] = p.cells[i]
    /\ d.cells[Len(p.cells) + 1] = cell /\ d.cur = cursor

\* One column more.
LEMMA OneDecoded ==
    ASSUME NEW here, NEW p, NEW r, IsSequence(p.cells)
    PROVE  /\ here => Longer(Decoded(here, p, r), p, r.cell, r.cur)
           /\ ~here => Longer(Decoded(here, p, r), p, NoCell, p.cur)
<1> DEFINE t == p.cells
           d == Decoded(here, p, r)
           x == IF here THEN r.cell ELSE NoCell
<1>1. d.cells = Append(t, x)
  BY DEF Decoded
<1>2. here => x = r.cell /\ d.cur = r.cur
  BY DEF Decoded
<1>3. ~here => x = NoCell /\ d.cur = p.cur
  BY DEF Decoded
<1>4. IsSequence(t)
  OBVIOUS
<1> HIDE DEF d, t, x
<1>5. /\ IsSequence(Append(t, x)) /\ Len(t) \in Nat
      /\ Len(Append(t, x)) = Len(t) + 1
      /\ \A i \in 1 .. Len(t) : Append(t, x)[i] = t[i]
      /\ Append(t, x)[Len(t) + 1] = x
  BY <1>4, Appended
<1>6. /\ IsSequence(d.cells) /\ Len(t) \in Nat /\ Len(d.cells) = Len(t) + 1
      /\ \A i \in 1 .. Len(t) : d.cells[i] = t[i]
      /\ d.cells[Len(t) + 1] = x
  BY <1>1, <1>5, Zenon
<1>7. Longer(d, p, x, d.cur)
  BY <1>6 DEF Longer, t
<1> QED BY <1>2, <1>3, <1>7, Zenon DEF d

\* Before the first column there are no cells.
LEMMA NoCells ==
    IsSequence(<<>>) /\ Len(<<>>) = 0
<1>1. <<>> \in Seq({}) /\ Len(<<>>) = 0
  OBVIOUS
<1> QED BY <1>1 DEF IsSequence

\* parseRowsEvent: an image is a sequence of cells, one for each field.
LEMMA ImageIsCells ==
    ASSUME NEW e, NEW c, NEW types, NEW meta, NEW isused, NEW n \in Nat, Len(types) = n
    PROVE  /\ IsSequence(DecodeImage(e, c, types, meta, isused).cells)
           /\ Len(DecodeImage(e, c, types, meta, isused).cells) = n
<1>1. PICK after : /\ Columns(after, e, c, types, meta, isused)
                   /\ DecodeImage(e, c, types, meta, isused) = after[n]
  BY ImageSteps
<1>2. after[0].cells = <<>>
  BY <1>1 DEF Columns
<1>3. ASSUME NEW i \in 1 .. n
      PROVE  \E here, r : after[i] = Decoded(here, after[i - 1], r)
  BY <1>1 DEF Columns
<1> DEFINE Cells == {i \in 0 .. n : IsSequence(after[i].cells) /\ Len(after[i].cells) = i}
<1>4. 0 \in Cells
  BY <1>2, NoCells
<1>5. ASSUME NEW i \in 1 .. n, i - 1 \in Cells PROVE i \in Cells
  <2>1. IsSequence(after[i - 1].cells) /\ Len(after[i - 1].cells) = i - 1
    BY <1>5
  <2>2. PICK here, r : after[i] = Decoded(here, after[i - 1], r)
    BY <1>3
  <2>3. IsSequence(after[i].cells) /\ Len(after[i].cells) = i - 1 + 1
    <3>1. \E cell, cursor : Longer(after[i], after[i - 1], cell, cursor)
      <4> DEFINE p == after[i - 1]
                 a == after[i]
      <4>0. IsSequence(p.cells) /\ a = Decoded(here, p, r)
        BY <2>1, <2>2
      <4> HIDE DEF p, a
      <4>1. CASE here
        <5>1. Longer(Decoded(here, p, r), p, r.cell, r.cur)
          BY <4>0, <4>1, OneDecoded, Zenon
        <5> QED BY <4>0, <5>1 DEF p, a
      <4>2. CASE ~here
        <5>1. Longer(Decoded(here, p, r), p, NoCell, p.cur)
          BY <4>0, <4>2, OneDecoded, Zenon
        <5> QED BY <4>0, <5>1 DEF p, a
      <4> QED BY <4>1, <4>2
    <3> QED BY <2>1, <3>1 DEF Longer
  <2> QED BY <2>3
<1>6. Cells \in SUBSET (0 .. n)
  OBVIOUS
<1>7. Cells = 0 .. n
  <2> HIDE DEF Cells
  <2> QED BY <1>4, <1>5, <1>6, Upwards
<1>8. n \in Cells
  <2> HIDE DEF Cells
  <2> QED BY <1>7
<1> QED BY <1>1, <1>8

\* What the cells of an image should hold.
CellHolds(cell, col, isused, v) ==
    col.type # T.SET => cell.value = IF isused THEN Shown(col, v) ELSE Null
ImageHolds(cells, cols, used, row) ==
    /\ Len(cells) = Len(cols)
    /\ \A i \in 1 .. Len(cols) : CellHolds(cells[i], cols[i], used[i], row[i])

ColumnDone(d, p, bytes, col, isused, v) ==
    /\ d.cur = After(p.cur, bytes)
    /\ CellHolds(d.cells[Len(p.cells) + 1], col, isused, v)

\* parseRowsEvent, value2Cell: one column of an image.
LEMMA ColumnRead ==
    ASSUME NEW e, NEW c, NEW u, NEW cols, NEW used, NEW row, NEW i \in 1 .. Len(cols), NEW p,
           RowOK(cols, used, row), DecimalsOK(cols, row), used[i] \in BOOLEAN,
           isSet(e, u, i - 1) <=> used[i],
           used[i] => (isSet(e, c, i - 1) <=> row[i] = Null),
           At(e, p.cur, Vals(cols, used, row)[i]), NEW d,
           d = Decoded(Present(e, c, u, i), p, CellOf(e, p.cur, cols[i])), IsSequence(p.cells)
    PROVE  ColumnDone(d, p, Vals(cols, used, row)[i], cols[i], used[i], row[i])
<1> DEFINE v == Vals(cols, used, row)[i]
           r == CellOf(e, p.cur, cols[i])
<1>1. v = IF used[i] /\ ~(row[i] = Null) THEN Pack(cols[i], row[i]) ELSE <<>>
  <2>1. i \in DOMAIN cols
    BY DEF RowOK
  <2> QED BY <2>1, Zenon DEF Vals
<1>2. At(e, p.cur, v) /\ d = Decoded(Present(e, c, u, i), p, r)
  OBVIOUS
<1>3. p.cur \in Nat
  BY DEF At
<1> HIDE DEF v, r
<1>4. CASE used[i] /\ row[i] # Null
  <2>1. Present(e, c, u, i)
    BY <1>4 DEF Present
  <2>2. d.cells[Len(p.cells) + 1] = r.cell /\ d.cur = r.cur
    <3> DEFINE here == Present(e, c, u, i)
    <3>1. here /\ d = Decoded(here, p, r) /\ IsSequence(p.cells)
      BY <1>2, <2>1
    <3> HIDE DEF here
    <3>2. Longer(Decoded(here, p, r), p, r.cell, r.cur)
      BY <3>1, OneDecoded, Zenon
    <3> QED BY <3>1, <3>2 DEF Longer
  <2>3. v = Pack(cols[i], row[i])
    BY <1>1, <1>4
  <2>4. /\ ColumnOK(cols[i]) /\ ValueOK(cols[i], row[i])
        /\ cols[i].type = T.NEWDECIMAL => DecimalRead(cols[i], row[i])
    BY <1>4 DEF RowOK, DecimalsOK
  <2>5. At(e, p.cur, Pack(cols[i], row[i]))
    BY <1>2, <2>3, Zenon
  <2>6. /\ r.cur = After(p.cur, Pack(cols[i], row[i]))
        /\ cols[i].type # T.SET => r.cell.value = Shown(cols[i], row[i])
    BY <2>4, <2>5, CellRead DEF r
  <2> QED BY <1>4, <2>2, <2>3, <2>6, Zenon DEF ColumnDone, CellHolds, v
<1>5. CASE ~(used[i] /\ row[i] # Null)
  <2>1. ~Present(e, c, u, i)
    BY <1>5 DEF Present
  <2>2. d.cells[Len(p.cells) + 1] = NoCell /\ d.cur = p.cur
    <3> DEFINE here == Present(e, c, u, i)
    <3>1. ~here /\ d = Decoded(here, p, r) /\ IsSequence(p.cells)
      BY <1>2, <2>1
    <3> HIDE DEF here
    <3>2. Longer(Decoded(here, p, r), p, NoCell, p.cur)
      BY <3>1, OneDecoded, Zenon
    <3> QED BY <3>1, <3>2 DEF Longer
  <2>3. v = <<>>
    BY <1>1, <1>5
  <2>4. d.cur = After(p.cur, v)
    BY <1>3, <2>2, <2>3 DEF After
  <2>5. Shown(cols[i], Null) = Null
    BY DEF Shown
  <2>6. NoCell.value = Null
    BY DEF NoCell
  <2>7. (IF used[i] THEN Shown(cols[i], row[i]) ELSE Null) = Null
    BY <1>5, <2>5
  <2> QED BY <2>2, <2>4, <2>6, <2>7, Zenon DEF ColumnDone, CellHolds, v
<1> QED BY <1>4, <1>5

\* Sequences over one set put together are one over that set.
LEMMA FlattenIn ==
    ASSUME NEW S, NEW s, s \in Seq(Seq(S))
    PROVE  FlattenSeq(s) \in Seq(S)
<1>1. PICK f : Flat(f, s) /\ FlattenSeq(s) = f[Len(s)]
  BY FlattenSteps
<1> DEFINE n == Len(s)
           Good == {i \in 0 .. n : f[i] \in Seq(S)}
<1>2. n \in Nat
  OBVIOUS
<1>3. 0 \in Good
  <2>1. <<>> \in Seq(S) /\ 0 \in 0 .. n
    BY <1>2
  <2>2. f[0] = <<>>
    BY <1>1, Zenon DEF Flat
  <2> QED BY <2>1, <2>2
<1>4. ASSUME NEW i \in 1 .. n, i - 1 \in Good PROVE i \in Good
  <2>1. f[i] = f[i - 1] \o s[i]
    BY <1>1 DEF Flat, Join
  <2>2. s[i] \in Seq(S) /\ f[i - 1] \in Seq(S)
    BY <1>4, ElementOfSeq
  <2>3. f[i - 1] \o s[i] \in Seq(S)
    BY <2>2, ConcatProperties
  <2>4. f[i] \in Seq(S)
    BY <2>1, <2>3, Zenon
  <2>5. i \in 0 .. n
    BY <1>2
  <2> QED BY <2>4, <2>5
<1>5. Good \in SUBSET (0 .. n)
  OBVIOUS
<1>6. Good = 0 .. n
  <2> HIDE DEF Good
  <2> QED BY <1>2, <1>3, <1>4, <1>5, Upwards
<1>7. n \in Good
  <2> HIDE DEF Good
  <2> QED BY <1>2, <1>6
<1> QED BY <1>1, <1>7

\* The bytes of an image: its null bits, then its values.
LEMMA ImageParts ==
    ASSUME NEW cols, NEW used, NEW row, RowOK(cols, used, row)
    PROVE  /\ Image(cols, used, row) = Join(Bitmap(FlattenSeq(Nulls(cols, used, row))),
                                            FlattenSeq(Vals(cols, used, row)))
           /\ Vals(cols, used, row) \in Seq(Octets) /\ Len(Vals(cols, used, row)) = Len(cols)
           /\ Len(FlattenSeq(Nulls(cols, used, row))) \in Nat
           /\ FlattenSeq(Vals(cols, used, row)) \in Octets
           /\ Image(cols, used, row) \in Octets
<1> DEFINE n == Len(cols)
           s == Nulls(cols, used, row)
           v == Vals(cols, used, row)
<1>1. n \in Nat /\ DOMAIN cols = 1 .. n
  BY DEF RowOK
<1>2. v \in Seq(Octets) /\ Len(v) = n
  <2>1. ASSUME NEW i \in 1 .. n
        PROVE  (IF used[i] /\ ~(row[i] = Null) THEN Pack(cols[i], row[i]) ELSE <<>>) \in Octets
    <3>1. CASE row[i] = Null
      <4>1. <<>> \in Octets
        BY DEF Octets
      <4> QED BY <3>1, <4>1
    <3>2. CASE row[i] # Null
      <4>1. ColumnOK(cols[i]) /\ ValueOK(cols[i], row[i])
        BY <3>2 DEF RowOK
      <4>2. Pack(cols[i], row[i]) \in Octets
        BY <4>1, PackAre
      <4>3. <<>> \in Octets
        BY DEF Octets
      <4> QED BY <4>2, <4>3, Zenon
    <3> QED BY <3>1, <3>2
  <2>2. v = [i \in 1 .. n |-> IF used[i] /\ ~(row[i] = Null) THEN Pack(cols[i], row[i]) ELSE <<>>]
    BY <1>1 DEF Vals
  <2> QED BY <1>1, <2>1, <2>2
<1>3. s \in Seq(Seq(BOOLEAN)) /\ Len(s) = n
  <2>1. \A i \in 1 .. n : (IF used[i] THEN <<row[i] = Null>> ELSE <<>>) \in Seq(BOOLEAN)
    <3> TAKE i \in 1 .. n
    <3>1. (row[i] = Null) \in BOOLEAN
      OBVIOUS
    <3>2. \A x \in BOOLEAN : <<x>> \in Seq(BOOLEAN)
      OBVIOUS
    <3>3. <<row[i] = Null>> \in Seq(BOOLEAN)
      BY <3>1, <3>2
    <3>4. <<>> \in Seq(BOOLEAN)
      OBVIOUS
    <3> QED BY <3>3, <3>4, Zenon
  <2>2. s = [i \in 1 .. n |-> IF used[i] THEN <<row[i] = Null>> ELSE <<>>]
    BY <1>1 DEF Nulls
  <2> QED BY <1>1, <2>1, <2>2
<1>4. Image(cols, used, row) = Join(Bitmap(FlattenSeq(s)), FlattenSeq(v))
  BY Zenon DEF Image, Join, Nulls, Vals
<1> HIDE DEF s, v
<1>5. Len(FlattenSeq(s)) \in Nat
  <2>1. FlattenSeq(s) \in Seq(BOOLEAN)
    BY <1>3, FlattenIn
  <2> QED BY <2>1
<1>6. FlattenSeq(v) \in Octets
  <2>1. PICK f : Flat(f, v) /\ FlattenSeq(v) = f[Len(v)]
    <3>1. v \in Seq(Seq(0 .. 255))
      BY <1>2 DEF Octets
    <3> QED BY <3>1, FlattenSteps
  <2>2. f[Len(v)] \in Octets
    <3>1. \A i \in 0 .. Len(v) : f[i] \in Octets
      BY <1>2, <2>1, FlatAt
    <3> QED BY <1>1, <1>2, <3>1
  <2> QED BY <2>1, <2>2
<1>7. Bitmap(FlattenSeq(s)) \in Octets
  BY <1>5, BitmapAre
<1>8. Join(Bitmap(FlattenSeq(s)), FlattenSeq(v)) \in Octets
  BY <1>6, <1>7, Joined
<1> QED BY <1>2, <1>4, <1>5, <1>6, <1>8 DEF s, v

\* An event's types and metadata are those of a table.
FieldsAre(types, meta, cols) ==
    /\ Len(types) = Len(cols)
    /\ \A i \in 1 .. Len(cols) : types[i] = FieldType(cols[i]) /\ meta[i] = DeclaredMeta(cols[i])

\* parseRowsEvent: an image is read as it was written, to its last byte.
LEMMA ImageRead ==
    ASSUME NEW e, NEW o, NEW u, NEW cols, NEW used, NEW row, NEW types, NEW meta,
           RowOK(cols, used, row), NullsPlaced(cols, used, row), DecimalsOK(cols, row),
           FieldsAre(types, meta, cols),
           At(e, o, Image(cols, used, row)), At(e, u, Bitmap(used))
    PROVE  /\ DecodeImage(e, o, types, meta, u).cur = After(o, Image(cols, used, row))
           /\ ImageHolds(DecodeImage(e, o, types, meta, u).cells, cols, used, row)
<1> DEFINE n == Len(cols)
           bits == Bitmap(FlattenSeq(Nulls(cols, used, row)))
           v == Vals(cols, used, row)
           c == o + BitmapLen(n)
<1>1. n \in Nat /\ \A i \in 1 .. n : used[i] \in BOOLEAN
  BY ElementOfSeq DEF RowOK
<1>2. /\ Image(cols, used, row) = Join(bits, FlattenSeq(v))
      /\ v \in Seq(Octets) /\ Len(v) = n
      /\ bits \in Octets /\ FlattenSeq(v) \in Octets
  BY ImageParts, BitmapAre
<1>3. /\ At(e, o, bits) /\ At(e, After(o, bits), FlattenSeq(v))
      /\ After(After(o, bits), FlattenSeq(v)) = After(o, Image(cols, used, row))
  <2>1. At(e, o, Join(bits, FlattenSeq(v)))
    BY <1>2
  <2> QED BY <1>2, <2>1, AtJoin
<1>4. /\ Len(bits) = BitmapLen(n)
      /\ \A i \in 1 .. n : used[i] => (isSet(e, o, i - 1) <=> row[i] = Null)
  BY <1>3, NullsRead
<1>5. After(o, bits) = c /\ o \in Nat /\ c \in Nat
  <2>1. o \in Nat /\ After(o, bits) \in Nat
    BY <1>3 DEF At
  <2>2. After(o, bits) = c
    BY <1>4 DEF After
  <2> QED BY <2>1, <2>2
<1>6. \A i \in 1 .. n : isSet(e, u, i - 1) <=> used[i]
  <2> TAKE i \in 1 .. n
  <2>1. i - 1 \in Nat /\ (i - 1) \div 8 < BitmapLen(n) /\ i - 1 + 1 = i /\ i <= n
    <3>1. \A m \in Nat, k \in Nat : k <= m /\ k > 0 => (k - 1) \div 8 < (m + 7) \div 8
      OBVIOUS
    <3> QED BY <1>1, <3>1 DEF BitmapLen
  <2>2. Len(used) = n
    BY DEF RowOK
  <2>3. isSet(e, u, i - 1) <=> i - 1 + 1 <= Len(used) /\ used[i - 1 + 1]
    BY <1>1, <2>1, <2>2, BitRead
  <2> QED BY <2>1, <2>2, <2>3
<1>7. PICK f : Flat(f, v) /\ FlattenSeq(v) = f[Len(v)]
  <2>1. v \in Seq(Seq(0 .. 255))
    BY <1>2 DEF Octets
  <2> QED BY <2>1, FlattenSteps
<1>8. /\ \A i \in 0 .. n : f[i] \in Octets
      /\ \A i \in 1 .. n : At(f[n], Len(f[i - 1]), v[i])
      /\ \A i \in 1 .. n : Len(f[i]) = Len(f[i - 1]) + Len(v[i])
  <2>0. Len(v) = n /\ v \in Seq(Octets) /\ Flat(f, v)
    BY <1>2, <1>7
  <2> HIDE DEF v, n
  <2>1. /\ \A i \in 0 .. Len(v) : f[i] \in Octets
        /\ \A i \in 1 .. Len(v) : At(f[Len(v)], Len(f[i - 1]), v[i])
        /\ \A i \in 1 .. Len(v) : Len(f[i]) = Len(f[i - 1]) + Len(v[i])
    BY <2>0, FlatAt
  <2> QED BY <2>0, <2>1
<1>9. PICK after : /\ Columns(after, e, o, types, meta, u)
                   /\ DecodeImage(e, o, types, meta, u) = after[Len(types)]
  BY <1>1, ImageSteps DEF FieldsAre
<1>10. after[0] = [cur |-> c, cells |-> <<>>]
  BY <1>9 DEF Columns, FieldsAre
<1>11. ASSUME NEW i \in 1 .. n
       PROVE  after[i] = Decoded(Present(e, o, u, i), after[i - 1],
                                 CellOf(e, after[i - 1].cur, cols[i]))
  <2>1. after[i] = Decoded(Present(e, o, u, i), after[i - 1],
                            value2Cell(e, after[i - 1].cur, types[i], meta[i]))
    BY <1>9 DEF Columns, FieldsAre
  <2>2. types[i] = FieldType(cols[i]) /\ meta[i] = DeclaredMeta(cols[i])
    BY DEF FieldsAre
  <2> QED BY <2>1, <2>2, Zenon DEF CellOf
<1>12. At(e, c, f[n])
  BY <1>2, <1>3, <1>5, <1>7
<1>13. FlattenSeq(v) = f[n] /\ Len(types) = n
  BY <1>2, <1>7 DEF FieldsAre
<1>14. RowOK(cols, used, row) /\ DecimalsOK(cols, row)
  OBVIOUS
<1> DEFINE Good == {i \in 0 .. n : /\ IsSequence(after[i].cells) /\ Len(after[i].cells) = i
                                   /\ after[i].cur = c + Len(f[i])
                                   /\ \A j \in 1 .. i :
                                        CellHolds(after[i].cells[j], cols[j], used[j], row[j])}
<1> HIDE DEF bits, c, n
<1>15. 0 \in Good
  <2>1. f[0] = <<>>
    BY <1>7 DEF Flat
  <2>2. Len(<<>>) = 0 /\ IsSequence(<<>>) /\ 0 \in 0 .. n
    BY <1>1, NoCells
  <2>3. \A j \in 1 .. 0 : FALSE
    OBVIOUS
  <2>4. after[0].cells = <<>> /\ after[0].cur = c
    BY <1>10
  <2>5. after[0].cur = c + Len(f[0])
    BY <1>5, <2>1, <2>2, <2>4
  <2> QED BY <2>2, <2>3, <2>4, <2>5
<1>16. ASSUME NEW i \in 1 .. n, i - 1 \in Good PROVE i \in Good
  <2> DEFINE p == after[i - 1]
             d == after[i]
             r == CellOf(e, p.cur, cols[i])
             here == Present(e, o, u, i)
  <2>1. /\ IsSequence(p.cells) /\ Len(p.cells) = i - 1 /\ p.cur = c + Len(f[i - 1])
        /\ \A j \in 1 .. i - 1 : CellHolds(p.cells[j], cols[j], used[j], row[j])
    BY <1>16
  <2>2. d = Decoded(here, p, r)
    BY <1>11
  <2>3. At(e, p.cur, v[i])
    <3>1. At(f[n], Len(f[i - 1]), v[i])
      BY <1>8
    <3>2. At(e, c + Len(f[i - 1]), v[i])
      BY <1>12, <3>1, AtWithin
    <3> QED BY <2>1, <3>2, Zenon
  <2>4. used[i] \in BOOLEAN /\ (isSet(e, u, i - 1) <=> used[i])
        /\ (used[i] => (isSet(e, o, i - 1) <=> row[i] = Null))
    BY <1>1, <1>4, <1>6
  <2>5. /\ d.cur = After(p.cur, Vals(cols, used, row)[i])
        /\ CellHolds(d.cells[Len(p.cells) + 1], cols[i], used[i], row[i])
    <3>1. i \in 1 .. Len(cols)
      BY DEF n
    <3>2. At(e, p.cur, Vals(cols, used, row)[i])
      BY <2>3, Zenon DEF v
    <3>3. d = Decoded(Present(e, o, u, i), p, CellOf(e, p.cur, cols[i]))
      BY <2>2
    <3> HIDE DEF d, p
    <3>4. IsSequence(p.cells)
      BY <2>1
    <3>5. ColumnDone(d, p, Vals(cols, used, row)[i], cols[i], used[i], row[i])
      BY <1>14, <2>4, <3>1, <3>2, <3>3, <3>4, ColumnRead, Zenon
    <3> QED BY <3>5, Zenon DEF ColumnDone
  <2>6. \E cell, cursor : Longer(d, p, cell, cursor)
    <3> HIDE DEF d, p, r, here
    <3>1. CASE here
      <4>1. Longer(Decoded(here, p, r), p, r.cell, r.cur)
        BY <2>1, <3>1, OneDecoded, Zenon
      <4> QED BY <2>2, <4>1
    <3>2. CASE ~here
      <4>1. Longer(Decoded(here, p, r), p, NoCell, p.cur)
        BY <2>1, <3>2, OneDecoded, Zenon
      <4> QED BY <2>2, <4>1
    <3> QED BY <3>1, <3>2
  <2>7. /\ IsSequence(d.cells) /\ Len(d.cells) = Len(p.cells) + 1
        /\ \A j \in 1 .. Len(p.cells) : d.cells[j] = p.cells[j]
    <3> HIDE DEF d, p
    <3> QED BY <2>6 DEF Longer
  <2>8. d.cur = c + Len(f[i])
    <3>1. Len(f[i]) = Len(f[i - 1]) + Len(v[i])
      BY <1>8
    <3>2. i - 1 \in 0 .. n
      BY <1>1
    <3>3. Len(f[i - 1]) \in Nat /\ Len(v[i]) \in Nat
      <4>1. f[i - 1] \in Octets /\ v[i] \in Octets
        BY <1>2, <1>8, <3>2, ElementOfSeq
      <4> QED BY <4>1 DEF Octets
    <3>4. d.cur = p.cur + Len(v[i])
      BY <2>5 DEF After
    <3> DEFINE w == v[i]
               g == f[i]
               h == f[i - 1]
    <3>5. /\ Len(g) = Len(h) + Len(w) /\ Len(h) \in Nat /\ Len(w) \in Nat
          /\ p.cur = c + Len(h) /\ d.cur = p.cur + Len(w)
      BY <2>1, <3>1, <3>3, <3>4
    <3> HIDE DEF d, p, w, g, h
    <3>6. d.cur = c + Len(g)
      BY <1>5, <3>5
    <3> QED BY <3>6 DEF g
  <2>9. ASSUME NEW j \in 1 .. i PROVE CellHolds(d.cells[j], cols[j], used[j], row[j])
    <3> HIDE DEF d, p
    <3>1. CASE j = i
      <4>1. Len(p.cells) + 1 = i
        BY <2>1
      <4> QED BY <2>5, <3>1, <4>1
    <3>2. CASE j # i
      <4>1. j \in 1 .. i - 1
        BY <3>2
      <4> QED BY <2>1, <2>7, <4>1
    <3> QED BY <3>1, <3>2
  <2>0. i \in 0 .. n /\ Len(d.cells) = i
    <3> HIDE DEF d, p
    <3> QED BY <1>1, <2>1, <2>7
  <2> QED BY <2>0, <2>7, <2>8, <2>9
<1>17. Good \in SUBSET (0 .. n)
  OBVIOUS
<1>18. Good = 0 .. n
  <2> HIDE DEF Good
  <2> QED BY <1>1, <1>15, <1>16, <1>17, Upwards
<1>19. n \in Good
  <2> HIDE DEF Good
  <2> QED BY <1>1, <1>18
<1>20. after[n].cur = After(c, FlattenSeq(v))
  BY <1>13, <1>19 DEF After
<1>21. ImageHolds(after[n].cells, cols, used, row)
  BY <1>19 DEF ImageHolds, n
<1> QED BY <1>3, <1>5, <1>9, <1>13, <1>20, <1>21

(* The header of an event. *)

\* The header of an event whose body has n bytes.
Header(type, n) ==
    Join(Join(Join(<<1, 0, 0, 0, TypeCode[type], 1, 0, 0, 0>>, LittleBytes(19 + n, 4)),
              LittleBytes(500, 4)), <<0, 0>>)
EventTypes == {"FDE", "TABLE_MAP", "WRITE_ROWS", "UPDATE_ROWS", "DELETE_ROWS"}

\* The length of what was joined.
LEMMA JoinedLen ==
    ASSUME NEW s, NEW t, s \in Octets, t \in Octets
    PROVE  Join(s, t) \in Octets /\ Len(Join(s, t)) = Len(s) + Len(t)
BY Joined

\* A header has nineteen bytes and behind the ninth the length of the event.
LEMMA HeaderIs ==
    ASSUME NEW type \in EventTypes, NEW n \in Nat
    PROVE  /\ Header(type, n) \in Octets /\ Len(Header(type, n)) = 19
           /\ At(Header(type, n), 9, LittleBytes(19 + n, 4))
<1> DEFINE a == <<1, 0, 0, 0, TypeCode[type], 1, 0, 0, 0>>
           b == LittleBytes(19 + n, 4)
           c == LittleBytes(500, 4)
           d == <<0, 0>>
<1>1. a \in Octets /\ Len(a) = 9
  <2>1. TypeCode[type] \in 0 .. 255
    BY DEF TypeCode, EventTypes
  <2> QED BY <2>1 DEF Octets
<1>2. b \in Octets /\ Len(b) = 4
  <2>1. 19 + n \in Nat /\ 4 \in Nat
    OBVIOUS
  <2> QED BY <2>1, LittleBytesAre
<1>3. c \in Octets /\ Len(c) = 4
  <2>1. 500 \in Nat /\ 4 \in Nat
    OBVIOUS
  <2> QED BY <2>1, LittleBytesAre, ZenonT(60)
<1>4. d \in Octets /\ Len(d) = 2
  BY DEF Octets
<1>5. Header(type, n) = Join(Join(Join(a, b), c), d)
  BY DEF Header
<1> HIDE DEF a, b, c, d
<1>6. Join(a, b) \in Octets /\ Len(Join(a, b)) = 13
  <2>1. Join(a, b) \in Octets /\ Len(Join(a, b)) = 9 + 4
    BY <1>1, <1>2, JoinedLen
  <2> QED BY <2>1
<1>7. Join(Join(a, b), c) \in Octets /\ Len(Join(Join(a, b), c)) = 17
  <2>1. Join(Join(a, b), c) \in Octets /\ Len(Join(Join(a, b), c)) = 13 + 4
    BY <1>3, <1>6, JoinedLen
  <2> QED BY <2>1
<1>8. Header(type, n) \in Octets /\ Len(Header(type, n)) = 19
  <2>1. Join(Join(Join(a, b), c), d) \in Octets
    BY <1>4, <1>7, JoinedLen
  <2>2. Len(Join(Join(Join(a, b), c), d)) = 17 + 2
    BY <1>4, <1>7, JoinedLen
  <2> QED BY <1>5, <2>1, <2>2
<1>9. At(Header(type, n), 0, Join(Join(a, b), c))
  BY <1>4, <1>5, <1>7, AtParts
<1>10. At(Header(type, n), 0, Join(a, b))
  BY <1>3, <1>6, <1>9, AtJoin
<1>11. At(Header(type, n), After(0, a), b)
  BY <1>1, <1>2, <1>10, AtJoin
<1>12. After(0, a) = 9
  BY <1>1 DEF After
<1> QED BY <1>8, <1>11, <1>12 DEF b

\* An event is a header and its body.
LEMMA Headed ==
    ASSUME NEW type \in EventTypes, NEW body, body \in Octets
    PROVE  /\ WithHeader(type, body) \in Octets
           /\ Len(WithHeader(type, body)) = 19 + Len(body)
           /\ At(WithHeader(type, body), 19, body)
           /\ At(WithHeader(type, body), 9, LittleBytes(19 + Len(body), 4))
<1> DEFINE n == Len(body)
           h == Header(type, n)
           e == WithHeader(type, body)
<1>1. n \in Nat
  BY OctetsAre
<1>2. h \in Octets /\ Len(h) = 19 /\ At(h, 9, LittleBytes(19 + n, 4))
  BY <1>1, HeaderIs
<1>3. e = Join(h, body)
  BY Zenon DEF WithHeader, Header, Join
<1> HIDE DEF h, e
<1>4. e \in Octets /\ Len(e) = 19 + n
  <2>1. Join(h, body) \in Octets /\ Len(Join(h, body)) = 19 + n
    BY <1>2, JoinedLen
  <2> QED BY <1>3, <2>1
<1>5. At(e, 0, h) /\ At(e, 19, body)
  BY <1>2, <1>3, AtParts
<1>6. At(e, 0 + 9, LittleBytes(19 + n, 4))
  BY <1>2, <1>5, AtWithin
<1>7. 0 + 9 = 9
  OBVIOUS
<1> QED BY <1>4, <1>5, <1>6, <1>7 DEF e, n

\* parseFDE: the length of a header stands at byte 75.
LEMMA HeaderLengthRead ==
    ASSUME NEW n \in 0 .. 255
    PROVE  Byte(FormatDescription(n), 75) = 19
<1> DEFINE a == <<4, 0>>
           b == [i \in 1 .. 54 |-> 53]
           c == <<19>>
           d == [i \in 1 .. n |-> i]
           e == FormatDescription(n)
<1>1. a \in Octets /\ Len(a) = 2
  BY DEF Octets
<1>2. b \in Octets /\ Len(b) = 54
  BY DEF Octets
<1>3. c \in Octets /\ Len(c) = 1 /\ c[1] = 19
  BY DEF Octets
<1>4. d \in Octets
  BY DEF Octets
<1>5. e = WithHeader("FDE", Join(Join(Join(a, b), c), d))
  BY Zenon DEF FormatDescription, Join
<1> HIDE DEF a, b, c, d, e
<1>6. Join(a, b) \in Octets /\ Len(Join(a, b)) = 56
  <2>1. Join(a, b) \in Octets /\ Len(Join(a, b)) = 2 + 54
    BY <1>1, <1>2, JoinedLen, ZenonT(60)
  <2> QED BY <2>1
<1>7. Join(Join(a, b), c) \in Octets /\ Join(Join(Join(a, b), c), d) \in Octets
  BY <1>3, <1>4, <1>6, Joined
<1>8. At(e, 19, Join(Join(Join(a, b), c), d))
  BY <1>5, <1>7, Headed DEF EventTypes
<1>9. At(e, 19, Join(Join(a, b), c))
  BY <1>4, <1>7, <1>8, AtJoin
<1>10. At(e, After(19, Join(a, b)), c)
  BY <1>3, <1>6, <1>9, AtJoin
<1>11. After(19, Join(a, b)) = 75
  BY <1>6 DEF After
<1>12. At(e, 75, c)
  BY <1>10, <1>11
<1>13. Byte(e, 75) = c[1]
  BY <1>3, <1>12, FirstAt
<1> QED BY <1>3, <1>13 DEF e

(* The description of a table. *)

TypesOf(c)  == [i \in DOMAIN c |-> FieldType(c[i])]
MetasOf(c)  == [i \in DOMAIN c |-> FieldMeta(c[i])]
NullsOf(c)  == [i \in DOMAIN c |-> c[i].null]
NamesOf     == <<1, 0, 1, 100, 0, 1, 116, 0>>

\* The types of a table's fields are bytes.
LEMMA TypesOfAre ==
    ASSUME NEW c, TableOK(c)
    PROVE  TypesOf(c) \in Octets /\ Len(TypesOf(c)) = Len(c)
<1>1. Len(c) \in Nat /\ DOMAIN c = 1 .. Len(c)
  BY DEF TableOK
<1>2. ASSUME NEW i \in 1 .. Len(c) PROVE FieldType(c[i]) \in 0 .. 255
  <2>1. ColumnOK(c[i])
    BY <1>1 DEF TableOK
  <2>2. c[i].type \in {1, 2, 3, 4, 5, 7, 8, 9, 10, 11, 12, 13, 15, 16, 246, 247, 248, 252, 254}
    BY <2>1, ColumnTypes
  <2>3. FieldType(c[i]) \in {c[i].type, 254}
    BY TypesAre DEF FieldType
  <2> DEFINE x == c[i].type
             y == FieldType(c[i])
  <2> HIDE DEF x, y
  <2>4. x \in {1, 2, 3, 4, 5, 7, 8, 9, 10, 11, 12, 13, 15, 16, 246, 247, 248, 252, 254}
        /\ y \in {x, 254}
    BY <2>2, <2>3 DEF x, y
  <2>5. y \in 0 .. 255
    BY <2>4
  <2> QED BY <2>5 DEF y
<1>3. TypesOf(c) = [i \in 1 .. Len(c) |-> FieldType(c[i])]
  BY <1>1 DEF TypesOf
<1> HIDE DEF TypesOf
<1> QED BY <1>1, <1>2, <1>3 DEF Octets

\* What stands for their metadata, each of two bytes at most.
LEMMA MetasOfAre ==
    ASSUME NEW c, TableOK(c)
    PROVE  /\ MetasOf(c) \in Seq(Octets)
           /\ MetasAre(MetasOf(c), TypesOf(c), [i \in DOMAIN c |-> DeclaredMeta(c[i])])
           /\ FlattenSeq(MetasOf(c)) \in Octets /\ Len(FlattenSeq(MetasOf(c))) < FourBytes
<1> DEFINE n == Len(c)
           b == MetasOf(c)
           t == TypesOf(c)
           m == [i \in DOMAIN c |-> DeclaredMeta(c[i])]
<1>1. n \in 1 .. MostFields /\ n \in Nat /\ n > 0 /\ DOMAIN c = 1 .. n
  BY DEF TableOK
<1>2. ASSUME NEW i \in 1 .. n
      PROVE  MetaIs(b[i], t[i], m[i]) /\ b[i] \in Octets /\ Len(b[i]) \in 0 .. 2
  <2>1. ColumnOK(c[i])
    BY <1>1 DEF TableOK
  <2>2. MetaIs(FieldMeta(c[i]), FieldType(c[i]), DeclaredMeta(c[i]))
    BY <2>1, MetaWritten
  <2>3. b[i] = FieldMeta(c[i]) /\ t[i] = FieldType(c[i]) /\ m[i] = DeclaredMeta(c[i])
    BY <1>1 DEF MetasOf, TypesOf
  <2>4. MetaIs(b[i], t[i], m[i])
    BY <2>2, <2>3, Zenon
  <2> HIDE DEF b, t, m
  <2>5. b[i] \in Octets /\ Len(b[i]) = MetaWidth(t[i])
    BY <2>4, MetaRead
  <2>6. MetaWidth(t[i]) \in 0 .. 2
    BY DEF MetaWidth
  <2> QED BY <2>4, <2>5, <2>6
<1>3. b \in Seq(Octets) /\ Len(b) = n
  <2>1. b = [i \in 1 .. n |-> FieldMeta(c[i])]
    BY <1>1 DEF MetasOf
  <2>2. \A i \in 1 .. n : FieldMeta(c[i]) \in Octets
    <3> TAKE i \in 1 .. n
    <3>1. b[i] = FieldMeta(c[i])
      BY <1>1 DEF MetasOf
    <3>2. b[i] \in Octets
      BY <1>2
    <3> QED BY <3>1, <3>2
  <2> QED BY <1>1, <2>1, <2>2
<1>4. Len(t) = n /\ DOMAIN t = 1 .. n
  BY <1>1, TypesOfAre DEF TypesOf
<1>5. MetasAre(b, t, m)
  <2> HIDE DEF b, t, m
  <2> QED BY <1>1, <1>2, <1>3, <1>4 DEF MetasAre
<1>6. PICK f : Flat(f, b) /\ FlattenSeq(b) = f[Len(b)]
  <2>1. b \in Seq(Seq(0 .. 255))
    BY <1>3 DEF Octets
  <2> QED BY <2>1, FlattenSteps
<1> HIDE DEF b, t, m
<1>7. /\ \A i \in 0 .. n : f[i] \in Octets
      /\ \A i \in 1 .. n : Len(f[i]) = Len(f[i - 1]) + Len(b[i])
  <2>1. /\ \A i \in 0 .. Len(b) : f[i] \in Octets
        /\ \A i \in 1 .. Len(b) : Len(f[i]) = Len(f[i - 1]) + Len(b[i])
    BY <1>3, <1>6, FlatAt
  <2> QED BY <1>3, <2>1
<1> DEFINE Good == {i \in 0 .. n : Len(f[i]) <= 2 * i}
<1> HIDE DEF n
<1>8. 0 \in Good
  <2>1. f[0] = <<>>
    BY <1>6 DEF Flat
  <2>2. Len(<<>>) = 0 /\ 0 \in 0 .. n
    BY <1>1
  <2> QED BY <2>1, <2>2
<1>9. ASSUME NEW i \in 1 .. n, i - 1 \in Good PROVE i \in Good
  <2>1. Len(f[i - 1]) <= 2 * (i - 1) /\ i - 1 \in 0 .. n
    BY <1>9
  <2>2. Len(f[i - 1]) \in Nat
    BY <1>7, <2>1, OctetsAre
  <2>3. Len(f[i]) = Len(f[i - 1]) + Len(b[i]) /\ Len(b[i]) \in 0 .. 2
    BY <1>2, <1>7
  <2>4. \A x \in Nat, y \in 0 .. 2, z \in 1 .. n : x <= 2 * (z - 1) => x + y <= 2 * z
    BY <1>1
  <2>5. Len(f[i]) <= 2 * i
    BY <2>1, <2>2, <2>3, <2>4
  <2>6. i \in 0 .. n
    BY <1>1
  <2> QED BY <2>5, <2>6
<1>10. Good \in SUBSET (0 .. n)
  OBVIOUS
<1>11. Good = 0 .. n
  <2> HIDE DEF Good
  <2> QED BY <1>1, <1>8, <1>9, <1>10, Upwards
<1>12. n \in Good
  <2> HIDE DEF Good
  <2> QED BY <1>1, <1>11
<1>13. FlattenSeq(b) \in Octets /\ Len(FlattenSeq(b)) <= 2 * n
  BY <1>1, <1>3, <1>6, <1>7, <1>12
<1>14. Len(FlattenSeq(b)) < FourBytes
  <2>1. Len(FlattenSeq(b)) \in Nat
    BY <1>13, OctetsAre
  <2> HIDE DEF n
  <2> QED BY <1>1, <1>13, <2>1, SMTT(30) DEF FourBytes, MostFields
<1> QED BY <1>3, <1>5, <1>13, <1>14 DEF b, t, m

\* The parts of a table's description.
LEMMA DescribedIs ==
    ASSUME NEW c, TableOK(c), NEW a, NEW l, NEW t, NEW k, NEW m, NEW b,
           a = NamesOf, l = CodedLength(Len(c)), t = TypesOf(c),
           m = FlattenSeq(MetasOf(c)), k = CodedLength(Len(m)), b = Bitmap(NullsOf(c))
    PROVE  /\ Described(c) = Join(Join(Join(Join(Join(a, l), t), k), m), b)
           /\ a \in Octets /\ l \in Octets /\ t \in Octets /\ k \in Octets /\ m \in Octets
           /\ b \in Octets
<1>1. Len(c) \in Nat /\ DOMAIN c = 1 .. Len(c)
  BY DEF TableOK
<1>2. Described(c) = Join(Join(Join(Join(Join(a, l), t), k), m), b)
  BY Zenon DEF Described, Join, NamesOf, TypesOf, MetasOf, NullsOf
<1>3. a \in Octets
  BY DEF NamesOf, Octets
<1>4. l \in Octets
  BY <1>1, CodedAre
<1>5. t \in Octets
  BY TypesOfAre
<1>6. m \in Octets
  BY MetasOfAre
<1>7. k \in Octets
  <2>1. Len(m) \in Nat
    BY <1>6, OctetsAre
  <2> QED BY <2>1, CodedAre
<1>8. b \in Octets
  <2> DEFINE s == NullsOf(c)
  <2>1. Len(s) \in Nat
    BY <1>1 DEF NullsOf
  <2> HIDE DEF s
  <2>2. Bitmap(s) \in Octets
    BY <2>1, BitmapAre
  <2> QED BY <2>2 DEF s
<1> QED BY <1>2, <1>3, <1>4, <1>5, <1>6, <1>7, <1>8

\* The bytes before the count of the fields: no flags, names of one letter.
LEMMA NamesAre ==
    ASSUME NEW e, At(e, 25, NamesOf)
    PROVE  Byte(e, 27) = 1 /\ Byte(e, 30) = 1 /\ After(25, NamesOf) = 33
<1> DEFINE a == NamesOf
<1>1. Len(a) = 8 /\ a[3] = 1 /\ a[6] = 1
  BY DEF NamesOf
<1>2. At(e, 25, a)
  OBVIOUS
<1> HIDE DEF a
<1>3. \A i \in 1 .. Len(a) : Byte(e, 25 + i - 1) = a[i]
  BY <1>2, BytesAt
<1>4. 3 \in 1 .. 8 /\ 6 \in 1 .. 8 /\ 25 + 3 - 1 = 27 /\ 25 + 6 - 1 = 30 /\ 25 + 8 = 33
  OBVIOUS
<1>5. Byte(e, 25 + 3 - 1) = a[3] /\ Byte(e, 25 + 6 - 1) = a[6]
  BY <1>1, <1>3, <1>4
<1> QED BY <1>1, <1>4, <1>5 DEF After, a

\* The places that parseTableMapEvent comes to, and what it finds there.
TableMapIs(e, id, c, k, m) ==
    /\ e \in Octets /\ ReadUint(e, 19, 6) = id
    /\ Byte(e, 27) = 1 /\ Byte(e, 30) = 1
    /\ k \in Nat /\ m \in Nat
    /\ decodeint(e, 33) = [v |-> Len(c), cur |-> k] /\ Bytes(e, k, Len(c)) = TypesOf(c)
    /\ decodeint(e, k + Len(c)).cur = m
    /\ decodeMetadata(TypesOf(c), e, m) = [i \in DOMAIN c |-> DeclaredMeta(c[i])]

\* parseTableMapEvent: the number, the types and the metadata of a table.
LEMMA TableMapRead ==
    ASSUME NEW c, TableOK(c), NEW id \in Nat, Fits(id, 6)
    PROVE  \E k, m : TableMapIs(TableMap(id, c), id, c, k, m)
<1> DEFINE e == TableMap(id, c)
           a == NamesOf
           l == CodedLength(Len(c))
           t == TypesOf(c)
           s == FlattenSeq(MetasOf(c))
           q == CodedLength(Len(s))
           b == Bitmap(NullsOf(c))
           i6 == LittleBytes(id, 6)
           j1 == Join(a, l)
           j2 == Join(j1, t)
           j3 == Join(j2, q)
           j4 == Join(j3, s)
           j5 == Join(j4, b)
           k == After(25, j1)
           m == After(25, j3)
<1>1. /\ Described(c) = j5 /\ a \in Octets /\ l \in Octets /\ t \in Octets
      /\ q \in Octets /\ s \in Octets /\ b \in Octets
  BY DescribedIs
<1>2. i6 \in Octets /\ Len(i6) = 6
  BY LittleBytesAre
<1>3. Len(c) \in Nat /\ Len(c) < FourBytes /\ Len(t) = Len(c) /\ Len(s) < FourBytes
      /\ Len(s) \in Nat
  <2>1. Len(c) \in 1 .. MostFields
    BY DEF TableOK
  <2>2. Len(c) \in Nat /\ Len(c) < FourBytes
    <3>1. \A x \in 1 .. MostFields : x \in Nat /\ x < FourBytes
      BY SMT DEF FourBytes, MostFields
    <3> QED BY <2>1, <3>1, Zenon
  <2>3. Len(t) = Len(c)
    BY TypesOfAre
  <2>4. Len(s) < FourBytes
    BY MetasOfAre
  <2>5. Len(s) \in Nat
    BY <1>1, OctetsAre
  <2> QED BY <2>2, <2>3, <2>4, <2>5
<1>4. MetasOf(c) \in Seq(Octets)
      /\ MetasAre(MetasOf(c), t, [i \in DOMAIN c |-> DeclaredMeta(c[i])])
  BY MetasOfAre
<1>5. e = WithHeader("TABLE_MAP", Join(i6, j5))
  BY <1>1, Zenon DEF TableMap, Join
<1>6. At(e, 25, a) => Byte(e, 27) = 1 /\ Byte(e, 30) = 1 /\ After(25, a) = 33
  BY NamesAre
<1>7. \A x : At(e, x, s) => decodeMetadata(t, e, x) = [i \in DOMAIN t |-> DeclaredMeta(c[i])]
  <2> DEFINE metas == [i \in DOMAIN c |-> DeclaredMeta(c[i])]
  <2>1. ASSUME NEW x, At(e, x, s)
        PROVE  decodeMetadata(t, e, x) = [i \in DOMAIN t |-> metas[i]]
    <3> HIDE DEF e, metas
    <3>1. MetasAre(MetasOf(c), t, metas)
      BY <1>4 DEF metas
    <3> QED BY <1>4, <2>1, <3>1, MetadataRead
  <2>2. DOMAIN t = DOMAIN c
    BY DEF TypesOf
  <2>3. [i \in DOMAIN t |-> metas[i]] = [i \in DOMAIN t |-> DeclaredMeta(c[i])]
    BY <2>2
  <2> HIDE DEF e, metas
  <2> QED BY <2>1, <2>3
<1>8. DOMAIN t = DOMAIN c
  BY DEF TypesOf
<1>9. \A x : At(e, x, i6) => ReadUint(e, x, 6) = id
  <2> HIDE DEF e
  <2> QED BY UintAt
<1>10. /\ \A x : At(e, x, l) => decodeint(e, x) = [v |-> Len(c), cur |-> After(x, l)]
       /\ \A x : At(e, x, q) => decodeint(e, x) = [v |-> Len(s), cur |-> After(x, q)]
  <2> HIDE DEF e, s
  <2> QED BY <1>3, LengthRead
<1> HIDE DEF e, a, l, t, q, s, b, i6
<1>11. j1 \in Octets /\ j2 \in Octets /\ j3 \in Octets /\ j4 \in Octets /\ j5 \in Octets
  <2>1. j1 \in Octets
    BY <1>1, JoinedLen
  <2> HIDE DEF j1
  <2>2. j2 \in Octets
    BY <1>1, <2>1, JoinedLen
  <2> HIDE DEF j2
  <2>3. j3 \in Octets
    BY <1>1, <2>2, JoinedLen
  <2> HIDE DEF j3
  <2>4. j4 \in Octets
    BY <1>1, <2>3, JoinedLen
  <2> HIDE DEF j4
  <2>5. j5 \in Octets
    BY <1>1, <2>4, JoinedLen
  <2> QED BY <2>1, <2>2, <2>3, <2>4, <2>5
<1>12. e \in Octets /\ At(e, 19, Join(i6, j5))
  <2> HIDE DEF j5
  <2>1. Join(i6, j5) \in Octets
    BY <1>2, <1>11, JoinedLen
  <2> QED BY <1>5, <2>1, Headed DEF EventTypes
<1>13. At(e, 19, i6) /\ At(e, 25, j5)
  <2> HIDE DEF j5
  <2>1. At(e, 19, i6) /\ At(e, After(19, i6), j5)
    BY <1>2, <1>11, <1>12, AtJoin
  <2>2. After(19, i6) = 25
    BY <1>2 DEF After
  <2> QED BY <2>1, <2>2
<1>14. At(e, 25, j4)
  <2> HIDE DEF j4
  <2> QED BY <1>1, <1>11, <1>13, AtJoin
<1>15. At(e, 25, j3) /\ At(e, m, s)
  <2> HIDE DEF j3
  <2> QED BY <1>1, <1>11, <1>14, AtJoin
<1>16. At(e, 25, j2) /\ At(e, After(25, j2), q) /\ After(After(25, j2), q) = m
  <2> HIDE DEF j2
  <2> QED BY <1>1, <1>11, <1>15, AtJoin
<1>17. At(e, 25, j1) /\ At(e, k, t) /\ After(k, t) = After(25, j2)
  <2> HIDE DEF j1
  <2> QED BY <1>1, <1>11, <1>16, AtJoin
<1>18. At(e, 25, a) /\ At(e, After(25, a), l) /\ After(After(25, a), l) = k
  BY <1>1, <1>17, AtJoin
<1> HIDE DEF j1, j2, j3, j4, j5
<1>19. k \in Nat /\ m \in Nat
  BY <1>15, <1>17, Zenon DEF At
<1> HIDE DEF k, m
<1>20. decodeint(e, 33) = [v |-> Len(c), cur |-> k]
  BY <1>6, <1>10, <1>18
<1>21. Bytes(e, k, Len(c)) = t
  <2>1. Bytes(e, k, Len(t)) = t
    BY <1>17, BytesAt
  <2> QED BY <1>3, <2>1
<1>22. decodeint(e, k + Len(c)).cur = m
  <2>1. k + Len(c) = After(25, j2)
    BY <1>3, <1>17 DEF After
  <2>2. decodeint(e, After(25, j2)) = [v |-> Len(s), cur |-> m]
    BY <1>10, <1>16
  <2> QED BY <2>1, <2>2
<1>23. decodeMetadata(t, e, m) = [i \in DOMAIN c |-> DeclaredMeta(c[i])]
  BY <1>7, <1>8, <1>15
<1>24. ReadUint(e, 19, 6) = id
  BY <1>9, <1>13
<1>25. TableMapIs(e, id, c, k, m)
  BY <1>6, <1>12, <1>18, <1>19, <1>20, <1>21, <1>22, <1>23, <1>24 DEF TableMapIs, t
<1> QED BY <1>25 DEF e

(* Events with rows. *)
RowTypes == {"WRITE_ROWS", "UPDATE_ROWS", "DELETE_ROWS"}

\* Columns marked as used, new and old.
UsedOK(type, cols, used) ==
    /\ used.new \in Seq(BOOLEAN) /\ Len(used.new) = Len(cols)
    /\ type = "UPDATE_ROWS" => used.old \in Seq(BOOLEAN) /\ Len(used.old) = Len(cols)

\* The places that parseRowsEvent comes to before its loop, and what is there.
RowsHeadIs(e, type, id, cols, used, c) ==
    /\ ReadUint(e, 19, 6) = id /\ c \in Nat /\ decodeint(e, 27) = [v |-> Len(cols), cur |-> c]
    /\ type = "UPDATE_ROWS" => /\ At(e, c, Bitmap(used.old))
                               /\ At(e, c + BitmapLen(Len(cols)), Bitmap(used.new))
                               /\ After(19, RowsHead(type, id, cols, used))
                                    = c + 2 * BitmapLen(Len(cols))
    /\ type # "UPDATE_ROWS" => /\ At(e, c, Bitmap(used.new))
                               /\ After(19, RowsHead(type, id, cols, used))
                                    = c + BitmapLen(Len(cols))

\* The parts of what stands before the rows.
LEMMA RowsHeadParts ==
    ASSUME NEW type, NEW id \in Nat, NEW cols, NEW used, TableOK(cols), UsedOK(type, cols, used),
           NEW i6, NEW fl, NEW l, NEW o, NEW w,
           i6 = LittleBytes(id, 6), fl = <<1, 0>>, l = CodedLength(Len(cols)),
           o = (IF type = "UPDATE_ROWS" THEN Bitmap(used.old) ELSE <<>>), w = Bitmap(used.new)
    PROVE  /\ RowsHead(type, id, cols, used) = Join(Join(Join(Join(i6, fl), l), o), w)
           /\ RowsHead(type, id, cols, used) \in Octets
           /\ i6 \in Octets /\ fl \in Octets /\ l \in Octets /\ o \in Octets /\ w \in Octets
           /\ Len(i6) = 6 /\ Len(fl) = 2 /\ Len(w) = BitmapLen(Len(cols))
           /\ type = "UPDATE_ROWS" => Len(o) = BitmapLen(Len(cols))
           /\ type # "UPDATE_ROWS" => Len(o) = 0
<1>1. Len(cols) \in Nat
  BY DEF TableOK
<1>2. RowsHead(type, id, cols, used) = Join(Join(Join(Join(i6, fl), l), o), w)
  BY Zenon DEF RowsHead, Join
<1>3. i6 \in Octets /\ Len(i6) = 6
  BY LittleBytesAre
<1>4. fl \in Octets /\ Len(fl) = 2
  BY DEF Octets
<1>5. l \in Octets
  BY <1>1, CodedAre
<1>6. w \in Octets /\ Len(w) = BitmapLen(Len(cols))
  <2>1. Len(used.new) \in Nat /\ Len(used.new) = Len(cols)
    BY <1>1 DEF UsedOK
  <2> QED BY <2>1, BitmapAre
<1>7. /\ o \in Octets
      /\ type = "UPDATE_ROWS" => Len(o) = BitmapLen(Len(cols))
      /\ type # "UPDATE_ROWS" => Len(o) = 0
  <2>1. CASE type = "UPDATE_ROWS"
    <3>1. Len(used.old) \in Nat /\ Len(used.old) = Len(cols)
      BY <1>1, <2>1 DEF UsedOK
    <3>2. o = Bitmap(used.old)
      BY <2>1
    <3> QED BY <2>1, <3>1, <3>2, BitmapAre
  <2>2. CASE type # "UPDATE_ROWS"
    <3>1. o = <<>>
      BY <2>2
    <3> QED BY <2>2, <3>1 DEF Octets
  <2> QED BY <2>1, <2>2
<1>8. Join(Join(Join(Join(i6, fl), l), o), w) \in Octets
  <2>1. Join(i6, fl) \in Octets
    BY <1>3, <1>4, JoinedLen
  <2>2. Join(Join(i6, fl), l) \in Octets
    BY <1>5, <2>1, JoinedLen
  <2>3. Join(Join(Join(i6, fl), l), o) \in Octets
    BY <1>7, <2>2, JoinedLen
  <2> QED BY <1>6, <2>3, JoinedLen
<1> QED BY <1>2, <1>3, <1>4, <1>5, <1>6, <1>7, <1>8

\* parseRowsEvent: the table's number, the count of its fields and the bitmaps.
LEMMA RowsHeadRead ==
    ASSUME NEW e, NEW type, NEW id \in Nat, Fits(id, 6), NEW cols, NEW used, TableOK(cols),
           UsedOK(type, cols, used), At(e, 19, RowsHead(type, id, cols, used))
    PROVE  \E c : RowsHeadIs(e, type, id, cols, used, c)
<1> DEFINE i6 == LittleBytes(id, 6)
           fl == <<1, 0>>
           l == CodedLength(Len(cols))
           o == IF type = "UPDATE_ROWS" THEN Bitmap(used.old) ELSE <<>>
           w == Bitmap(used.new)
           head == RowsHead(type, id, cols, used)
           j1 == Join(i6, fl)
           j2 == Join(j1, l)
           j3 == Join(j2, o)
           c == After(19, j2)
           n == BitmapLen(Len(cols))
<1>1. /\ head = Join(j3, w)
      /\ i6 \in Octets /\ fl \in Octets /\ l \in Octets /\ o \in Octets /\ w \in Octets
      /\ Len(i6) = 6 /\ Len(fl) = 2 /\ Len(w) = n
      /\ type = "UPDATE_ROWS" => Len(o) = n
      /\ type # "UPDATE_ROWS" => Len(o) = 0
  BY RowsHeadParts
<1>2. /\ \A x : At(e, x, i6) => ReadUint(e, x, 6) = id
      /\ \A x : At(e, x, l) => decodeint(e, x) = [v |-> Len(cols), cur |-> After(x, l)]
  <2>1. Len(cols) \in Nat /\ Len(cols) < FourBytes
    <3>1. \A x \in 1 .. MostFields : x \in Nat /\ x < FourBytes
      BY SMT DEF FourBytes, MostFields
    <3>2. Len(cols) \in 1 .. MostFields
      BY DEF TableOK
    <3> QED BY <3>1, <3>2, Zenon
  <2>2. \A x : At(e, x, i6) => ReadUint(e, x, 6) = id
    BY UintAt
  <2> QED BY <2>1, <2>2, LengthRead
<1>3. type = "UPDATE_ROWS" => o = Bitmap(used.old)
  OBVIOUS
<1>4. At(e, 19, head) /\ n \in Nat
  <2>1. Len(cols) \in Nat
    BY DEF TableOK
  <2> QED BY <2>1 DEF BitmapLen
<1> HIDE DEF i6, fl, l, o, w, head, n
<1>5. j1 \in Octets /\ Len(j1) = 8 /\ j2 \in Octets /\ j3 \in Octets
  <2>1. j1 \in Octets /\ Len(j1) = 8
    <3>1. i6 \in Octets /\ fl \in Octets /\ Len(i6) = 6 /\ Len(fl) = 2
      BY <1>1
    <3>2. j1 \in Octets /\ Len(j1) = Len(i6) + Len(fl)
      BY <3>1, JoinedLen
    <3> HIDE DEF j1
    <3> QED BY <3>1, <3>2
  <2> HIDE DEF j1
  <2>2. j2 \in Octets
    BY <1>1, <2>1, JoinedLen
  <2> HIDE DEF j2
  <2>3. j3 \in Octets
    BY <1>1, <2>2, JoinedLen
  <2> QED BY <2>1, <2>2, <2>3
<1>6. At(e, 19, j3) /\ At(e, After(19, j3), w) /\ After(After(19, j3), w) = After(19, head)
  <2> HIDE DEF j3
  <2> QED BY <1>1, <1>4, <1>5, AtJoin
<1>7. At(e, 19, j2) /\ At(e, c, o) /\ After(c, o) = After(19, j3)
  <2> HIDE DEF j2
  <2> QED BY <1>1, <1>5, <1>6, AtJoin
<1>8. At(e, 19, j1) /\ At(e, After(19, j1), l) /\ After(After(19, j1), l) = c
  <2> HIDE DEF j1
  <2> QED BY <1>1, <1>5, <1>7, AtJoin
<1>9. After(19, j1) = 27
  <2> HIDE DEF j1
  <2> QED BY <1>5 DEF After
<1>10. At(e, 19, i6)
  BY <1>1, <1>8, AtJoin
<1> HIDE DEF j1, j2, j3
<1>11. c \in Nat
  BY <1>7, Zenon DEF At
<1> HIDE DEF c
<1>12. ReadUint(e, 19, 6) = id
  BY <1>2, <1>10
<1>13. decodeint(e, 27) = [v |-> Len(cols), cur |-> c]
  BY <1>2, <1>8, <1>9
<1>14. CASE type = "UPDATE_ROWS"
  <2>1. After(19, j3) = c + n
    BY <1>1, <1>7, <1>14 DEF After
  <2>2. After(19, head) = After(c + n, w)
    BY <1>6, <2>1
  <2>3. After(c + n, w) = c + 2 * n
    BY <1>1, <1>4, <1>11 DEF After
  <2>4. At(e, c, Bitmap(used.old)) /\ At(e, c + n, w)
    BY <1>3, <1>6, <1>7, <1>14, <2>1
  <2>5. After(19, head) = c + 2 * n
    BY <2>2, <2>3
  <2> QED BY <1>11, <1>12, <1>13, <1>14, <2>4, <2>5 DEF RowsHeadIs, n, w, head
<1>15. CASE type # "UPDATE_ROWS"
  <2>1. After(19, j3) = c
    BY <1>1, <1>7, <1>11, <1>15 DEF After
  <2>2. After(19, head) = After(c, w) /\ At(e, c, w)
    BY <1>6, <2>1
  <2>3. After(19, head) = c + n
    BY <1>1, <2>2 DEF After
  <2> QED BY <1>11, <1>12, <1>13, <1>15, <2>2, <2>3 DEF RowsHeadIs, n, w, head
<1> QED BY <1>14, <1>15

\* One row of an event, with an image or two.
ImageOK(cols, used, row) == RowOK(cols, used, row) /\ NullsPlaced(cols, used, row)
ImagesOK(type, cols, used, row) ==
    /\ ImageOK(cols, used.new, row.new)
    /\ type = "UPDATE_ROWS" => ImageOK(cols, used.old, row.old)

DecimalsIn(type, cols, row) ==
    /\ DecimalsOK(cols, row.new)
    /\ type = "UPDATE_ROWS" => DecimalsOK(cols, row.old)

\* What a row takes are bytes.
LEMMA RowImagesAre ==
    ASSUME NEW type, NEW cols, NEW used, NEW row, ImagesOK(type, cols, used, row)
    PROVE  /\ RowImages(type, cols, used, row) \in Octets
           /\ type = "UPDATE_ROWS" =>
                /\ Image(cols, used.old, row.old) \in Octets
                /\ Image(cols, used.new, row.new) \in Octets
                /\ RowImages(type, cols, used, row)
                     = Join(Image(cols, used.old, row.old), Image(cols, used.new, row.new))
           /\ type # "UPDATE_ROWS" =>
                RowImages(type, cols, used, row) = Image(cols, used.new, row.new)
<1> DEFINE new == Image(cols, used.new, row.new)
           old == Image(cols, used.old, row.old)
           both == RowImages(type, cols, used, row)
<1>1. new \in Octets
  BY ImageParts DEF ImagesOK, ImageOK
<1>2. CASE type = "UPDATE_ROWS"
  <2>1. old \in Octets
    BY <1>2, ImageParts DEF ImagesOK, ImageOK
  <2>2. both = Join(old, new)
    BY <1>2 DEF RowImages, Join
  <2> HIDE DEF old, new
  <2>3. Join(old, new) \in Octets
    BY <1>1, <2>1, JoinedLen
  <2> QED BY <1>1, <1>2, <2>1, <2>2, <2>3 DEF old, new
<1>3. CASE type # "UPDATE_ROWS"
  <2>1. both = <<>> \o new
    BY <1>3 DEF RowImages
  <2> HIDE DEF new
  <2>2. <<>> \o new = new
    BY <1>1 DEF Octets
  <2> QED BY <1>1, <1>3, <2>1, <2>2 DEF new
<1> QED BY <1>2, <1>3

\* An image decoded: its cells, and where the cursor is then.
ImageIs(e, o, types, meta, u, cols, used, row, behind) ==
    /\ DecodeImage(e, o, types, meta, u).cur = behind
    /\ ImageHolds(DecodeImage(e, o, types, meta, u).cells, cols, used, row)

\* parseRowsEvent: one round of the loop.
LEMMA RowRead ==
    ASSUME NEW e, NEW o, NEW u, NEW u2, NEW type, NEW cols, NEW used, NEW row, NEW types, NEW meta,
           ImagesOK(type, cols, used, row), DecimalsIn(type, cols, row),
           FieldsAre(types, meta, cols),
           At(e, o, RowImages(type, cols, used, row)),
           type = "UPDATE_ROWS" => At(e, u, Bitmap(used.old)) /\ At(e, u2, Bitmap(used.new)),
           type # "UPDATE_ROWS" => At(e, u, Bitmap(used.new))
    PROVE  /\ type = "UPDATE_ROWS" =>
                \E between :
                  /\ ImageIs(e, o, types, meta, u, cols, used.old, row.old, between)
                  /\ ImageIs(e, between, types, meta, u2, cols, used.new, row.new,
                             After(o, RowImages(type, cols, used, row)))
           /\ type # "UPDATE_ROWS" =>
                ImageIs(e, o, types, meta, u, cols, used.new, row.new,
                        After(o, RowImages(type, cols, used, row)))
<1> DEFINE new == Image(cols, used.new, row.new)
           old == Image(cols, used.old, row.old)
           both == RowImages(type, cols, used, row)
<1>1. /\ type = "UPDATE_ROWS" => new \in Octets /\ old \in Octets /\ both = Join(old, new)
      /\ type # "UPDATE_ROWS" => both = new
  BY RowImagesAre
<1>2. /\ ImageOK(cols, used.new, row.new)
      /\ type = "UPDATE_ROWS" => ImageOK(cols, used.old, row.old)
      /\ DecimalsOK(cols, row.new)
      /\ type = "UPDATE_ROWS" => DecimalsOK(cols, row.old)
  BY DEF ImagesOK, DecimalsIn
<1>3. At(e, o, both)
  OBVIOUS
<1>4. ASSUME NEW p, NEW q, NEW us, NEW r, ImageOK(cols, us, r), DecimalsOK(cols, r),
             At(e, p, Image(cols, us, r)), At(e, q, Bitmap(us))
      PROVE  ImageIs(e, p, types, meta, q, cols, us, r, After(p, Image(cols, us, r)))
  BY <1>4, ImageRead DEF ImageOK, ImageIs
<1> HIDE DEF both
<1>5. CASE type = "UPDATE_ROWS"
  <2>1. At(e, o, Join(old, new)) /\ old \in Octets /\ new \in Octets
    BY <1>1, <1>3, <1>5
  <2> HIDE DEF old, new
  <2>2. At(e, o, old) /\ At(e, After(o, old), new)
        /\ After(After(o, old), new) = After(o, Join(old, new))
    BY <2>1, AtJoin
  <2>3. ImageIs(e, o, types, meta, u, cols, used.old, row.old, After(o, old))
    BY <1>2, <1>4, <1>5, <2>2 DEF old
  <2>4. ImageIs(e, After(o, old), types, meta, u2, cols, used.new, row.new,
                After(After(o, old), new))
    <3> DEFINE p == After(o, old)
    <3>1. At(e, p, new)
      BY <2>2
    <3> HIDE DEF p
    <3>2. ImageIs(e, p, types, meta, u2, cols, used.new, row.new, After(p, new))
      BY <1>2, <1>4, <1>5, <3>1 DEF new
    <3> QED BY <3>2 DEF p
  <2>5. After(After(o, old), new) = After(o, both)
    BY <1>1, <1>5, <2>2 DEF old, new
  <2> QED BY <1>5, <2>3, <2>4, <2>5 DEF both
<1>6. CASE type # "UPDATE_ROWS"
  <2>1. At(e, o, new) /\ both = new
    BY <1>1, <1>3, <1>6
  <2>2. ImageIs(e, o, types, meta, u, cols, used.new, row.new, After(o, new))
    BY <1>2, <1>4, <1>6, <2>1
  <2> QED BY <1>6, <2>1, <2>2 DEF both
<1> QED BY <1>5, <1>6

\* The rows of an event.
RowsOK(type, cols, used, rows) ==
    /\ type \in RowTypes /\ TableOK(cols) /\ UsedOK(type, cols, used)
    /\ IsSequence(rows)
    /\ \A k \in 1 .. Len(rows) : ImagesOK(type, cols, used, rows[k])

Parts(type, cols, used, rows) == [k \in DOMAIN rows |-> RowImages(type, cols, used, rows[k])]

\* The bytes of each row.
LEMMA PartsAre ==
    ASSUME NEW type, NEW cols, NEW used, NEW rows, RowsOK(type, cols, used, rows)
    PROVE  /\ Parts(type, cols, used, rows) \in Seq(Octets)
           /\ Len(Parts(type, cols, used, rows)) = Len(rows) /\ Len(rows) \in Nat
           /\ \A k \in 1 .. Len(rows) :
                Parts(type, cols, used, rows)[k] = RowImages(type, cols, used, rows[k])
<1>1. PICK S : rows \in Seq(S)
  BY DEF RowsOK, IsSequence
<1>2. Len(rows) \in Nat /\ DOMAIN rows = 1 .. Len(rows)
  BY <1>1, LenProperties
<1>3. \A k \in 1 .. Len(rows) : RowImages(type, cols, used, rows[k]) \in Octets
  BY RowImagesAre DEF RowsOK
<1>4. Parts(type, cols, used, rows)
        = [k \in 1 .. Len(rows) |-> RowImages(type, cols, used, rows[k])]
  BY <1>2 DEF Parts
<1> HIDE DEF Parts
<1> QED BY <1>2, <1>3, <1>4

\* The first rows of an event are rows of an event.
LEMMA FirstRows ==
    ASSUME NEW type, NEW cols, NEW used, NEW rows, RowsOK(type, cols, used, rows),
           NEW m \in 0 .. Len(rows)
    PROVE  /\ RowsOK(type, cols, used, SubSeq(rows, 1, m)) /\ Len(SubSeq(rows, 1, m)) = m
           /\ \A k \in 1 .. m : SubSeq(rows, 1, m)[k] = rows[k]
<1> DEFINE some == SubSeq(rows, 1, m)
<1>1. PICK S : rows \in Seq(S)
  BY DEF RowsOK, IsSequence
<1>2. Len(rows) \in Nat /\ m \in Int /\ 1 \in Int /\ m \in Nat
  BY <1>1, LenProperties
<1>3. \A i \in 1 .. m : rows[i] \in S
  <2>1. \A i \in 1 .. m : i \in 1 .. Len(rows)
    BY <1>2
  <2> QED BY <1>1, <2>1, ElementOfSeq
<1>4. /\ some \in Seq(S) /\ Len(some) = IF 1 <= m THEN m - 1 + 1 ELSE 0
      /\ \A i \in 1 .. m - 1 + 1 : some[i] = rows[1 + i - 1]
  BY <1>2, <1>3, SubSeqProperties
<1> HIDE DEF some
<1>5. Len(some) = m /\ \A i \in 1 .. m : some[i] = rows[i]
  <2>1. m - 1 + 1 = m /\ (m = 0 \/ 1 <= m)
    BY <1>2
  <2>2. Len(some) = m
    BY <1>4, <2>1
  <2>3. \A i \in 1 .. m : 1 + i - 1 = i
    BY <1>2
  <2> QED BY <1>4, <2>1, <2>2, <2>3
<1>6. RowsOK(type, cols, used, some)
  <2>1. \A k \in 1 .. m : k \in 1 .. Len(rows)
    BY <1>2
  <2>2. \A k \in 1 .. m : ImagesOK(type, cols, used, some[k])
    BY <1>5, <2>1 DEF RowsOK
  <2>3. IsSequence(some)
    BY <1>4 DEF IsSequence
  <2> QED BY <1>5, <2>2, <2>3 DEF RowsOK
<1> QED BY <1>5, <1>6 DEF some

\* parseRowsEvent: the rows of an event stand one behind the other up to its end.
LEMMA RowsPlaced ==
    ASSUME NEW type, NEW id \in Nat, Fits(id, 6), NEW cols, NEW used, NEW rows,
           RowsOK(type, cols, used, rows), NEW e, e = RowsEvent(type, id, cols, used, rows)
    PROVE  /\ e \in Octets /\ Len(rows) \in Nat
           /\ At(e, 19, RowsHead(type, id, cols, used))
           /\ At(e, 9, LittleBytes(Len(e), 4))
           /\ RowStart(type, id, cols, used, rows, 1) = After(19, RowsHead(type, id, cols, used))
           /\ RowStart(type, id, cols, used, rows, Len(rows) + 1) = Len(e)
           /\ \A k \in 1 .. Len(rows) :
                /\ At(e, RowStart(type, id, cols, used, rows, k),
                         RowImages(type, cols, used, rows[k]))
                /\ RowStart(type, id, cols, used, rows, k + 1)
                     = After(RowStart(type, id, cols, used, rows, k),
                             RowImages(type, cols, used, rows[k]))
<1> DEFINE head == RowsHead(type, id, cols, used)
           parts == Parts(type, cols, used, rows)
           n == Len(rows)
           body == Join(head, FlattenSeq(parts))
<1>1. /\ parts \in Seq(Octets) /\ Len(parts) = n /\ n \in Nat
      /\ \A k \in 1 .. n : parts[k] = RowImages(type, cols, used, rows[k])
  BY PartsAre
<1>2. head \in Octets /\ Len(head) \in Nat
  <2>1. TableOK(cols) /\ UsedOK(type, cols, used)
    BY DEF RowsOK
  <2>2. head \in Octets
    BY <2>1, RowsHeadParts
  <2> HIDE DEF head
  <2> QED BY <2>2, OctetsAre
<1>3. type \in EventTypes
  BY DEF RowsOK, RowTypes, EventTypes
<1>4. PICK f : Flat(f, parts) /\ FlattenSeq(parts) = f[n]
  <2> HIDE DEF parts, n
  <2>1. parts \in Seq(Seq(0 .. 255))
    BY <1>1 DEF Octets
  <2>2. PICK f : Flat(f, parts) /\ FlattenSeq(parts) = f[Len(parts)]
    BY <2>1, FlattenSteps
  <2> QED BY <1>1, <2>2
<1>5. /\ \A i \in 0 .. n : f[i] \in Octets /\ Len(f[i]) \in Nat
      /\ \A i \in 1 .. n : At(f[n], Len(f[i - 1]), parts[i])
      /\ \A i \in 1 .. n : Len(f[i]) = Len(f[i - 1]) + Len(parts[i])
  <2> HIDE DEF parts, n
  <2>0. Flat(f, parts) /\ parts \in Seq(Octets)
    BY <1>1, <1>4
  <2>1. /\ \A i \in 0 .. Len(parts) : f[i] \in Octets
        /\ \A i \in 1 .. Len(parts) : At(f[Len(parts)], Len(f[i - 1]), parts[i])
        /\ \A i \in 1 .. Len(parts) : Len(f[i]) = Len(f[i - 1]) + Len(parts[i])
    BY <2>0, FlatAt
  <2> QED BY <1>1, <2>1, OctetsAre
<1>6. ASSUME NEW k \in 1 .. n + 1
      PROVE  RowStart(type, id, cols, used, rows, k) = 19 + (Len(head) + Len(f[k - 1]))
  <2> DEFINE some == SubSeq(rows, 1, k - 1)
             sparts == Parts(type, cols, used, some)
             s == FlattenSeq(sparts)
  <2>1. k - 1 \in 0 .. n
    BY <1>1
  <2>2. /\ RowsOK(type, cols, used, some) /\ Len(some) = k - 1
        /\ \A i \in 1 .. k - 1 : some[i] = rows[i]
    BY <2>1, FirstRows
  <2> HIDE DEF some
  <2>3. /\ sparts \in Seq(Octets) /\ Len(sparts) = k - 1
        /\ \A i \in 1 .. k - 1 : sparts[i] = RowImages(type, cols, used, some[i])
    BY <2>2, PartsAre
  <2>4. \A i \in 1 .. k - 1 : sparts[i] = parts[i]
    <3> TAKE i \in 1 .. k - 1
    <3>1. i \in 1 .. n
      BY <1>1
    <3> HIDE DEF parts, sparts, n
    <3> QED BY <1>1, <2>2, <2>3, <3>1
  <2> HIDE DEF sparts, parts
  <2>5. PICK g : Flat(g, sparts) /\ s = g[Len(sparts)]
    <3>1. sparts \in Seq(Seq(0 .. 255))
      BY <2>3 DEF Octets
    <3> QED BY <3>1, FlattenSteps
  <2>6. \A i \in 0 .. Len(sparts) : g[i] = f[i]
    <3>1. /\ Len(sparts) \in Nat /\ Len(parts) \in Nat /\ Len(sparts) <= Len(parts)
          /\ \A i \in 1 .. Len(sparts) : sparts[i] = parts[i]
      BY <1>1, <2>1, <2>3, <2>4
    <3> QED BY <1>4, <2>5, <3>1, FlatOnce
  <2>7. s = f[k - 1]
    BY <2>1, <2>3, <2>5, <2>6
  <2>8. RowsEvent(type, id, cols, used, some) = WithHeader(type, Join(head, s))
    BY Zenon DEF RowsEvent, Join, sparts, Parts
  <2>9. s \in Octets /\ Len(s) \in Nat
    BY <1>5, <2>1, <2>7
  <2> HIDE DEF s, head
  <2>10. Join(head, s) \in Octets /\ Len(Join(head, s)) = Len(head) + Len(s)
    BY <1>2, <2>9, JoinedLen
  <2>11. Len(WithHeader(type, Join(head, s))) = 19 + Len(Join(head, s))
    BY <1>3, <2>10, Headed
  <2>12. RowStart(type, id, cols, used, rows, k) = Len(RowsEvent(type, id, cols, used, some))
    BY Zenon DEF RowStart, some
  <2> QED BY <2>7, <2>8, <2>10, <2>11, <2>12
<1>7. e = WithHeader(type, body)
  BY Zenon DEF RowsEvent, Join, Parts
<1>8. body \in Octets /\ Len(body) = Len(head) + Len(f[n])
  <2>1. f[n] \in Octets
    BY <1>1, <1>5
  <2> HIDE DEF head, parts, n
  <2> QED BY <1>2, <1>4, <2>1, JoinedLen
<1>9. At(body, Len(head), f[n])
  <2>1. f[n] \in Octets
    BY <1>1, <1>5
  <2> HIDE DEF head, parts, n
  <2> QED BY <1>2, <1>4, <2>1, AtParts
<1>10. At(body, 0, head)
  <2>1. f[n] \in Octets
    BY <1>1, <1>5
  <2> HIDE DEF head, parts, n
  <2> QED BY <1>2, <1>4, <2>1, AtParts
<1> HIDE DEF head, body, parts, n
<1>11. e \in Octets /\ Len(e) = 19 + Len(body) /\ At(e, 19, body)
       /\ At(e, 9, LittleBytes(19 + Len(body), 4))
  BY <1>3, <1>7, <1>8, Headed
<1>12. At(e, 19, head)
  <2>1. At(e, 19 + 0, head)
    BY <1>10, <1>11, AtWithin
  <2> QED BY <2>1
<1>13. RowStart(type, id, cols, used, rows, 1) = After(19, head)
  <2>1. f[0] = <<>> /\ Len(<<>>) = 0
    BY <1>4 DEF Flat
  <2>2. 1 \in 1 .. n + 1 /\ 1 - 1 = 0
    BY <1>1
  <2>3. RowStart(type, id, cols, used, rows, 1) = 19 + (Len(head) + Len(f[1 - 1]))
    BY <1>6, <2>2
  <2>4. Len(f[1 - 1]) = 0
    BY <2>1, <2>2
  <2> QED BY <1>2, <2>3, <2>4 DEF After
<1>14. RowStart(type, id, cols, used, rows, n + 1) = Len(e)
  <2>1. n + 1 \in 1 .. n + 1 /\ n + 1 - 1 = n
    BY <1>1
  <2>2. RowStart(type, id, cols, used, rows, n + 1) = 19 + (Len(head) + Len(f[n]))
    <3> DEFINE m == n + 1
    <3>1. m \in 1 .. n + 1 /\ m - 1 = n
      <4>1. m \in 1 .. n + 1
        BY <1>1
      <4>2. m - 1 = n
        BY <1>1
      <4> QED BY <4>1, <4>2
    <3> HIDE DEF m
    <3>2. RowStart(type, id, cols, used, rows, m) = 19 + (Len(head) + Len(f[m - 1]))
      BY <1>6, <3>1
    <3>3. RowStart(type, id, cols, used, rows, m) = 19 + (Len(head) + Len(f[n]))
      BY <3>1, <3>2
    <3> QED BY <3>3, Zenon DEF m
  <2> QED BY <1>8, <1>11, <2>1, <2>2
<1>15. ASSUME NEW k \in 1 .. n
       PROVE  /\ At(e, RowStart(type, id, cols, used, rows, k), parts[k])
              /\ RowStart(type, id, cols, used, rows, k + 1)
                   = After(RowStart(type, id, cols, used, rows, k), parts[k])
  <2>1. k \in 1 .. n + 1 /\ k + 1 \in 1 .. n + 1 /\ k - 1 \in 0 .. n /\ k + 1 - 1 = k
    BY <1>1
  <2>2. RowStart(type, id, cols, used, rows, k) = 19 + (Len(head) + Len(f[k - 1]))
    BY <1>6, <2>1
  <2>3. RowStart(type, id, cols, used, rows, k + 1) = 19 + (Len(head) + Len(f[k]))
    <3>1. RowStart(type, id, cols, used, rows, k + 1) = 19 + (Len(head) + Len(f[k + 1 - 1]))
      BY <1>6, <2>1
    <3> QED BY <2>1, <3>1
  <2>4. At(f[n], Len(f[k - 1]), parts[k]) /\ Len(f[k]) = Len(f[k - 1]) + Len(parts[k])
    BY <1>5
  <2>5. At(body, Len(head) + Len(f[k - 1]), parts[k])
    BY <1>9, <2>4, AtWithin
  <2>6. At(e, 19 + (Len(head) + Len(f[k - 1])), parts[k])
    BY <1>11, <2>5, AtWithin
  <2>7. Len(f[k - 1]) \in Nat /\ Len(parts[k]) \in Nat
    <3>1. parts[k] \in Octets
      BY <1>1, ElementOfSeq
    <3> QED BY <1>5, <2>1, <3>1, OctetsAre
  <2>8. 19 + (Len(head) + Len(f[k])) = After(19 + (Len(head) + Len(f[k - 1])), parts[k])
    <3>1. \A x \in Nat, y \in Nat, z \in Nat : 19 + (x + (y + z)) = 19 + (x + y) + z
      OBVIOUS
    <3>2. 19 + (Len(head) + (Len(f[k - 1]) + Len(parts[k])))
            = 19 + (Len(head) + Len(f[k - 1])) + Len(parts[k])
      BY <1>2, <2>7, <3>1, Zenon
    <3> QED BY <2>4, <3>2, Zenon DEF After
  <2> QED BY <2>2, <2>3, <2>6, <2>8
<1>16. At(e, 9, LittleBytes(Len(e), 4))
  BY <1>11
<1>17. \A k \in 1 .. n : parts[k] = RowImages(type, cols, used, rows[k])
  BY <1>1
<1> QED BY <1>1, <1>11, <1>12, <1>13, <1>14, <1>15, <1>16, <1>17 DEF head, n
=============================================================================
