---------------------------- MODULE DecimalCell ----------------------------
(***************************************************************************)
(* The way of a DECIMAL through value2Cell: the master packs a number of   *)
(* the column's precision and scale, bin2decimal unpacks it, and           *)
(* decimal2string prints it.  value2Cell gives bin2decimal 128 words and   *)
(* decimal2string 512 bytes, far more than 65 digits need; the lengths are *)
(* free here, because both functions promise to say what they lost.        *)
(***************************************************************************)
EXTENDS PackedDecimal

CONSTANTS
    MaxPrecision,   \* bound: digits of a column
    DigitValues,    \* digits that occur in numbers
    Lens,           \* words bin2decimal may use
    ToLens          \* bytes decimal2string may use, with the final 0

ASSUME BoundsAssumption == /\ MaxPrecision \in Nat /\ DigitValues \subseteq 0 .. 9
                           /\ Lens \subseteq Nat \ {0} /\ ToLens \subseteq Nat \ {0}

VARIABLES
    num,    \* the number written: [neg, ints, fracs], sequences of digits
    len,    \* d.len, and the size of the buffer for the text
    to_len,
    d,      \* the decimal_t
    error,  \* what the last function returned
    text,   \* the cell's text, and where its final 0 is
    strlen,
    pc      \* "packed", "unpacked", "printed", "skipped"

vars == <<num, len, to_len, d, error, text, strlen, pc>>

Precision == Len(num.ints) + Len(num.fracs)
Scale     == Len(num.fracs)
-----------------------------------------------------------------------------
DigitSeqs(n) == [1 .. n -> DigitValues]
Numbers ==
    {n \in [neg : BOOLEAN, ints : UNION {DigitSeqs(i) : i \in 0 .. MaxPrecision},
            fracs : UNION {DigitSeqs(i) : i \in 0 .. MaxPrecision}] :
        /\ Len(n.ints) + Len(n.fracs) \in 1 .. MaxPrecision
        /\ n.neg => \E x \in ToSet(n.ints) \union ToSet(n.fracs) : x # 0}

Init ==
    /\ num \in Numbers /\ len \in Lens /\ to_len \in ToLens
    /\ d = decimal_zero /\ error = "OK" /\ text = <<>> /\ strlen = 0
    /\ pc = "packed"

\* value2Cell leaves the cell empty, and the cursor, when bin2decimal fails.
Unpack ==
    /\ pc = "packed"
    /\ LET r == bin2decimal(decimal2bin(num), len, Precision, Scale) IN
         /\ d' = r.d /\ error' = r.error
         /\ pc' = IF r.error = "OK" THEN "unpacked" ELSE "skipped"
    /\ UNCHANGED <<num, len, to_len, text, strlen>>

\* value2Cell asks for no fixed precision and ignores the result.
Show ==
    /\ pc = "unpacked"
    /\ LET r == decimal2string(d, to_len, 0, 0, 0) IN
         text' = r.text /\ strlen' = r.len /\ error' = r.error
    /\ pc' = "printed"
    /\ UNCHANGED <<num, len, to_len, d>>

Next == Unpack \/ Show
Spec == Init /\ [][Next]_vars
-----------------------------------------------------------------------------
(* Properties. *)

\* The digits a decimal_t stands for.
IntDigits(x)  == Significant(WordDigits(SubSeq(x.buf, 1, ROUND_UP(x.intg))))
FracDigits(x) == SubSeq(WordDigits(SubSeq(x.buf, ROUND_UP(x.intg) + 1, Len(x.buf))), 1, x.frac)

TypeOK ==
    /\ num \in Numbers /\ len \in Lens /\ to_len \in ToLens
    /\ d.sign \in {0, 1} /\ d.intg \in Nat /\ d.frac \in Nat
    /\ \A i \in DOMAIN d.buf : d.buf[i] \in 0 .. DIG_MAX
    /\ Len(d.buf) = ROUND_UP(d.intg) + ROUND_UP(d.frac)
    /\ error \in {"OK", "TRUNCATED", "OVERFLOW", "BAD_NUM"}
    /\ pc \in {"packed", "unpacked", "skipped", "printed"}

\* bin2decimal: what is unpacked is the number written, and it fits in len; when
\* digits were lost, the error says on which side of the point, and the digits
\* that remain are those next to the ones that were lost.
NothingLostSilently ==
    pc \in {"unpacked", "skipped"} =>
        LET ints == Significant(num.ints) IN
          /\ d.sign = (IF num.neg THEN 1 ELSE 0)
          /\ Len(d.buf) <= len
          /\ error = "OK" => IntDigits(d) = ints /\ FracDigits(d) = num.fracs
          /\ error = "TRUNCATED" => IntDigits(d) = ints /\ IsStrictPrefix(FracDigits(d), num.fracs)
          /\ error = "OVERFLOW" => /\ IsSuffix(IntDigits(d), ints) /\ d.frac = 0
                                   /\ ROUND_UP(Len(num.ints)) > len
          /\ error # "BAD_NUM"

\* value2Cell: the text of a DECIMAL cell is the number the master wrote.
TextIsNumber == pc = "printed" /\ error = "OK" => text = Written(num) /\ strlen = Len(text)
=============================================================================
