--------------------------- MODULE PackedDecimal ---------------------------
(***************************************************************************)
(* What a master writes for a DECIMAL, and what a reader should read: the  *)
(* reference for bin2decimal and decimal2string, outside the library.  A   *)
(* number is [neg, ints, fracs], sequences of decimal digits.              *)
(***************************************************************************)
EXTENDS Decimal

(* Whole words of digits from the point outwards, each in as few bytes as  *)
(* its digits need, the sign bit set and all bits complemented for a       *)
(* negative number.                                                        *)
Number(digits) ==
    LET value[i \in 0 .. Len(digits)] == IF i = 0 THEN 0 ELSE 10 * value[i - 1] + digits[i]
    IN value[Len(digits)]

BigEndian(v, n) == [i \in 1 .. n |-> (v \div 256 ^ (n - i)) % 256]

Groups(digits, first) ==
    LET rest == (Len(digits) - first + DIG_PER_DEC1 - 1) \div DIG_PER_DEC1
        Group(i) == SubSeq(digits, first + (i - 1) * DIG_PER_DEC1 + 1,
                           Least(Len(digits), first + i * DIG_PER_DEC1))
    IN (IF first = 0 THEN <<>> ELSE <<SubSeq(digits, 1, first)>>) \o [i \in 1 .. rest |-> Group(i)]

decimal2bin(n) ==
    LET groups == Groups(n.ints, Len(n.ints) % DIG_PER_DEC1) \o Groups(n.fracs, 0)
        plain  == FlattenSeq([i \in DOMAIN groups |->
                     BigEndian(Number(groups[i]), dig2bytes[Len(groups[i])])])
        signed == [i \in DOMAIN plain |-> IF n.neg THEN 255 - plain[i] ELSE plain[i]]
    IN [signed EXCEPT ![1] = (@ + 128) % 256]

\* The number as a reader writes it.
LeadingZeroes(digits) ==
    LET nonzero == {i \in DOMAIN digits : digits[i] # 0} IN
      IF nonzero = {} THEN Len(digits) ELSE (CHOOSE i \in nonzero : \A k \in nonzero : i <= k) - 1
Significant(digits) == SubSeq(digits, LeadingZeroes(digits) + 1, Len(digits))

Written(n) == (IF n.neg THEN <<Minus>> ELSE <<>>)
              \o (IF Significant(n.ints) = <<>> THEN <<0>> ELSE Significant(n.ints))
              \o (IF n.fracs = <<>> THEN <<>> ELSE <<Point>> \o n.fracs)
=============================================================================
