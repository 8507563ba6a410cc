------------------------------ MODULE Decimal ------------------------------
(***************************************************************************)
(* MySQL's decimals (src/src/decimal.c) as far as a DECIMAL cell needs     *)
(* them: bin2decimal reads the packed form of the log, decimal2string      *)
(* prints it.  A decimal_t is [sign, intg, frac, buf]: intg digits before  *)
(* the point and frac behind it, in words of DIG_PER_DEC1 digits; buf is   *)
(* the words in use.  Bytes are 0 .. 255, words are int32_t.               *)
(***************************************************************************)
EXTENDS Integers, Sequences, SequencesExt

CONSTANT DIG_PER_DEC1   \* digits in a word: 9 in the code

dig2bytes == [n \in 0 .. 9 |-> <<0, 1, 1, 2, 2, 3, 3, 4, 4, 4>>[n + 1]]
ASSUME DigAssumption == DIG_PER_DEC1 \in 1 .. 9

SizeofDec1  == dig2bytes[DIG_PER_DEC1]
DIG_BASE    == 10 ^ DIG_PER_DEC1
DIG_MAX     == DIG_BASE - 1
ROUND_UP(x) == (x + DIG_PER_DEC1 - 1) \div DIG_PER_DEC1

Least(a, b)    == IF a <= b THEN a ELSE b
Greatest(a, b) == IF a >= b THEN a ELSE b

decimal_zero == [sign |-> 0, intg |-> 1, frac |-> 0, buf |-> <<0>>]

\* FIX_INTG_FRAC_ERROR: the words that fit in len, and what was lost.
FixIntgFrac(len, intg, frac) ==
    IF intg > len THEN [intg |-> len, frac |-> 0, error |-> "OVERFLOW"]
    ELSE IF intg + frac > len THEN [intg |-> intg, frac |-> len - intg, error |-> "TRUNCATED"]
    ELSE [intg |-> intg, frac |-> frac, error |-> "OK"]

\* The n digits of a number, the most significant first.
Digits(x, n) == [i \in 1 .. n |-> (x \div 10 ^ (n - i)) % 10]
WordDigits(words) == FlattenSeq([i \in DOMAIN words |-> Digits(words[i], DIG_PER_DEC1)])
-----------------------------------------------------------------------------
decimal_bin_size(precision, scale) ==
    LET Size(n) == (n \div DIG_PER_DEC1) * SizeofDec1 + dig2bytes[n % DIG_PER_DEC1] IN
      Size(precision - scale) + Size(scale)

\* mi_sint1korr .. mi_sint4korr, and the mask that undoes the complement of a
\* negative number.
SignedBigEndian(b) ==
    LET value[i \in 0 .. Len(b)] ==
          IF i = 0 THEN 0
          ELSE IF i = 1 /\ b[1] >= 128 THEN b[1] - 256 ELSE 256 * value[i - 1] + b[i]
    IN value[Len(b)]
UnmaskNever(x, sign) == x
Unmask(x, sign) == IF sign = 1 THEN -x - 1 ELSE x

\* The first word drops out when it is zero, so that intg counts no leading
\* word of zeroes; the first word may be ten times too large and still pass.
LeadingZeroWords(words) ==
    LET nonzero == {i \in DOMAIN words : words[i] # 0} IN
      IF nonzero = {} THEN Len(words) ELSE (CHOOSE i \in nonzero : \A j \in nonzero : i <= j) - 1

\* The words in the bytes: how many digits each has, the integer ones first,
\* the bytes that are skipped in front of them.
IntWidths(fix, intgdigits) ==
    LET over == fix.error = "OVERFLOW"
        rest == intgdigits % DIG_PER_DEC1
    IN (IF over \/ rest = 0 THEN <<>> ELSE <<rest>>)
       \o [i \in 1 .. IF over THEN fix.intg ELSE intgdigits \div DIG_PER_DEC1 |-> DIG_PER_DEC1]

FracWidths(fix, scale) ==
    IF fix.error # "OK" THEN [i \in 1 .. fix.frac |-> DIG_PER_DEC1]
    ELSE [i \in 1 .. scale \div DIG_PER_DEC1 |-> DIG_PER_DEC1]
         \o IF scale % DIG_PER_DEC1 = 0 THEN <<>> ELSE <<scale % DIG_PER_DEC1>>

Skipped(fix, intgdigits) ==
    IF fix.error # "OVERFLOW" THEN 0
    ELSE dig2bytes[intgdigits % DIG_PER_DEC1]
         + SizeofDec1 * ((intgdigits \div DIG_PER_DEC1) - fix.intg)

\* Each word is read with its sign; the last fraction is moved to the front of its word.
ReadWords(bytes, skip, intw, fracw, sign) ==
    LET widths(i) == IF i <= Len(intw) THEN intw[i] ELSE fracw[i - Len(intw)]
        place[i \in 1 .. Len(intw) + Len(fracw) + 1] ==
          IF i = 1 THEN skip + 1 ELSE place[i - 1] + dig2bytes[widths(i - 1)]
    IN [i \in 1 .. Len(intw) + Len(fracw) |->
          Unmask(SignedBigEndian(SubSeq(bytes, place[i], place[i + 1] - 1)), sign)
          * IF i > Len(intw) THEN 10 ^ (DIG_PER_DEC1 - widths(i)) ELSE 1]

BadWords(words, intw) ==
    \E i \in DOMAIN words :
        \/ words[i] \notin 0 .. DIG_MAX
        \/ i = 1 /\ intw # <<>> /\ intw[1] < DIG_PER_DEC1 /\ words[1] >= 10 ^ (intw[1] + 1)

DroppedWordsCounted(words, intw, sign, frac, error) ==
    LET drop == LeadingZeroWords(SubSeq(words, 1, Len(intw)))
        digits[i \in 0 .. Len(intw)] == IF i = 0 THEN 0 ELSE digits[i - 1] + intw[i]
    IN [error |-> error,
        d |-> [sign |-> sign, intg |-> digits[Len(intw)], frac |-> frac,
               buf |-> SubSeq(words, drop + 1, Len(words))]]
Number2decimal(words, intw, sign, frac, error) ==
    LET drop == LeadingZeroWords(SubSeq(words, 1, Len(intw)))
        digits[i \in 0 .. Len(intw)] == IF i = 0 THEN 0 ELSE digits[i - 1] + intw[i]
    IN [error |-> error,
        d |-> [sign |-> sign, intg |-> digits[Len(intw)] - digits[drop], frac |-> frac,
               buf |-> SubSeq(words, drop + 1, Len(words))]]

Words2decimal(words, intw, sign, frac, error) ==
    IF BadWords(words, intw) THEN [error |-> "BAD_NUM", d |-> decimal_zero]
    ELSE Number2decimal(words, intw, sign, frac, error)

UnpackWords(bytes, sign, intw, fix, intgdigits, scale) ==
    Words2decimal(ReadWords(bytes, Skipped(fix, intgdigits), intw, FracWidths(fix, scale), sign),
                  intw, sign, IF fix.error = "OK" THEN scale ELSE fix.frac * DIG_PER_DEC1,
                  fix.error)

UnpackFixed(from, fix, intgdigits, scale) ==
    UnpackWords(<<(from[1] + 128) % 256>> \o Tail(from), IF from[1] >= 128 THEN 0 ELSE 1,
                IntWidths(fix, intgdigits), fix, intgdigits, scale)

bin2decimal(from, len, precision, scale) ==
    UnpackFixed(from, FixIntgFrac(len, ROUND_UP(precision - scale), ROUND_UP(scale)),
                precision - scale, scale)
-----------------------------------------------------------------------------
remove_zero_words(from) ==
    LET drop == LeadingZeroWords(SubSeq(from.buf, 1, ROUND_UP(from.intg))) IN
      [drop |-> drop,
       intg |-> IF drop = 0 THEN from.intg ELSE from.intg - ((from.intg - 1) % DIG_PER_DEC1) - 1
                                                - (drop - 1) * DIG_PER_DEC1]
\* The digits of intg that are significant, and the words in front of them.
remove_leading_zeroes(from) ==
    LET drop  == LeadingZeroWords(SubSeq(from.buf, 1, ROUND_UP(from.intg)))
        left  == from.intg - IF drop = 0 THEN 0
                             ELSE ((from.intg - 1) % DIG_PER_DEC1) + 1 + (drop - 1) * DIG_PER_DEC1
        width == ((left - 1) % DIG_PER_DEC1) + 1
        Significant(w) == CHOOSE n \in 1 .. DIG_PER_DEC1 : w >= 10 ^ (n - 1) /\ w < 10 ^ n
    IN IF left <= 0 THEN [drop |-> drop, intg |-> 0]
       ELSE [drop |-> drop, intg |-> left - Greatest(0, width - Significant(from.buf[drop + 1]))]

\* The text of a number: its digits, a sign and a point, and the filler.
Minus == 10
Point == 11

\* The n and f digits shown of a number, behind and in front of the filler.
DigitsShown(sign, buf, n, f, before, behind) ==
    LET ints  == WordDigits(SubSeq(buf, 1, ROUND_UP(n)))
        fracs == WordDigits(SubSeq(buf, ROUND_UP(n) + 1, ROUND_UP(n) + ROUND_UP(f)))
    IN (IF sign = 1 THEN <<Minus>> ELSE <<>>)
       \o before
       \o (IF n = 0 THEN <<0>> ELSE SubSeq(ints, Len(ints) - n + 1, Len(ints)))
       \o (IF f > 0 THEN <<Point>> \o SubSeq(fracs, 1, f) \o behind ELSE <<>>)

Fill(k, filler) == [i \in 1 .. k |-> filler]

\* At a fixed width, digits that do not fit in it are left out.
FixedString(sign, intg, frac, buf, intw, decimals, filler) ==
    LET n == Least(intg, intw)
        f == Least(frac, decimals)
    IN [error |-> IF intg > intw THEN "OVERFLOW" ELSE IF frac > decimals THEN "TRUNCATED" ELSE "OK",
        len   |-> sign + Greatest(1, intw) + decimals + IF frac > 0 THEN 1 ELSE 0,
        text  |-> DigitsShown(sign, buf, n, f,
                      Fill(Greatest(1, intw) - n - (IF n = 0 THEN 1 ELSE 0), filler),
                      Fill(decimals - f, filler))]

\* Otherwise characters go when the text is over characters too long: first those of
\* the fraction, with its last one the point, then those of the integer.  The length
\* that is returned, where the final 0 goes, is counted with the widths of the whole number.
TightString(sign, intg, frac, buf, over, filler) ==
    LET j == IF frac > 0 /\ over >= frac + 1 THEN over - 1 ELSE over
        f == Greatest(0, frac - j)
        n == intg - Greatest(0, j - frac)
    IN [error |-> IF frac > 0 /\ over <= frac + 1 THEN "TRUNCATED" ELSE "OVERFLOW",
        len   |-> sign + Greatest(1, intg) + frac + IF f > 0 THEN 1 ELSE 0,
        text  |-> DigitsShown(sign, buf, n, f,
                      Fill(Greatest(1, intg) - n - (IF n = 0 THEN 1 ELSE 0), filler),
                      Fill(frac - f, filler))]

NumberString(sign, intg, frac, buf, to_len, fixed_precision, fixed_decimals, filler) ==
    LET over == sign + Greatest(1, intg) + (IF frac > 0 THEN frac + 1 ELSE 0) - (to_len - 1) IN
      IF fixed_precision > 0
        THEN FixedString(sign, intg, frac, buf, fixed_precision - fixed_decimals, fixed_decimals, filler)
      ELSE IF over > 0 THEN TightString(sign, intg, frac, buf, over, filler)
      ELSE [error |-> "OK", len |-> to_len - 1 + over,
            text  |-> DigitsShown(sign, buf, intg, frac,
                          Fill(Greatest(1, intg) - intg - (IF intg = 0 THEN 1 ELSE 0), filler), <<>>)]

SignificantString(from, lead, to_len, fixed_precision, fixed_decimals, filler) ==
    IF lead.intg + from.frac = 0
      THEN NumberString(from.sign, 1, 0, <<0>>, to_len, fixed_precision, fixed_decimals, filler)
      ELSE NumberString(from.sign, lead.intg, from.frac,
                        SubSeq(from.buf, lead.drop + 1, Len(from.buf)),
                        to_len, fixed_precision, fixed_decimals, filler)

\* to_len is the size of the buffer with its final 0.
decimal2string(from, to_len, fixed_precision, fixed_decimals, filler) ==
    SignificantString(from, remove_leading_zeroes(from), to_len, fixed_precision, fixed_decimals, filler)
=============================================================================
