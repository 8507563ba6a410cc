-------------------------------- MODULE Sha1 --------------------------------
(***************************************************************************)
(* src/src/protocol/sha1.c around its block function: what is buffered,    *)
(* counted and padded.  SHA1Transform is a constant, a block has BlockLen  *)
(* bytes, and each of the two counters of bits WordBytes bytes (64 and 4   *)
(* in the code).                                                           *)
(***************************************************************************)
EXTENDS Integers, Sequences, TLC

CONSTANTS
    BlockLen,           \* bytes in a block
    WordBytes,          \* bytes in a counter
    State0,             \* the state at first
    Transform(_, _),    \* SHA1Transform: the state after a block
    Digest(_)           \* the bytes of the final state

ASSUME BlockAssumption == /\ WordBytes \in Nat \ {0} /\ BlockLen \in Nat
                          /\ BlockLen > 2 * WordBytes /\ 256 ^ WordBytes % (8 * BlockLen) = 0

CountMod == 256 ^ WordBytes

\* memcpy(&buffer[at], data)
Overwrite(buffer, at, data) ==
    SubSeq(buffer, 1, at) \o data \o SubSeq(buffer, at + Len(data) + 1, Len(buffer))

SHA1Init == [state |-> State0, low |-> 0, high |-> 0, buffer |-> [i \in 1 .. BlockLen |-> 0]]

\* The bits of len more bytes, with the carry out of the low counter.
Counted(ctx, len) ==
    LET low == (ctx.low + 8 * len) % CountMod
        carry == IF low < ctx.low THEN 1 ELSE 0
    IN [ctx EXCEPT !.low = low,
                   !.high = (@ + carry + (8 * len) \div CountMod) % CountMod]

\* Whole blocks behind the first len bytes of data, then what is left.
Blocks(len, first) == (len - first) \div BlockLen
Transformed(state, full, data, first) ==
    LET n == Blocks(Len(data), first)
        after[k \in 0 .. n] ==
          IF k = 0 THEN Transform(state, full)
          ELSE Transform(after[k - 1],
                         SubSeq(data, first + (k - 1) * BlockLen + 1, first + k * BlockLen))
    IN [state |-> after[n],
        buffer |-> Overwrite(full, 0, SubSeq(data, first + n * BlockLen + 1, Len(data)))]

UpdateAt(ctx, j, data) ==
    IF j + Len(data) < BlockLen
      THEN [Counted(ctx, Len(data)) EXCEPT !.buffer = Overwrite(@, j, data)]
      ELSE Transformed(ctx.state, Overwrite(ctx.buffer, j, SubSeq(data, 1, BlockLen - j)),
                       data, BlockLen - j)
           @@ Counted(ctx, Len(data))

Filled(ctx) == (ctx.low \div 8) % BlockLen
SHA1Update(ctx, data) == UpdateAt(ctx, Filled(ctx), data)

\* One byte 128, bytes 0 up to the place of the counters, the counters.
Word(v) == [i \in 1 .. WordBytes |-> (v \div 256 ^ (WordBytes - i)) % 256]
WithCount(ctx, finalcount) ==
    LET zeroes == (2 * BlockLen - 2 * WordBytes - Filled(ctx)) % BlockLen
        padded[k \in 0 .. zeroes] == IF k = 0 THEN ctx ELSE SHA1Update(padded[k - 1], <<0>>)
    IN SHA1Update(padded[zeroes], finalcount)
SHA1Final(ctx) == Digest(WithCount(SHA1Update(ctx, <<128>>), Word(ctx.high) \o Word(ctx.low)).state)
=============================================================================
