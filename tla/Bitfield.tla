----------------------------- MODULE Bitfield -----------------------------
(***************************************************************************)
(* The lazily allocated bitfield that stores votes (bitfield.rs).  A word  *)
(* is the set of the offsets of its bits that are set, counted from the    *)
(* most significant bit as in the code; a bitfield is the sequence of its  *)
(* words.  The state machine that uses it is ContextSpec.                  *)
(***************************************************************************)
EXTENDS Naturals, SequencesExt

CONSTANT WordBits   \* 64 in the code

ASSUME WordBitsAssumption == WordBits \in {2 * n : n \in 1 .. 32}

\* Bitfield::new and is_blank
NewBitfield == <<>>
IsBlank(bits) == bits = <<>>

\* Vec::resize(len, 0), asked only to grow
Resize(bits, len) == bits \o [i \in 1 .. (len - Len(bits)) |-> {}]

SetBit(bits, position) ==
    LET word    == position \div WordBits
        resized == IF word >= Len(bits) THEN Resize(bits, word + 1) ELSE bits
    IN  [resized EXCEPT ![word + 1] = @ \union {position % WordBits}]

Merge(bits, other) ==
    LET resized == IF Len(bits) < Len(other) THEN Resize(bits, Len(other)) ELSE bits
    IN  [i \in DOMAIN resized |-> IF i <= Len(other) THEN resized[i] \union other[i] ELSE resized[i]]

\* fn iter1s with step 1: the positions of the set bits, from start in every word, two apart.
Iter1s(words, start) ==
    LET steps     == WordBits \div 2 - start \div 2
        bitPos(j) == start + 2 * (j - 1)
        bit(i, j) == IF bitPos(j) \in words[i] THEN <<(i - 1) * WordBits + bitPos(j)>> ELSE <<>>
    IN  FlattenSeq([i \in DOMAIN words |-> FlattenSeq([j \in 1 .. steps |-> bit(i, j)])])

\* Slip: words beyond the shorter bitfield are dropped.
Iter1sZipped(bits, other, start) ==
    LET len == IF Len(bits) < Len(other) THEN Len(bits) ELSE Len(other)
    IN  Iter1s([i \in 1 .. len |-> bits[i] \union other[i]], start)

\* iter1s_merged: the shorter bitfield is padded with empty words on the fly.
Iter1sMerged(bits, other, start) ==
    LET word(b, i) == IF i <= Len(b) THEN b[i] ELSE {}
        len == IF Len(bits) < Len(other) THEN Len(other) ELSE Len(bits)
    IN  Iter1s([i \in 1 .. len |-> word(bits, i) \union word(other, i)], start)

\* The bits of a bitfield, by definition (test_bit for every position).
Positions(bits) ==
    UNION {{(i - 1) * WordBits + offset : offset \in bits[i]} : i \in DOMAIN bits}
=============================================================================
