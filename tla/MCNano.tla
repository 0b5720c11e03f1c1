------------------------------- MODULE MCNano -------------------------------
EXTENDS NanoAddress

Digits == <<"1", "3", "4", "5", "6", "7", "8", "9", "a", "b", "c", "d", "e", "f",
            "g", "h", "i", "j", "k", "m", "n", "o", "p", "q", "r", "s", "t", "u",
            "w", "x", "y", "z">>
SmallAlphabet == SubSeq(Digits, 1, 8)

AllKeys == ByteSeq(KeyBytes)

\* The loops treat every bit alike, so keys of at most one set bit, and the
\* key of all ones, show where each bit goes.
OneBitKeys ==
    {[n \in 1..KeyBytes |-> IF n = i THEN Pow2(k) ELSE 0] :
        i \in 0..KeyBytes, k \in 0 .. ByteBits - 1}
      \cup {[n \in 1..KeyBytes |-> Pow2(ByteBits) - 1]}

\* A stand-in for BLAKE2b: it depends on every byte and is no palindrome.
Sum(k) == LET w == FoldLeft(LAMBDA v, b : (v * 7 + b + 3) % 1009, 5, k)
          IN  [n \in 1..SumBytes |-> (w * (n + 1) + n) % Pow2(ByteBits)]
=============================================================================
