---------------------------- MODULE NanoAddress ----------------------------
(***************************************************************************)
(* Nano addresses (internal/nano/account.go): the base32 text of a public  *)
(* key behind PadBits zero bits, followed by the base32 text of its        *)
(* checksum in reversed byte order.  The relay parses them at enrollment   *)
(* (verifyAccountSig) and in buildTxRequest (the destination).             *)
(*                                                                         *)
(* The widths are constants: 8-bit bytes, 5-bit characters, 32-byte keys,  *)
(* 5-byte checksums and 4 pad bits in the code.  Bytes and characters are  *)
(* read bit by bit, most significant first, as the two loops do.           *)
(*                                                                         *)
(* A person or a program holds an address, copies it with a slip of one    *)
(* character, has it parsed, and renders what was parsed.                  *)
(***************************************************************************)
EXTENDS Integers, Sequences, SequencesExt, FiniteSets, ForLoop

CONSTANTS
    ByteBits, CharBits,   \* 8 and 5
    KeyBytes, SumBytes,   \* 32 and 5
    PadBits,              \* 4
    nanoAlphabet,         \* the characters in the order of their values
    OtherChar,            \* a character outside the alphabet
    blake2bSum(_),        \* the checksum of a key (golang.org/x/crypto)
    Keys,                 \* the keys whose addresses are written down
    Slips,                \* how many characters may be mistyped
    Invalid               \* an error

\* 1 << k
Pow2(k) == Loop(1, [i \in Nat |-> [x \in Nat |-> 2 * x]], k)

ByteSeq(n) == [1..n -> 0 .. Pow2(ByteBits) - 1]
Char == Range(nanoAlphabet) \cup {OtherChar}
KeyChars == (PadBits + KeyBytes * ByteBits) \div CharBits
SumChars == (SumBytes * ByteBits) \div CharBits

ASSUME NanoAssumption ==
    /\ {ByteBits, CharBits, KeyBytes, SumBytes} \subseteq Nat \ {0}
    /\ PadBits \in 0 .. CharBits - 1 /\ Slips \in Nat
    /\ KeyChars * CharBits = PadBits + KeyBytes * ByteBits
    /\ SumChars * CharBits = SumBytes * ByteBits
    /\ nanoAlphabet \in Seq(Range(nanoAlphabet))
    /\ Len(nanoAlphabet) = Pow2(CharBits)
    /\ Cardinality(Range(nanoAlphabet)) = Pow2(CharBits)
    /\ OtherChar \notin Range(nanoAlphabet)
    /\ Keys \subseteq ByteSeq(KeyBytes)
    /\ \A k \in Keys : blake2bSum(k) \in ByteSeq(SumBytes)
    /\ Invalid \notin ByteSeq(KeyBytes) \cup ByteSeq(SumBytes)

VARIABLES addr,   \* the address held: [prefix, text]
          key,    \* the key it stands for: Invalid when refused, or not yet parsed
          slips   \* characters mistyped so far

nanoVars == <<addr, key, slips>>

-----------------------------------------------------------------------------
(* The algorithms.                                                         *)

\* (v >> k) & 1
ShiftRight(v, k) == Loop(v, [i \in Nat |-> [x \in Nat |-> x \div 2]], k)
Bit(v, k) == ShiftRight(v, k) % 2

\* The number with the given bits, most significant first: v = (v << 1) | bit.
Number(bits) == Loop(0, [i \in 1..Len(bits) |-> [v \in Nat |-> 2 * v + bits[i]]], Len(bits))

nanoReverse(c) == IF c = OtherChar THEN -1
                  ELSE (CHOOSE i \in 1 .. Pow2(CharBits) : nanoAlphabet[i] = c) - 1

\* Mutant of encodeBase32: the pad bits are added at the end.
encodeBase32PadsRight(data, padBits) ==
    LET bitAt(i) == IF i >= Len(data) * ByteBits THEN 0
                    ELSE Bit(data[i \div ByteBits + 1], ByteBits - 1 - (i % ByteBits))
    IN  [n \in 1 .. (padBits + Len(data) * ByteBits) \div CharBits |->
           nanoAlphabet[1 + Number([k \in 1..CharBits |->
                                      bitAt((n-1) * CharBits + k - 1)])]]

encodeBase32(data, padBits) ==
    LET bitAt(i) ==
            LET j == i - padBits
            IN  IF j < 0 THEN 0
                ELSE Bit(data[j \div ByteBits + 1], ByteBits - 1 - (j % ByteBits))
    IN  [n \in 1 .. (padBits + Len(data) * ByteBits) \div CharBits |->
           nanoAlphabet[1 + Number([k \in 1..CharBits |->
                                      bitAt((n-1) * CharBits + k - 1)])]]

\* Bit b of the text is bit b - padBits of the data; the first ones are dropped.
decodeBase32(s, padBits) ==
    LET bitAt(b) == Bit(nanoReverse(s[b \div CharBits + 1]),
                        CharBits - 1 - (b % CharBits))
        outBits == Len(s) * CharBits - padBits
    IN  IF \/ outBits % ByteBits # 0
           \/ \E i \in 1..Len(s) : nanoReverse(s[i]) < 0
          THEN Invalid
          ELSE [n \in 1 .. outBits \div ByteBits |->
                  Number([k \in 1..ByteBits |->
                            bitAt(padBits + (n-1) * ByteBits + k - 1)])]

reverseBytes(b) == Reverse(b)

Address(pk) ==
    [prefix |-> "nano_",
     text |-> encodeBase32(pk, PadBits) \o encodeBase32(reverseBytes(blake2bSum(pk)), 0)]

\* Mutant of ParseAddress: the comparison stops one byte early.
ParseAddressShortCompare(a) ==
    LET pub == decodeBase32(SubSeq(a.text, 1, KeyChars), PadBits)
        got == decodeBase32(SubSeq(a.text, KeyChars + 1, Len(a.text)), 0)
    IN  IF \/ a.prefix \notin {"nano_", "xrb_"} \/ Len(a.text) # KeyChars + SumChars
           \/ pub = Invalid \/ got = Invalid
           \/ \E i \in 1 .. SumBytes - 1 : reverseBytes(got)[i] # blake2bSum(pub)[i]
          THEN Invalid ELSE pub

ParseAddress(a) ==
    LET pub == decodeBase32(SubSeq(a.text, 1, KeyChars), PadBits)
        gotChecksum == decodeBase32(SubSeq(a.text, KeyChars + 1, Len(a.text)), 0)
    IN  IF \/ a.prefix \notin {"nano_", "xrb_"}
           \/ Len(a.text) # KeyChars + SumChars
           \/ pub = Invalid
           \/ gotChecksum = Invalid
           \/ reverseBytes(gotChecksum) # blake2bSum(pub)
          THEN Invalid
          ELSE pub

-----------------------------------------------------------------------------
(* The states: an address on its way through hands and parsers.            *)

NanoInit == /\ key \in Keys
            /\ addr = Address(key)
            /\ slips = 0

\* A character is copied wrongly, or lost at the end, or the prefix is another.
Mistype ==
    /\ slips < Slips
    /\ \/ \E i \in 1..Len(addr.text), c \in Char :
            addr' = [addr EXCEPT !.text[i] = c]
       \/ Len(addr.text) > KeyChars /\ addr' = [addr EXCEPT !.text = Front(@)]
       \/ \E p \in {"nano_", "xrb_", "ban_"} : addr' = [addr EXCEPT !.prefix = p]
    /\ key' = Invalid
    /\ slips' = slips + 1

Parse == key' = ParseAddress(addr) /\ UNCHANGED <<addr, slips>>

Render == /\ key # Invalid
          /\ addr' = Address(key)
          /\ UNCHANGED <<key, slips>>

NanoNext == Mistype \/ Parse \/ Render

NanoSpec == NanoInit /\ [][NanoNext]_nanoVars

-----------------------------------------------------------------------------
(* Properties.                                                             *)

\* What Address writes is what ParseAddress reads: no bit of the key is lost
\* in the padding or at a byte boundary and the checksum agrees.  So parsing
\* and rendering settle on one spelling of a key, whatever spelling came in.
RoundTrip == key # Invalid => ParseAddress(addr) = key

\* The number with the given digits of width bits each, and the value of a
\* text and of a key as one number: what the two bit loops amount to.
Value(digits, width) ==
    Loop(0, [i \in 1..Len(digits) |-> [v \in Nat |-> v * Pow2(width) + digits[i]]],
         Len(digits))
TextValue(s) == Value([i \in 1..Len(s) |-> nanoReverse(s[i])], CharBits)
BytesValue(d) == Value(d, ByteBits)

\* The address held is accepted exactly when its text is, as a number, the
\* one that Address writes for some key, up to the pad bits in front: nothing
\* else passes the checksum, the alphabet, the length and the prefix tests,
\* and the only spellings of a key are its two prefixes and its pad bits.
AcceptsExactlyAliases ==
    LET n == Len(addr.text)
        pub == TextValue(SubSeq(addr.text, 1, KeyChars))
                 % Pow2(KeyBytes * ByteBits)
        wellFormed == /\ addr.prefix \in {"nano_", "xrb_"}
                      /\ n = KeyChars + SumChars
                      /\ OtherChar \notin Range(addr.text)
        owners == {k \in ByteSeq(KeyBytes) :
                     /\ BytesValue(k) = pub
                     /\ BytesValue(Reverse(blake2bSum(k)))
                          = TextValue(SubSeq(addr.text, KeyChars + 1, n))}
    IN  ParseAddress(addr) = (IF wellFormed /\ owners # {}
                                THEN CHOOSE k \in owners : TRUE
                                ELSE Invalid)
=============================================================================
