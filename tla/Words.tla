-------------------------------- MODULE Words -------------------------------
(***************************************************************************)
(* The registers of the VM: words of WordBits bits (64 in the program),    *)
(* read as two's complement integers, or as doubles.  A double is reduced  *)
(* to a sign bit and a whole magnitude; what does not fit is the largest   *)
(* magnitude, as an infinity would be.  That keeps what the VM's use of    *)
(* doubles depends on: their order as bit patterns is not that of          *)
(* integers, and there are two zeros.                                      *)
(***************************************************************************)
EXTENDS Integers

LOCAL INSTANCE FiniteSetsExt

CONSTANT WordBits

ASSUME WordsAssumption == WordBits \in Nat /\ WordBits >= 4

Modulus == 2 ^ WordBits
SignBit == 2 ^ (WordBits - 1)
Words   == 0 .. (Modulus - 1)

\* static_cast<uint64_t> of an integer, static_cast<int64_t> of a word.
Wrap(n)   == n % Modulus
Signed(w) == IF w < SignBit THEN w ELSE w - Modulus

Magnitude(n) == IF n < 0 THEN -n ELSE n

\* C++ division truncates toward zero.
Quotient(x, y) ==
    LET q == Magnitude(x) \div Magnitude(y)
    IN  IF (x < 0) = (y < 0) THEN q ELSE -q

Truth(p) == IF p THEN 1 ELSE 0

\* u64_to_f64 and f64_to_u64.
ToF64(w) == IF w < SignBit THEN w ELSE -(w - SignBit)

FromF64(d) ==
    LET m == IF Magnitude(d) < SignBit THEN Magnitude(d) ELSE SignBit - 1
    IN  IF d < 0 THEN SignBit + m ELSE m

\* The bits that are set in a word, and the word that has them.
Bits(w)     == {k \in 0 .. (WordBits - 1) : (w \div 2 ^ k) % 2 = 1}
FromBits(S) == MapThenSumSet(LAMBDA k : 2 ^ k, S)

\* The low bits of w, sign-extended.
SignExtend(w, bits) ==
    LET low == w % 2 ^ bits
    IN  Wrap(IF low < 2 ^ (bits - 1) THEN low ELSE low - 2 ^ bits)

=============================================================================
