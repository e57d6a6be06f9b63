------------------------------ MODULE Numerals -------------------------------
(***************************************************************************)
(* Numbers and their digits: an identifier consists of words (uint256.c),  *)
(* the text of a word of hexadecimal digits (rpc.c), and the distance of   *)
(* two identifiers comes from their bits.  (The provers know nothing of ^  *)
(* nor of the recursive operators of Bitwise.)                             *)
(***************************************************************************)
EXTENDS Integers

Power(b, n) == LET power[k \in 0..n] == IF k = 0 THEN 1 ELSE power[k - 1] * b
               IN  power[n]

\* The k-th of the n digits of x to the base b, the most significant first.
DigitOf(x, b, n, k) == (x \div Power(b, n - k)) % b

\* What the first n elements of s are as digits to the base b.
Number(s, b, n) ==
  LET read[k \in 0..n] == IF k = 0 THEN 0 ELSE read[k - 1] * b + s[k]
  IN  read[n]

\* The operators ^ and | of C on n bits.
Xor(x, y, n) ==
  Number([k \in 1..n |-> (DigitOf(x, 2, n, k) + DigitOf(y, 2, n, k)) % 2], 2, n)
Or(x, y, n) ==
  Number([k \in 1..n |-> IF DigitOf(x, 2, n, k) + DigitOf(y, 2, n, k) = 0 THEN 0 ELSE 1], 2, n)
=============================================================================
