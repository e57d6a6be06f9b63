------------------------------- MODULE Uint256 -------------------------------
(***************************************************************************)
(* kad_uint256_t (uint256.c): the arithmetic of identifiers.  A number is  *)
(* an array of Limbs unsigned words of LimbBits bits (8 and 32 in the      *)
(* code), the most significant first; words are cut to their width.        *)
(*                                                                         *)
(* kad_uint256_add adds without a carry flag: it repeats "sum without the  *)
(* carries" and "the carries, shifted" until no carry is left.  One step   *)
(* here is one turn of that loop, for an addition or for the addition      *)
(* inside kad_uint256_avg, which cuts every bucket in two.                 *)
(***************************************************************************)
EXTENDS Integers, Bitwise

CONSTANTS Limbs, LimbBits

ASSUME LimbAssumption == Limbs \in Nat \ {0} /\ LimbBits \in Nat \ {0}

Word   == 0..(2 ^ LimbBits - 1)
Number == [0..(Limbs - 1) -> Word]

VARIABLES op,      \* "add" or "avg"
          a, b,    \* the arguments
          x, y, d, \* the variables of kad_uint256_add
          done     \* the loop has ended: d is the result

vars == <<op, a, b, x, y, d, done>>

\* kad_uint256_and, kad_uint256_xor.
AndAll(p, q) == [i \in DOMAIN p |-> p[i] & q[i]]
XorAll(p, q) == [i \in DOMAIN p |-> p[i] ^^ q[i]]

\* Mutant of Lsh1: the bit that leaves a word is lost.
Lsh1Lossy(p) == [i \in DOMAIN p |-> (2 * p[i]) % 2 ^ LimbBits]

\* kad_uint256_lsh and kad_uint256_rsh, which are called with amt = 1 only.
Lsh1(p) == [i \in DOMAIN p |->
              ((2 * p[i]) % 2 ^ LimbBits)
                + (IF i = Limbs - 1 THEN 0 ELSE p[i + 1] \div 2 ^ (LimbBits - 1))]
Rsh1(p) == [i \in DOMAIN p |->
              p[i] \div 2
                + (IF i = 0 THEN 0 ELSE (p[i - 1] % 2) * 2 ^ (LimbBits - 1))]

\* kad_uint256_iszero.
IsZero(p) == \A i \in DOMAIN p : p[i] = 0

\* kad_uint256_cmp: the first word that differs decides.
Cmp(p, q) ==
  IF p = q THEN 0
  ELSE LET i == CHOOSE k \in DOMAIN p : p[k] # q[k] /\ \A j \in 0..(k - 1) : p[j] = q[j]
       IN  IF p[i] > q[i] THEN 1 ELSE -1

-----------------------------------------------------------------------------
\* The call of kad_uint256_add, from outside or by kad_uint256_avg, which adds
\* the common bits and half of the others.
Init == /\ op \in {"add", "avg"}
        /\ a \in Number /\ b \in Number
        /\ x = IF op = "add" THEN a ELSE AndAll(a, b)
        /\ y = IF op = "add" THEN b ELSE Rsh1(XorAll(a, b))
        /\ d = [i \in 0..(Limbs - 1) |-> 0]
        /\ done = FALSE

\* do { ... } while (!kad_uint256_iszero(&c)).
Turn == /\ ~ done
        /\ d' = XorAll(x, y)
        /\ y' = XorAll(x, y)
        /\ x' = Lsh1(AndAll(x, y))
        /\ done' = IsZero(AndAll(x, y))
        /\ UNCHANGED <<op, a, b>>

Next == Turn

\* A function that has been called runs on.
Spec == Init /\ [][Next]_vars /\ WF_vars(Next)

-----------------------------------------------------------------------------
Modulus == 2 ^ (Limbs * LimbBits)

\* The number that an array stands for.
Val(p) == LET upTo[i \in 0..Limbs] == IF i = 0 THEN 0
                                      ELSE upTo[i - 1] * 2 ^ LimbBits + p[i - 1]
          IN  upTo[Limbs]

\* The carries run out, whatever is added, and then kad_uint256_add is the sum
\* modulo 2^256 and kad_uint256_avg is the mean of the two, rounded down, even
\* where their sum does not fit: the cut of kad_bucket_split that Bucket takes
\* for (lo + hi) \div 2.  kad_uint256_cmp orders the arrays as the numbers they
\* stand for: by this order buckets are found and contacts are sorted.
ResultIsRight ==
  /\ Cmp(a, b) = IF Val(a) > Val(b) THEN 1 ELSE IF Val(a) = Val(b) THEN 0 ELSE -1
  /\ <>(done /\ Val(d) = IF op = "add" THEN (Val(a) + Val(b)) % Modulus
                         ELSE (Val(a) + Val(b)) \div 2)
=============================================================================
