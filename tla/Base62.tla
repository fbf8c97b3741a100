------------------------------- MODULE Base62 --------------------------------
(***************************************************************************)
(* ShortenRequestHandler::base62_encode behind the hash: what of a number  *)
(* is left in its code.  A code is a sequence of digits.                   *)
(***************************************************************************)
EXTENDS Integers, Sequences

CONSTANTS
  BASE,              \* number of BASE62_CHARS
  SHORT_URL_LENGTH,  \* digits of a code
  Hashes             \* what std::hash may make of a salted URL

ASSUME Base62Assumption ==
  /\ BASE \in Nat \ {0, 1}
  /\ SHORT_URL_LENGTH \in Nat \ {0}
  /\ Hashes \subseteq Nat

Digits == 0..(BASE - 1)

\* The digits of a number, the lowest first; none for 0.
digits[num \in Nat] ==
  IF num = 0 THEN <<>> ELSE <<num % BASE>> \o digits[num \div BASE]

\* Mutant: a code that is too long loses its beginning.
encode_Suffix(num) ==
  LET d == digits[num]
      zeros == [i \in 1..(SHORT_URL_LENGTH - Len(d)) |-> 0]
  IN IF Len(d) > SHORT_URL_LENGTH
       THEN SubSeq(d, Len(d) - SHORT_URL_LENGTH + 1, Len(d))
       ELSE zeros \o d

\* Zeros are put in front, where the lowest digit is; the rest is cut off.
encode(num) ==
  LET zeros == [i \in 1..(SHORT_URL_LENGTH - Len(digits[num])) |-> 0]
  IN SubSeq(zeros \o digits[num], 1, SHORT_URL_LENGTH)

-----------------------------------------------------------------------------
(* The reference: which numbers share a code.                              *)

\* BASE to the k.
power[k \in Nat] == IF k = 0 THEN 1 ELSE BASE * power[k - 1]

Room == power[SHORT_URL_LENGTH]

\* A number too short for a code is shifted up, a longer one loses its high
\* digits: by so much more than a plain remainder do codes collide.
Kept(num) ==
  LET shifted == {num * power[k] : k \in 0..(SHORT_URL_LENGTH - 1)} \cap
                   (Room \div BASE)..(Room - 1)
  IN IF num \in 1..(Room \div BASE - 1)
       THEN CHOOSE s \in shifted : TRUE
       ELSE num % Room

\* What CodesCollide of module Shortener says of every two hashes.
CodesAsKept ==
  \A m, n \in Hashes :
    /\ encode(m) \in [1..SHORT_URL_LENGTH -> Digits]
    /\ encode(m) = encode(n) <=> Kept(m) = Kept(n)
=============================================================================
