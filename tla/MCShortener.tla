----------------------------- MODULE MCShortener -----------------------------
(* The shortener for TLC: two URLs, codes of two binary digits, two         *)
(* attempts.  The codes are what base62_encode makes of these hashes.       *)
EXTENDS Shortener, TLC

CONSTANTS u1, u2

MCUrls == {u1, u2}

Encoded(hash) == [u \in MCUrls |-> [k \in 0..1 |-> encode(hash[u][k])]]

\* 1 is padded to the code of 2, and 6 cut to it.  u2 has that code with both
\* salts and shares it with u1: POSTs reuse, rehash, run out of attempts, and
\* race for it.
CollidingCodes == {encode(1), encode(3)}
Colliding == Encoded(u1 :> (0 :> 1 @@ 1 :> 3) @@ u2 :> (0 :> 2 @@ 1 :> 6))

\* Each URL has codes of its own; the code of 0 belongs to nobody.
DisjointCodes == {encode(n) : n \in {0, 1, 3}}
Disjoint == Encoded(u1 :> (0 :> 1 @@ 1 :> 2) @@ u2 :> (0 :> 3 @@ 1 :> 7))

\* Every salt gives the same code, and there are no others.
AllSame == Encoded(u1 :> (0 :> 1 @@ 1 :> 1) @@ u2 :> (0 :> 2 @@ 1 :> 6))
OneCode == {encode(1)}

\* Numbers of up to six digits.
MCHashes == 0..40

WorkerSymmetry == Permutations(Workers)
=============================================================================
