------------------------------- MODULE Binary -------------------------------
(***************************************************************************)
(* Numbers in bits and bytes, as the bitstreams hold them.                 *)
(***************************************************************************)
EXTENDS Naturals, Sequences

\* 1 << n
Pow2[n \in Nat] == IF n = 0 THEN 1 ELSE 2 * Pow2[n - 1]

\* The low count bytes of n, of bits each, the highest one first.
Digits(n, count, bits) ==
  [i \in 1..count |-> (n \div Pow2[bits * (count - i)]) % Pow2[bits]]

\* The number that bytes are the digits of.
Number(bytes, bits) ==
  LET upTo[k \in 0..Len(bytes)] ==
        IF k = 0 THEN 0 ELSE upTo[k - 1] * Pow2[bits] + bytes[k]
  IN upTo[Len(bytes)]
=============================================================================
