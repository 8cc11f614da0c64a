------------------------------- MODULE MCUuidCodec ------------------------------
(* UuidCodec with base-3 digits, texts of two and five of them, and a few keys. *)
EXTENDS UuidCodec, Bitwise

MCXor(a, b) == a ^^ b
MCPower == [n \in 0..5 |-> 3^n]

\* Uneven functions of their arguments; neither is a permutation of the halves.
MCRoundOut(k, len, n, h) == (k + 1) * h * h + (n + len) * (h + k) + k * n
MCPadOut(k, len, x) == 5 * x + k * (x \div 3) + len
================================================================================
