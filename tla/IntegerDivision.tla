----------------------------- MODULE IntegerDivision ----------------------------
(* Division with remainder of natural numbers by any divisor, as the proofs about *)
(* packed numbers need it. *)
EXTENDS Integers, TLAPS

\* Division with remainder.
LEMMA Division ==
  ASSUME NEW a \in Nat, NEW n \in Nat \ {0}
  PROVE  a \div n \in Nat /\ a % n \in 0 .. n - 1 /\ a = n * (a \div n) + (a % n)
<1>1. a \div n \in Int /\ a % n \in 0 .. n - 1
  OBVIOUS
<1>2. a = n * (a \div n) + (a % n)
  BY Z3
<1>3. ~(a \div n < 0)
  <2> SUFFICES ASSUME NEW q \in Int, q < 0, NEW m \in 0 .. n - 1, a = n * q + m
               PROVE  FALSE
    BY <1>1, <1>2
  <2>1. n * (-q) >= n /\ n * (-q) = -(n * q)
    OBVIOUS
  <2> QED
    BY <2>1
<1> QED
  BY <1>1, <1>2, <1>3

\* Division of any integer: \div rounds down.
LEMMA FloorDivision ==
  ASSUME NEW a \in Int, NEW n \in Nat \ {0}
  PROVE  a \div n \in Int /\ a % n \in 0 .. n - 1 /\ a = n * (a \div n) + (a % n)
<1>1. a \div n \in Int /\ a % n \in 0 .. n - 1
  OBVIOUS
<1>2. a = n * (a \div n) + (a % n)
  BY Z3
<1> QED
  BY <1>1, <1>2

\* A number is determined by its quotient and remainder, and determines them.
LEMMA DivisionUnique ==
  ASSUME NEW n \in Nat \ {0}, NEW q \in Int, NEW m \in 0 .. n - 1
  PROVE  (n * q + m) \div n = q /\ (n * q + m) % n = m
<1> DEFINE a == n * q + m
           p == a \div n
           k == a % n
<1>0. n * q \in Int /\ a \in Int
  OBVIOUS
<1>1. p \in Int /\ k \in 0 .. n - 1 /\ a = n * p + k
  BY <1>0, FloorDivision
<1> HIDE DEF p, k
<1>2. n * p \in Int
  BY <1>1
<1>3. ~(p < q)
  <2> SUFFICES ASSUME p < q PROVE FALSE
    OBVIOUS
  <2>1. n * (q - p) >= n /\ n * (q - p) = n * q - n * p
    BY <1>1
  <2> QED
    BY <2>1, <1>0, <1>1, <1>2
<1>4. ~(q < p)
  <2> SUFFICES ASSUME q < p PROVE FALSE
    OBVIOUS
  <2>1. n * (p - q) >= n /\ n * (p - q) = n * p - n * q
    BY <1>1
  <2> QED
    BY <2>1, <1>0, <1>1, <1>2
<1>5. p = q
  BY <1>1, <1>3, <1>4
<1>6. k = m
  BY <1>0, <1>1, <1>5
<1> QED
  BY <1>5, <1>6 DEF p, k

\* A quotient is below q when the number is below n * q.
LEMMA QuotientBelow ==
  ASSUME NEW a \in Nat, NEW n \in Nat \ {0}, NEW q \in Nat, a < n * q
  PROVE  a \div n < q
<1> DEFINE p == a \div n
<1>1. p \in Nat /\ a >= n * p /\ n * p \in Nat /\ n * q \in Nat
  BY Division
<1> HIDE DEF p
<1>2. ~(p >= q)
  <2> SUFFICES ASSUME p >= q PROVE FALSE
    OBVIOUS
  <2>1. n * (p - q) >= 0 /\ n * (p - q) = n * p - n * q
    BY <1>1
  <2> QED
    BY <2>1, <1>1
<1>3. p < q
  BY <1>1, <1>2
<1> QED
  BY <1>3 DEF p
================================================================================
