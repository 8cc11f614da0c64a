----------------------------- MODULE UuidCodecProofs ----------------------------
(* Decode inverts Encode for every key, entity, round function, alphabet and *)
(* width: the loops of Decode visit the states of Encode's loops backwards.  *)
(* `trail' holds those of the permutation, `rests' those of the conversion.  *)
EXTENDS UuidCodec, IntegerDivision, TLAPS

--------------------------------------------------------------------------------
(* Types. *)

\* TypeOK, and how far each loop has come.
Types ==
  /\ TypeOK
  /\ pc \in {"perm", "unperm"} => i \in 0..Rounds
  /\ pc \in {"write", "read"} => i \in 0..length
  /\ pc = "write" /\ i > 0 => text \in Texts(length)
  /\ pc = "read" => text \in Texts(length)
  /\ pc = "perm" => value \in 0..MaxInt64

\* What the assumptions say of the length in use.
LEMMA Widths ==
  ASSUME NEW len \in Lengths
  PROVE  /\ HalfSpan(len) \in Nat \ {0} /\ Span(len) \in Nat \ {0}
         /\ Span(len) = HalfSpan(len) * HalfSpan(len)
         /\ Halves(len) = 0 .. HalfSpan(len) - 1
         /\ MaxInt64 \in Int /\ MaxInt64 >= -1
         /\ len = ShortLength => Domain <= Span(len)
         /\ len # ShortLength =>
              Limit(len) \in Nat \ {0} /\ Limit(len) * Span(len) <= Power[len] /\ MaxInt64 < Span(len)
         /\ Power[len] \in Nat
<1>1. HalfSpan(len) \in Nat \ {0}
  BY CodecAssumption DEF HalfSpan
<1>a. LongHalf \in Nat \ {0}
  BY CodecAssumption
<1>2. LongHalf * LongHalf \in Nat \ {0}
  BY <1>a
<1> DEFINE s == LongHalf * LongHalf
<1>3. s \div 2 \in Nat /\ s = 2 * (s \div 2) + (s % 2) /\ s % 2 \in 0..1
  <2> HIDE DEF s
  <2>1. s \in Nat /\ 2 \in Nat \ {0}
    BY <1>2 DEF s
  <2> QED
    BY <2>1, Division
<1>4. MaxInt64 \in Int /\ MaxInt64 >= -1 /\ MaxInt64 < LongHalf * LongHalf
  BY <1>2, <1>3 DEF MaxInt64
<1>5. Span(len) \in Nat \ {0} /\ Span(len) = HalfSpan(len) * HalfSpan(len)
  BY <1>1 DEF Span
<1>6. Power[len] \in Nat
  BY CodecAssumption
<1>7. ASSUME len # ShortLength
      PROVE  Limit(len) \in Nat \ {0} /\ Limit(len) * Span(len) <= Power[len]
  <2>1. Span(len) <= Power[len]
    BY CodecAssumption, <1>7
  <2> DEFINE n == Span(len)
             q == Power[len] \div n
             m == Power[len] % n
  <2>2. q \in Nat /\ m \in 0 .. n - 1 /\ Power[len] = n * q + m
    BY <1>5, <1>6, Division
  <2>3. n \in Nat \ {0} /\ n <= Power[len] /\ Limit(len) = q
    BY <2>1, <1>5 DEF Limit
  <2> HIDE DEF n, q, m
  <2>4. q # 0
    BY <2>2, <2>3, <1>6
  <2>5. n * q <= Power[len] /\ n * q = q * n
    BY <2>2, <2>3, <1>6
  <2> QED
    BY <2>2, <2>3, <2>4, <2>5 DEF n
<1>8. len # ShortLength => MaxInt64 < Span(len)
  BY <1>4 DEF Span, HalfSpan
<1>9. len = ShortLength => Domain <= Span(len)
  BY CodecAssumption
<1> QED
  BY <1>1, <1>4, <1>5, <1>6, <1>7, <1>8, <1>9 DEF Halves

\* Splitting a number below Span gives two halves, and joining them gives it back.
LEMMA Splitting ==
  ASSUME NEW len \in Lengths, NEW x \in Nat, x < Span(len)
  PROVE  /\ x \div HalfSpan(len) \in Halves(len) /\ x % HalfSpan(len) \in Halves(len)
         /\ (x \div HalfSpan(len)) * HalfSpan(len) + (x % HalfSpan(len)) = x
<1> DEFINE h == HalfSpan(len)
<1>1. h \in Nat \ {0} /\ x < h * h
  BY Widths
<1> HIDE DEF h
<1>2. x \div h \in Nat /\ x % h \in 0 .. h - 1 /\ x = h * (x \div h) + (x % h)
  BY <1>1, Division
<1>3. x \div h < h
  BY <1>1, QuotientBelow
<1>4. x \div h \in 0 .. h - 1
  BY <1>1, <1>2, <1>3
<1>5. (x \div h) * h + (x % h) = x
  BY <1>1, <1>2
<1> QED
  BY <1>2, <1>4, <1>5, Widths DEF h

\* Two halves join to a number below Span and can be told from it.
LEMMA Joining ==
  ASSUME NEW len \in Lengths, NEW a \in Halves(len), NEW b \in Halves(len)
  PROVE  LET x == a * HalfSpan(len) + b
         IN  /\ x \in Nat /\ x < Span(len)
             /\ x \div HalfSpan(len) = a /\ x % HalfSpan(len) = b
<1> DEFINE h == HalfSpan(len)
<1>1. h \in Nat \ {0} /\ a \in 0 .. h - 1 /\ b \in 0 .. h - 1 /\ Span(len) = h * h
  BY Widths
<1> HIDE DEF h
<1>2. h * a + b = a * h + b /\ a * h + b \in Nat
  BY <1>1
<1>3. h * (h - 1 - a) >= 0 /\ h * (h - 1 - a) = h * h - h - h * a
  BY <1>1
<1>4. a * h + b < h * h
  BY <1>1, <1>2, <1>3
<1>5. (h * a + b) \div h = a /\ (h * a + b) % h = b
  <2>1. h \in Nat \ {0} /\ a \in Nat /\ b \in 0 .. h - 1
    BY <1>1
  <2> QED
    BY <2>1, DivisionUnique
<1> QED
  BY <1>1, <1>2, <1>4, <1>5 DEF h

\* The round function in one half, whatever AES gives.
LEMMA RoundFits ==
  ASSUME TypeOK, NEW n \in 0 .. Rounds - 1, NEW a \in Halves(length), NEW b \in Halves(length)
  PROVE  /\ F(n, b) \in Halves(length)
         /\ HalfXor(a, F(n, b)) \in Halves(length)
         /\ HalfXor(HalfXor(a, F(n, b)), F(n, b)) = a
<1>1. RoundOut(key, length, n, b) \in Nat
  BY CodecAssumption DEF TypeOK
<1>2. HalfSpan(length) \in Nat \ {0} /\ Halves(length) = 0 .. HalfSpan(length) - 1
  BY Widths DEF TypeOK
<1>3. F(n, b) \in Halves(length)
  BY <1>1, <1>2, Division DEF F, Half
<1> QED
  BY CodecAssumption, <1>3 DEF TypeOK

LEMMA PadFits ==
  ASSUME TypeOK, ~Short, NEW x \in 0..MaxInt64
  PROVE  Pad(x) \in 0 .. Limit(length) - 1
<1>1. PadOut(key, length, x) \in Nat
  BY CodecAssumption DEF TypeOK
<1>2. Limit(length) \in Nat \ {0}
  BY Widths DEF TypeOK, Short
<1> QED
  BY <1>1, <1>2, Division DEF Pad

LEMMA JoinedFits ==
  ASSUME TypeOK
  PROVE  Joined \in Nat /\ Joined < Span(length) /\ Joined \div Half = l /\ Joined % Half = r
BY Joining DEF TypeOK, Joined, Half

LEMMA TypesInit == Init => Types
<1> SUFFICES ASSUME Init PROVE Types
  OBVIOUS
<1>1. length \in Lengths /\ MaxInt64 \in Int /\ MaxInt64 >= -1
  BY Widths DEF Init
<1>2. 0 \in Halves(length)
  BY <1>1, Widths
<1>3. /\ key \in Keys /\ encodeFirst \in BOOLEAN
      /\ pc \in {"encode", "decode"} /\ z \in Nat /\ i \in Nat
      /\ l \in Halves(length) /\ r \in Halves(length)
  BY <1>2 DEF Init
<1>4. value \in -1..MaxInt64
  BY <1>1 DEF Init
<1>5. text \in Texts(length) \cup {Malformed}
  BY DEF Init
<1> QED
  BY <1>1, <1>3, <1>4, <1>5 DEF Types, TypeOK

LEMMA TypesStep == Types /\ [Next]_vars => Types'
<1> SUFFICES ASSUME Types, [Next]_vars PROVE Types'
  OBVIOUS
<1> USE DEF loopVars, trailVars
<1>0. TypeOK /\ length \in Lengths /\ length \in Nat \ {0} /\ Rounds \in Nat \ {0}
      /\ Base \in Nat \ {0} /\ MaxInt64 \in Int
  BY CodecAssumption, Widths DEF Types, TypeOK
<1>1. CASE StartEncode
  <2>1. CASE pc' = "refused"
    BY <1>0, <1>1, <2>1 DEF StartEncode, Types, TypeOK
  <2>2. CASE pc' = "perm"
    <3>1. value \in 0..MaxInt64 /\ (Short => value < Domain)
      BY <1>0, <1>1, <2>2 DEF StartEncode, TypeOK
    <3>2. value < Span(length)
      BY <1>0, <3>1, Widths, CodecAssumption DEF Short
    <3>3. l' \in Halves(length) /\ r' \in Halves(length)
      BY <1>0, <1>1, <2>2, <3>1, <3>2, Splitting DEF StartEncode, Split, Half
    <3> QED
      BY <1>0, <1>1, <2>2, <3>1, <3>3 DEF StartEncode, Types, TypeOK
  <2> QED
    BY <1>1, <2>1, <2>2 DEF StartEncode
<1>2. CASE PermRound
  <2>1. HalfXor(l, F(i, r)) \in Halves(length)
    BY <1>0, <1>2, RoundFits DEF PermRound, Types, TypeOK
  <2> QED
    BY <1>0, <1>2, <2>1 DEF PermRound, Types, TypeOK
<1>3. CASE Walk
  BY <1>0, <1>3 DEF Walk, Types, TypeOK
<1>4. CASE Permuted
  <2>1. z' \in Nat
    <3>1. Joined \in Nat /\ Span(length) \in Nat
      BY <1>0, JoinedFits, Widths
    <3>2. CASE Short
      BY <1>4, <3>1, <3>2 DEF Permuted
    <3>3. CASE ~Short
      <4>1. Pad(value) \in Nat
        BY <1>0, <1>4, <3>3, PadFits, Widths DEF Permuted, Types, Short
      <4> QED
        BY <1>4, <3>1, <3>3, <4>1 DEF Permuted
    <3> QED
      BY <3>2, <3>3
  <2> QED
    BY <1>0, <1>4, <2>1 DEF Permuted, Types, TypeOK
<1>5. CASE WriteDigit
  <2>1. z \div Base \in Nat /\ z % Base \in 0 .. Base - 1
    BY <1>0, Division DEF TypeOK
  <2>2. \A n \in DOMAIN text : text[n] \in 0 .. Base - 1
    BY <1>0 DEF TypeOK, Texts, Malformed
  <2>3. text' \in Texts(length)
    BY <1>0, <1>5, <2>1, <2>2 DEF WriteDigit, Texts
  <2> QED
    BY <1>0, <1>5, <2>1, <2>3 DEF WriteDigit, Types, TypeOK
<1>6. CASE Encoded
  BY <1>0, <1>6 DEF Encoded, Types, TypeOK
<1>7. CASE StartDecode
  BY <1>0, <1>7 DEF StartDecode, Types, TypeOK
<1>8. CASE ReadDigit
  <2>1. text[i + 1] \in Nat
    BY <1>0, <1>8 DEF ReadDigit, Types, Texts
  <2>2. z * Base + text[i + 1] \in Nat
    BY <1>0, <2>1 DEF TypeOK
  <2> QED
    BY <1>0, <1>8, <2>2 DEF ReadDigit, Types, TypeOK
<1>9. CASE Read
  <2> DEFINE x == IF Short THEN z ELSE z % Span(length)
  <2>1. CASE Short /\ z >= Domain
    BY <1>0, <1>9, <2>1 DEF Read, Types, TypeOK
  <2>2. CASE ~(Short /\ z >= Domain)
    <3>1. x \in Nat /\ x < Span(length)
      <4>1. z \in Nat /\ Span(length) \in Nat \ {0}
        BY <1>0, Widths DEF TypeOK
      <4>2. z % Span(length) \in 0 .. Span(length) - 1
        BY <4>1, Division
      <4>3. Short => Domain <= Span(length) /\ Domain \in Nat
        BY <1>0, Widths, CodecAssumption DEF Short
      <4> QED
        BY <2>2, <4>1, <4>2, <4>3
    <3>2. l' = x \div Half /\ r' = x % Half
      BY <1>9, <2>2 DEF Read, Split
    <3> HIDE DEF x
    <3>3. l' \in Halves(length) /\ r' \in Halves(length)
      BY <1>0, <3>1, <3>2, Splitting DEF Half
    <3> QED
      BY <1>0, <1>9, <2>2, <3>3 DEF Read, Types, TypeOK
  <2> QED
    BY <2>1, <2>2
<1>10. CASE UnpermRound
  <2>1. i - 1 \in 0 .. Rounds - 1
    BY <1>0, <1>10 DEF UnpermRound, Types, TypeOK
  <2>2. HalfXor(r, F(i - 1, l)) \in Halves(length)
    BY <1>0, <2>1, RoundFits DEF TypeOK
  <2> QED
    BY <1>0, <1>10, <2>1, <2>2 DEF UnpermRound, Types, TypeOK
<1>11. CASE WalkBack
  BY <1>0, <1>11 DEF WalkBack, Types, TypeOK
<1>12. CASE Unpermuted
  <2>1. Joined \in Nat
    BY <1>0, JoinedFits
  <2>2. value' \in -1..MaxInt64
    <3>1. CASE Issued(Joined)
      <4>1. Joined <= MaxInt64
        BY <1>0, <1>12, <2>1, <3>1, CodecAssumption DEF Unpermuted, Issued
      <4> QED
        BY <1>0, <1>12, <2>1, <3>1, <4>1 DEF Unpermuted
    <3>2. CASE ~Issued(Joined)
      BY <1>0, <1>12, <3>2 DEF Unpermuted, TypeOK
    <3> QED
      BY <3>1, <3>2
  <2> QED
    BY <1>0, <1>12, <2>2 DEF Unpermuted, Types, TypeOK
<1>13. CASE UNCHANGED vars
  BY <1>13 DEF vars, Types, TypeOK
<1> QED
  BY <1>1, <1>2, <1>3, <1>4, <1>5, <1>6, <1>7, <1>8, <1>9, <1>10, <1>11, <1>12, <1>13
     DEF Next

\* Type correctness of the codec, whatever the widths.
THEOREM CodecTypes == Spec => []TypeOK
<1>1. Types => TypeOK
  BY DEF Types
<1> QED
  BY <1>1, TypesInit, TypesStep, PTL DEF Spec

--------------------------------------------------------------------------------
(* Decode goes back the way Encode came. *)

Entry == Halves(length) \X Halves(length) \X (0..Rounds)

\* One turn of perm's loop, or the start of another pass over it.
Linked(a, b) ==
  \/ /\ a[3] < Rounds
     /\ b = <<a[2], HalfXor(a[1], F(a[3], a[2])), a[3] + 1>>
  \/ /\ a[3] = Rounds /\ Short /\ a[1] * Half + a[2] >= Domain
     /\ b = <<a[1], a[2], 0>>

Encodable == given \in 0..MaxInt64 /\ (Short => given < Domain)

\* The way of the permutation, from the value's halves on.
Chain ==
  /\ trail \in Seq(Entry) /\ Len(trail) >= 1
  /\ trail[1] = <<given \div Half, given % Half, 0>>
  /\ \A n \in 1 .. Len(trail) - 1 : Linked(trail[n], trail[n + 1])

\* Where on that way the halves are; up to `read' at its end.
OnTrail ==
  /\ at \in 1..Len(trail)
  /\ trail[at] = <<l, r, IF pc \in {"perm", "unperm"} THEN i ELSE Rounds>>
  /\ pc # "unperm" => at = Len(trail)

\* The number that the text stands for.
Number == IF Short THEN Joined ELSE Pad(given) * Span(length) + Joined

\* The way of the conversion, and where on it z is.
Digits ==
  /\ rests \in Seq(Nat) /\ rests[1] = Number /\ (Short => Joined < Domain)
  /\ Len(rests) = (IF pc = "write" THEN i ELSE length) + 1
  /\ \A n \in 1..Len(rests) : rests[n] < Power[length - n + 1]
  /\ \A n \in 1 .. Len(rests) - 1 : rests[n] = rests[n + 1] * Base + text[length - n + 1]
  /\ pc = "write" => z = rests[i + 1]
  /\ pc = "read" => z = rests[length - i + 1]
  /\ pc = "decode" => text \in Texts(length)

Backtrack ==
  encodeFirst =>
    /\ pc \in {"encode", "perm", "write", "decode", "read", "unperm", "done"} => value = given
    /\ pc = "refused" => given < 0 \/ (Short /\ given >= Domain)
    /\ pc \in {"perm", "write", "decode", "read", "unperm"} => Encodable /\ Chain /\ OnTrail
    /\ pc \in {"write", "decode", "read"} => Digits
    /\ pc = "unperm" /\ ~Short => z \div Span(length) = Pad(given)

LEMMA BacktrackInit == Init => Backtrack
BY DEF Init, Backtrack

\* A step that leaves the key, the length and the trail alone leaves the way alone.
LEMMA SameWay ==
  ASSUME UNCHANGED <<key, length, given, trail>>, Chain, Encodable
  PROVE  Chain' /\ Encodable'
<1>1. \A a, b : Linked(a, b) => Linked(a, b)'
  BY DEF Linked, F, Half, Short
<1>2. Entry' = Entry
  BY DEF Entry
<1>3. (given \div Half)' = given \div Half /\ (given % Half)' = given % Half
  BY DEF Half
<1> QED
  BY <1>1, <1>2, <1>3 DEF Chain, Encodable, Short

\* A turn of perm's loop adds one link.
LEMMA OneMore ==
  ASSUME UNCHANGED <<key, length, given>>, Chain, Encodable,
         NEW e \in Entry, trail' = Append(trail, e), Linked(trail[Len(trail)], e)
  PROVE  /\ Chain' /\ Encodable'
         /\ Len(trail') = Len(trail) + 1 /\ trail'[Len(trail) + 1] = e
<1>2. Entry' = Entry
  BY DEF Entry
<1>3. (given \div Half)' = given \div Half /\ (given % Half)' = given % Half
  BY DEF Half
<1>4. trail \in Seq(Entry) /\ Len(trail) \in Nat /\ Len(trail) >= 1
  BY DEF Chain
<1>5. /\ trail' \in Seq(Entry) /\ Len(trail') = Len(trail) + 1 /\ trail'[Len(trail) + 1] = e
      /\ \A n \in 1..Len(trail) : trail'[n] = trail[n]
  BY <1>4
<1>6. \A n \in 1 .. Len(trail') - 1 : Linked(trail'[n], trail'[n + 1])
  <2> TAKE n \in 1 .. Len(trail') - 1
  <2>1. CASE n = Len(trail)
    BY <1>4, <1>5, <2>1
  <2>2. CASE n # Len(trail)
    <3>1. n \in 1 .. Len(trail) - 1 /\ n \in 1..Len(trail) /\ n + 1 \in 1..Len(trail)
      BY <1>4, <1>5, <2>2
    <3> QED
      BY <1>5, <3>1 DEF Chain
  <2> QED
    BY <2>1, <2>2
<1>7. (\A n \in 1 .. Len(trail) - 1 : Linked(trail[n], trail[n + 1]))'
  BY <1>6 DEF Linked, F, Half, Short
<1>8. trail'[1] = trail[1] /\ Len(trail') >= 1
  BY <1>4, <1>5
<1> QED
  BY <1>2, <1>3, <1>5, <1>7, <1>8 DEF Chain, Encodable, Short

\* Before the first turn the halves are those of the value.
LEMMA WayStart ==
  ASSUME Types, Chain, Encodable
  PROVE  trail[1] \in Entry /\ (given \div Half) * Half + (given % Half) = given
<1>1. length \in Lengths /\ given \in Nat
  BY DEF Types, TypeOK, Encodable
<1>2. given < Span(length)
  BY <1>1, Widths, CodecAssumption DEF Encodable, Short
<1> QED
  BY <1>1, <1>2, Splitting DEF Chain, Half

\* The number put into digits is below the capacity of the length.
LEMMA NumberFits ==
  ASSUME Types, Encodable, Short => Joined < Domain
  PROVE  /\ Number \in Nat /\ Number < Power[length]
         /\ ~Short => Number \div Span(length) = Pad(given) /\ Number % Span(length) = Joined
<1>1. length \in Lengths /\ TypeOK
  BY DEF Types, TypeOK
<1>2. Joined \in Nat /\ Joined < Span(length)
  BY <1>1, JoinedFits
<1>3. CASE Short
  BY <1>2, <1>3 DEF Number, Short, Domain
<1>4. CASE ~Short
  <2> DEFINE n == Span(length)
             p == Pad(given)
             j == Joined
             m == Limit(length)
  <2>1. n \in Nat \ {0} /\ m \in Nat \ {0} /\ m * n <= Power[length] /\ Power[length] \in Nat
    BY <1>1, <1>4, Widths DEF Short
  <2>2. p \in 0 .. m - 1
    BY <1>1, <1>4, PadFits DEF Encodable
  <2>3. j \in Nat /\ j \in 0 .. n - 1
    BY <1>2, <2>1
  <2>4. Number = p * n + j
    BY <1>4 DEF Number
  <2> HIDE DEF n, p, j, m
  <2>5. p * n = n * p /\ p * n \in Nat /\ m * n \in Nat /\ m * n = n * m
    BY <2>1, <2>2
  <2>6. n * (m - 1 - p) >= 0 /\ n * (m - 1 - p) = n * m - n - n * p
    BY <2>1, <2>2
  <2>7. Number \in Nat /\ Number < Power[length]
    BY <2>1, <2>2, <2>3, <2>4, <2>5, <2>6
  <2>8. p \in Nat
    BY <2>1, <2>2
  <2>9. (n * p + j) \div n = p /\ (n * p + j) % n = j
    BY <2>1, <2>3, <2>8, DivisionUnique
  <2> QED
    BY <2>4, <2>5, <2>7, <2>9 DEF n, p, j
<1> QED
  BY <1>3, <1>4

LEMMA BacktrackStep == Types /\ Types' /\ Backtrack /\ [Next]_vars => Backtrack'
<1> SUFFICES ASSUME Types, Types', Backtrack, [Next]_vars, encodeFirst'
             PROVE  Backtrack'
  BY DEF Backtrack
<1> USE DEF loopVars, trailVars
<1>0. /\ TypeOK /\ encodeFirst /\ length \in Lengths /\ length \in Nat \ {0}
      /\ Rounds \in Nat \ {0} /\ Base \in Nat \ {0} /\ MaxInt64 \in Int
      /\ UNCHANGED <<key, length, given, encodeFirst>>
  BY CodecAssumption, Widths
  DEF Types, TypeOK, vars, Next, StartEncode, PermRound, Walk, Permuted, WriteDigit, Encoded,
      StartDecode, ReadDigit, Read, UnpermRound, WalkBack, Unpermuted
<1>1. CASE StartEncode
  <2>1. value = given /\ pc' \in {"refused", "perm"} /\ UNCHANGED value
    BY <1>0, <1>1 DEF StartEncode, Backtrack
  <2>2. CASE pc' = "refused"
    BY <1>0, <1>1, <2>1, <2>2 DEF StartEncode, Backtrack, Short
  <2>3. CASE pc' = "perm"
    <3>1. /\ value >= 0 /\ (Short => value < Domain) /\ i' = 0 /\ at' = 1
          /\ l' = given \div Half /\ r' = given % Half
          /\ trail' = << <<l', r', i'>> >>
      BY <1>1, <2>1, <2>3 DEF StartEncode, Split
    <3>2. Encodable /\ Encodable'
      BY <1>0, <2>1, <3>1 DEF Encodable, Short, TypeOK
    <3>3. <<l', r', i'>> \in Entry'
      <4>1. l' \in Halves(length)' /\ r' \in Halves(length)'
        BY DEF Types, TypeOK
      <4> QED
        BY <1>0, <3>1, <4>1 DEF Entry
    <3>4. trail' \in Seq(Entry') /\ Len(trail') = 1 /\ trail'[1] = <<l', r', i'>>
      BY <3>1, <3>3
    <3>5. (given \div Half)' = given \div Half /\ (given % Half)' = given % Half
      BY <1>0 DEF Half
    <3>6. Chain' /\ OnTrail'
      BY <1>0, <2>3, <3>1, <3>4, <3>5 DEF Chain, OnTrail
    <3> QED
      BY <1>0, <2>1, <2>3, <3>2, <3>6 DEF Backtrack
  <2> QED
    BY <2>1, <2>2, <2>3
<1>2. CASE PermRound
  <2>1. value = given /\ Encodable /\ Chain /\ OnTrail /\ pc = "perm" /\ pc' = "perm"
    BY <1>0, <1>2 DEF PermRound, Backtrack
  <2>2. /\ i \in 0 .. Rounds - 1 /\ at = Len(trail) /\ trail[Len(trail)] = <<l, r, i>>
        /\ l' = r /\ r' = HalfXor(l, F(i, r)) /\ i' = i + 1 /\ at' = at + 1
        /\ trail' = Append(trail, <<l', r', i'>>)
    BY <1>0, <1>2, <2>1 DEF PermRound, OnTrail, Types
  <2>3. l' \in Halves(length) /\ r' \in Halves(length)
    BY <1>0 DEF Types, TypeOK
  <2>4. <<l', r', i'>> \in Entry
    BY <1>0, <2>2, <2>3 DEF Entry
  <2>5. Linked(trail[Len(trail)], <<l', r', i'>>)
    <3>1. Linked(<<l, r, i>>, <<l', r', i'>>)
      BY <1>0, <2>2 DEF Linked
    <3> QED
      BY <2>2, <3>1
  <2>6. Chain' /\ Encodable' /\ Len(trail') = Len(trail) + 1 /\ trail'[Len(trail) + 1] = <<l', r', i'>>
    BY <1>0, <2>1, <2>2, <2>4, <2>5, OneMore
  <2>7. OnTrail'
    BY <2>1, <2>2, <2>6 DEF OnTrail, Chain
  <2> QED
    BY <1>0, <1>2, <2>1, <2>6, <2>7 DEF PermRound, Backtrack
<1>3. CASE Walk
  <2>1. value = given /\ Encodable /\ Chain /\ OnTrail /\ pc = "perm" /\ pc' = "perm"
    BY <1>0, <1>3 DEF Walk, Backtrack
  <2>2. /\ i = Rounds /\ at = Len(trail) /\ trail[Len(trail)] = <<l, r, i>>
        /\ Short /\ Joined >= Domain
        /\ l' = l /\ r' = r /\ i' = 0 /\ at' = at + 1
        /\ trail' = Append(trail, <<l, r, i'>>)
    BY <1>0, <1>3, <2>1 DEF Walk, OnTrail
  <2>4. <<l, r, i'>> \in Entry
    BY <1>0, <2>2 DEF Entry, TypeOK
  <2>5. Linked(trail[Len(trail)], <<l, r, i'>>)
    BY <2>2 DEF Linked, Joined
  <2>6. Chain' /\ Encodable' /\ Len(trail') = Len(trail) + 1 /\ trail'[Len(trail) + 1] = <<l, r, i'>>
    BY <1>0, <2>1, <2>2, <2>4, <2>5, OneMore
  <2>7. OnTrail'
    BY <2>1, <2>2, <2>6 DEF OnTrail, Chain
  <2> QED
    BY <1>0, <1>3, <2>1, <2>6, <2>7 DEF Walk, Backtrack
<1>4. CASE Permuted
  <2>1. value = given /\ Encodable /\ Chain /\ OnTrail /\ pc = "perm" /\ pc' = "write"
    BY <1>0, <1>4 DEF Permuted, Backtrack
  <2>2. /\ i = Rounds /\ (Short => Joined < Domain) /\ z' = Number /\ i' = 0
        /\ rests' = <<z'>> /\ UNCHANGED <<l, r, trail, at, value, text>>
    BY <1>4, <2>1 DEF Permuted, Number
  <2>3. Chain' /\ Encodable'
    BY <1>0, <2>1, <2>2, SameWay
  <2>4. OnTrail'
    BY <2>1, <2>2 DEF OnTrail
  <2>5. Number \in Nat /\ Number < Power[length]
    BY <2>1, <2>2, NumberFits
  <2>6. Number' = Number /\ Joined' = Joined /\ Short' = Short
    BY <1>0, <2>2 DEF Number, Joined, Half, Short, Pad
  <2>7. rests' \in Seq(Nat) /\ Len(rests') = 1 /\ rests'[1] = z'
    BY <2>2, <2>5
  <2>8. Digits'
    BY <1>0, <2>1, <2>2, <2>5, <2>6, <2>7 DEF Digits
  <2> QED
    BY <1>0, <2>1, <2>2, <2>3, <2>4, <2>8 DEF Backtrack
<1>5. CASE WriteDigit
  <2>1. /\ value = given /\ Encodable /\ Chain /\ OnTrail /\ Digits
        /\ pc = "write" /\ pc' = "write"
    BY <1>0, <1>5 DEF WriteDigit, Backtrack
  <2>2. /\ i \in 0 .. length - 1 /\ i' = i + 1 /\ z' = z \div Base /\ z = rests[i + 1]
        /\ Len(rests) = i + 1 /\ rests' = Append(rests, z')
        /\ UNCHANGED <<l, r, trail, at, value>>
    BY <1>0, <1>5, <2>1 DEF WriteDigit, Digits, Types
  <2>3. Chain' /\ Encodable'
    BY <1>0, <2>1, <2>2, SameWay
  <2>4. OnTrail'
    BY <2>1, <2>2 DEF OnTrail
  <2>5. Number' = Number /\ Joined' = Joined /\ Short' = Short
    BY <1>0, <2>2 DEF Number, Joined, Half, Short, Pad
  <2>6. z \in Nat /\ z' \in Nat /\ z = Base * z' + (z % Base) /\ z % Base \in 0 .. Base - 1
    BY <1>0, <2>2, Division DEF TypeOK
  <2>7. /\ rests' \in Seq(Nat) /\ Len(rests') = i + 2 /\ rests'[i + 2] = z'
        /\ \A n \in 1 .. i + 1 : rests'[n] = rests[n]
    BY <2>1, <2>2, <2>6 DEF Digits
  <2>8. text'[length - i] = z % Base
    BY <1>0, <1>5, <2>2 DEF WriteDigit
  <2>9. \A n \in 1..i : text'[length - n + 1] = text[length - n + 1]
    <3>1. CASE i = 0
      BY <3>1
    <3>2. CASE i > 0
      <4>1. DOMAIN text = 1..length
        BY <2>1, <3>2 DEF Types, Texts
      <4> QED
        BY <1>0, <1>5, <2>2, <4>1 DEF WriteDigit
    <3> QED
      BY <2>2, <3>1, <3>2
  <2>10. \A n \in 1 .. i + 1 : rests'[n] = rests'[n + 1] * Base + text'[length - n + 1]
    <3> TAKE n \in 1 .. i + 1
    <3>1. CASE n = i + 1
      <4>1. z' * Base = Base * z' /\ length - n + 1 = length - i
        BY <1>0, <2>2, <2>6, <3>1
      <4> QED
        BY <2>2, <2>6, <2>7, <2>8, <3>1, <4>1
    <3>2. CASE n # i + 1
      <4>1. n \in 1..i /\ n \in 1 .. i + 1 /\ n + 1 \in 1 .. i + 1 /\ n \in 1 .. Len(rests) - 1
        BY <2>2, <3>2
      <4>2. rests[n] = rests[n + 1] * Base + text[length - n + 1]
        BY <2>1, <4>1 DEF Digits
      <4> QED
        BY <2>7, <2>9, <4>1, <4>2
    <3> QED
      BY <3>1, <3>2
  <2>11. z' < Power[length - i - 1]
    <3>1. z < Power[length - i]
      <4>1. i + 1 \in 1..Len(rests) /\ length - (i + 1) + 1 = length - i
        BY <1>0, <2>2
      <4> QED
        BY <2>1, <2>2, <4>1 DEF Digits
    <3>2. length - i - 1 \in 0 .. length - 1 /\ (length - i - 1) + 1 = length - i
      BY <1>0, <2>2
    <3>3. Power[length - i] = Base * Power[length - i - 1] /\ Power[length - i - 1] \in Nat
      <4>1. length - i - 1 \in 0..length
        BY <1>0, <2>2
      <4> QED
        BY <1>0, <3>2, <4>1, CodecAssumption
    <3> QED
      BY <1>0, <2>2, <2>6, <3>1, <3>3, QuotientBelow
  <2>12. \A n \in 1 .. i + 2 : rests'[n] < Power[length - n + 1]
    <3> TAKE n \in 1 .. i + 2
    <3>1. CASE n = i + 2
      <4>1. length - n + 1 = length - i - 1
        BY <1>0, <2>2, <3>1
      <4> QED
        BY <2>7, <2>11, <3>1, <4>1
    <3>2. CASE n # i + 2
      <4>1. n \in 1 .. i + 1 /\ n \in 1..Len(rests)
        BY <2>2, <3>2
      <4> QED
        BY <2>1, <2>7, <4>1 DEF Digits
    <3> QED
      BY <3>1, <3>2
  <2>13. rests'[1] = Number' /\ (Short' => Joined' < Domain)
    BY <2>1, <2>2, <2>5, <2>7 DEF Digits
  <2>14. Digits'
    <3>1. Len(rests') = i' + 1 /\ Len(rests') - 1 = i + 1 /\ z' = rests'[i' + 1]
      BY <2>2, <2>7
    <3> QED
      BY <1>0, <2>1, <2>7, <2>10, <2>12, <2>13, <3>1 DEF Digits
  <2> QED
    BY <1>0, <2>1, <2>2, <2>3, <2>4, <2>14 DEF Backtrack
<1>6. CASE Encoded
  <2>1. /\ value = given /\ Encodable /\ Chain /\ OnTrail /\ Digits
        /\ pc = "write" /\ pc' = "decode" /\ i = length
        /\ UNCHANGED <<l, r, i, z, trail, at, value, text, rests>>
    BY <1>0, <1>6 DEF Encoded, Backtrack
  <2>2. Chain' /\ Encodable'
    BY <1>0, <2>1, SameWay
  <2>3. OnTrail'
    BY <2>1 DEF OnTrail
  <2>4. Number' = Number /\ Joined' = Joined /\ Short' = Short
    BY <1>0, <2>1 DEF Number, Joined, Half, Short, Pad
  <2>5. text \in Texts(length) /\ text' \in Texts(length)'
    BY <1>0, <2>1 DEF Types
  <2>6. Digits'
    BY <1>0, <2>1, <2>4, <2>5 DEF Digits
  <2> QED
    BY <1>0, <2>1, <2>2, <2>3, <2>6 DEF Backtrack
<1>7. CASE StartDecode
  <2>1. /\ value = given /\ Encodable /\ Chain /\ OnTrail /\ Digits /\ pc = "decode"
    BY <1>0, <1>7 DEF StartDecode, Backtrack
  <2>2. text # Malformed
    <3>1. text \in [1..length -> 0 .. Base - 1] /\ DOMAIN text = 1..length /\ 1 \in 1..length
      BY <1>0, <2>1 DEF Digits, Texts
    <3>2. DOMAIN Malformed = {}
      BY DEF Malformed
    <3> QED
      BY <3>1, <3>2
  <2>3. pc' = "read" /\ z' = 0 /\ i' = 0 /\ UNCHANGED <<l, r, trail, at, value, text, rests>>
    BY <1>7, <2>2 DEF StartDecode
  <2>4. Chain' /\ Encodable'
    BY <1>0, <2>1, <2>3, SameWay
  <2>5. OnTrail'
    BY <2>1, <2>3 DEF OnTrail
  <2>6. Number' = Number /\ Joined' = Joined /\ Short' = Short
    BY <1>0, <2>3 DEF Number, Joined, Half, Short, Pad
  <2>7. rests[length + 1] = 0
    <3>1. /\ rests \in Seq(Nat) /\ Len(rests) = length + 1 /\ length + 1 \in 1..Len(rests)
          /\ length - (length + 1) + 1 = 0
      BY <1>0, <2>1 DEF Digits
    <3>2. rests[length + 1] < Power[0] /\ rests[length + 1] \in Nat
      BY <2>1, <3>1 DEF Digits
    <3>3. Power[0] = 1
      BY <1>0, CodecAssumption
    <3> QED
      BY <3>2, <3>3
  <2>8. Digits'
    <3>1. length - i' + 1 = length + 1
      BY <1>0, <2>3
    <3> QED
      BY <1>0, <2>1, <2>3, <2>6, <2>7, <3>1 DEF Digits
  <2> QED
    BY <1>0, <2>1, <2>3, <2>4, <2>5, <2>8 DEF Backtrack
<1>8. CASE ReadDigit
  <2>1. /\ value = given /\ Encodable /\ Chain /\ OnTrail /\ Digits
        /\ pc = "read" /\ pc' = "read" /\ i < length
        /\ z' = z * Base + text[i + 1] /\ i' = i + 1
        /\ UNCHANGED <<l, r, trail, at, value, text, rests>>
    BY <1>0, <1>8 DEF ReadDigit, Backtrack
  <2>2. Chain' /\ Encodable'
    BY <1>0, <2>1, SameWay
  <2>3. OnTrail'
    BY <2>1 DEF OnTrail
  <2>4. Number' = Number /\ Joined' = Joined /\ Short' = Short
    BY <1>0, <2>1 DEF Number, Joined, Half, Short, Pad
  <2>5. z' = rests[length - i' + 1]
    <3> DEFINE n == length - i
    <3>1. i \in Nat /\ n \in 1..length
      BY <1>0, <2>1 DEF Types
    <3>a. Len(rests) = length + 1
      BY <2>1 DEF Digits
    <3>2. /\ n \in 1 .. Len(rests) - 1 /\ length - n + 1 = i + 1
          /\ length - i + 1 = n + 1 /\ length - i' + 1 = n
      BY <1>0, <2>1, <3>1, <3>a
    <3> HIDE DEF n
    <3>3. rests[n] = rests[n + 1] * Base + text[i + 1] /\ z = rests[n + 1]
      BY <2>1, <3>2 DEF Digits
    <3> QED
      BY <2>1, <3>2, <3>3
  <2>6. Digits'
    BY <1>0, <2>1, <2>4, <2>5 DEF Digits
  <2> QED
    BY <1>0, <2>1, <2>2, <2>3, <2>6 DEF Backtrack
<1>9. CASE Read
  <2>1. /\ value = given /\ Encodable /\ Chain /\ OnTrail /\ Digits /\ pc = "read" /\ i = length
        /\ UNCHANGED <<z, trail, at, value, text, rests>>
    BY <1>0, <1>9 DEF Read, Backtrack
  <2>2. z = Number
    <3>1. length - i + 1 = 1
      BY <1>0, <2>1
    <3> QED
      BY <2>1, <3>1 DEF Digits
  <2>3. Short => Joined < Domain
    BY <2>1 DEF Digits
  <2>4. /\ Number \in Nat
        /\ ~Short => Number \div Span(length) = Pad(given) /\ Number % Span(length) = Joined
    BY <2>1, <2>3, NumberFits
  <2>5. Joined \in Nat /\ Joined \div Half = l /\ Joined % Half = r /\ Domain \in Nat
    BY <1>0, JoinedFits, CodecAssumption
  <2>6. (IF Short THEN z ELSE z % Span(length)) = Joined /\ ~(Short /\ z >= Domain)
    <3>1. CASE Short
      BY <2>2, <2>3, <2>5, <3>1 DEF Number
    <3>2. CASE ~Short
      BY <2>2, <2>4, <3>2
    <3> QED
      BY <3>1, <3>2
  <2>7. pc' = "unperm" /\ l' = l /\ r' = r /\ i' = Rounds
    BY <1>9, <2>5, <2>6 DEF Read, Split
  <2>8. Chain' /\ Encodable'
    BY <1>0, <2>1, SameWay
  <2>9. OnTrail'
    BY <2>1, <2>7 DEF OnTrail
  <2>10. ~Short' => (z \div Span(length) = Pad(given))'
    BY <1>0, <2>1, <2>2, <2>4 DEF Pad, Short
  <2> QED
    BY <1>0, <2>1, <2>7, <2>8, <2>9, <2>10 DEF Backtrack
<1>10. CASE UnpermRound
  <2>1. /\ value = given /\ Encodable /\ Chain /\ OnTrail /\ pc = "unperm" /\ pc' = "unperm"
        /\ i > 0 /\ l' = HalfXor(r, F(i - 1, l)) /\ r' = l /\ i' = i - 1 /\ at' = at - 1
        /\ UNCHANGED <<z, trail, value, text, rests>>
    BY <1>0, <1>10 DEF UnpermRound, Backtrack
  <2>2. Chain' /\ Encodable'
    BY <1>0, <2>1, SameWay
  <2>3. at \in 1..Len(trail) /\ trail[at] = <<l, r, i>> /\ Len(trail) \in Nat
    BY <2>1 DEF OnTrail, Chain
  <2>4. at # 1
    BY <2>1, <2>3 DEF Chain
  <2> DEFINE a == trail[at - 1]
  <2>5. at - 1 \in 1 .. Len(trail) - 1 /\ at - 1 \in 1..Len(trail) /\ (at - 1) + 1 = at
    BY <2>3, <2>4
  <2>6. Linked(a, trail[at]) /\ a \in Entry
    <3>1. Linked(trail[at - 1], trail[(at - 1) + 1]) /\ trail \in Seq(Entry)
      BY <2>1, <2>5 DEF Chain
    <3> QED
      BY <2>5, <3>1
  <2>7. /\ a[1] \in Halves(length) /\ a[2] \in Halves(length) /\ a[3] \in 0..Rounds
        /\ a = <<a[1], a[2], a[3]>>
    BY <2>6 DEF Entry
  <2> HIDE DEF a
  <2>8. a[3] < Rounds /\ <<l, r, i>> = <<a[2], HalfXor(a[1], F(a[3], a[2])), a[3] + 1>>
    BY <2>1, <2>3, <2>6 DEF Linked
  <2>9. l = a[2] /\ r = HalfXor(a[1], F(a[3], a[2])) /\ a[3] = i - 1 /\ a[3] \in 0 .. Rounds - 1
    BY <1>0, <2>7, <2>8
  <2>10. HalfXor(HalfXor(a[1], F(a[3], a[2])), F(a[3], a[2])) = a[1]
    BY <1>0, <2>7, <2>9, RoundFits
  <2>11. <<l', r', i'>> = a
    BY <2>1, <2>7, <2>9, <2>10
  <2>12. OnTrail'
    BY <2>1, <2>5, <2>11 DEF OnTrail, a
  <2>13. ~Short' => (z \div Span(length) = Pad(given))'
    BY <1>0, <2>1 DEF Backtrack, Pad, Short
  <2> QED
    BY <1>0, <2>1, <2>2, <2>12, <2>13 DEF Backtrack
<1>11. CASE WalkBack
  <2>1. /\ value = given /\ Encodable /\ Chain /\ OnTrail /\ pc = "unperm" /\ pc' = "unperm"
        /\ i = 0 /\ Short /\ Joined >= Domain /\ i' = Rounds /\ at' = at - 1
        /\ UNCHANGED <<z, l, r, trail, value, text, rests>>
    BY <1>0, <1>11 DEF WalkBack, Backtrack
  <2>2. Chain' /\ Encodable'
    BY <1>0, <2>1, SameWay
  <2>3. at \in 1..Len(trail) /\ trail[at] = <<l, r, 0>> /\ Len(trail) \in Nat
    BY <2>1 DEF OnTrail, Chain
  <2>4. at # 1
    <3> SUFFICES ASSUME at = 1 PROVE FALSE
      OBVIOUS
    <3>1. l = given \div Half /\ r = given % Half
      BY <2>1, <2>3 DEF Chain
    <3>2. Joined = given
      BY <2>1, <3>1, WayStart DEF Joined
    <3> QED
      BY <2>1, <3>2, CodecAssumption DEF Encodable
  <2> DEFINE a == trail[at - 1]
  <2>5. at - 1 \in 1 .. Len(trail) - 1 /\ at - 1 \in 1..Len(trail) /\ (at - 1) + 1 = at
    BY <2>3, <2>4
  <2>6. Linked(a, trail[at]) /\ a \in Entry
    <3>1. Linked(trail[at - 1], trail[(at - 1) + 1]) /\ trail \in Seq(Entry)
      BY <2>1, <2>5 DEF Chain
    <3> QED
      BY <2>5, <3>1
  <2>7. a[3] \in 0..Rounds /\ a = <<a[1], a[2], a[3]>>
    BY <2>6 DEF Entry
  <2> HIDE DEF a
  <2>8. a[3] = Rounds /\ <<l, r, 0>> = <<a[1], a[2], 0>>
    BY <1>0, <2>3, <2>6, <2>7 DEF Linked
  <2>9. <<l', r', i'>> = a
    BY <2>1, <2>7, <2>8
  <2>10. OnTrail'
    BY <2>1, <2>5, <2>9 DEF OnTrail, a
  <2> QED
    BY <1>0, <2>1, <2>2, <2>10 DEF Backtrack, Short
<1>12. CASE Unpermuted
  <2>1. /\ value = given /\ Encodable /\ Chain /\ OnTrail /\ pc = "unperm" /\ i = 0
        /\ (Short => Joined < Domain)
    BY <1>0, <1>12 DEF Unpermuted, Backtrack
  <2>2. at \in 1..Len(trail) /\ trail[at] = <<l, r, 0>> /\ Len(trail) \in Nat
    BY <2>1 DEF OnTrail, Chain
  <2>3. at = 1
    <3> SUFFICES ASSUME at # 1 PROVE FALSE
      OBVIOUS
    <3> DEFINE a == trail[at - 1]
    <3>1. at - 1 \in 1 .. Len(trail) - 1 /\ at - 1 \in 1..Len(trail) /\ (at - 1) + 1 = at
      BY <2>2
    <3>2. Linked(a, trail[at]) /\ a \in Entry
      BY <2>1, <3>1 DEF Chain
    <3>3. a[3] \in 0..Rounds
      BY <3>2 DEF Entry
    <3> HIDE DEF a
    <3>4. Short /\ a[1] * Half + a[2] >= Domain /\ <<l, r, 0>> = <<a[1], a[2], 0>>
      BY <1>0, <2>2, <3>2, <3>3 DEF Linked
    <3>5. Joined >= Domain
      BY <3>4 DEF Joined
    <3> QED
      BY <1>0, <2>1, <3>4, <3>5, JoinedFits, CodecAssumption
  <2>4. Joined = given
    <3>1. l = given \div Half /\ r = given % Half
      BY <2>1, <2>2, <2>3 DEF Chain
    <3> QED
      BY <2>1, <3>1, WayStart DEF Joined
  <2>5. Issued(Joined)
    BY <1>0, <2>1, <2>4 DEF Issued, Backtrack, Encodable
  <2>6. value' = given /\ pc' = "done"
    BY <1>0, <1>12, <2>4, <2>5 DEF Unpermuted
  <2> QED
    BY <1>0, <2>6 DEF Backtrack
<1>13. CASE UNCHANGED vars
  <2>1. Chain /\ Encodable => Chain' /\ Encodable'
    BY <1>13, SameWay DEF vars
  <2>2. OnTrail' = OnTrail
    BY <1>13 DEF vars, OnTrail
  <2>3. Number' = Number /\ Joined' = Joined /\ Short' = Short /\ Pad(given)' = Pad(given)
    BY <1>13 DEF vars, Number, Joined, Half, Short, Pad
  <2>4. Digits' = Digits
    BY <1>13, <2>3 DEF vars, Digits
  <2> QED
    BY <1>0, <1>13, <2>1, <2>2, <2>3, <2>4 DEF vars, Backtrack
<1> QED
  BY <1>1, <1>2, <1>3, <1>4, <1>5, <1>6, <1>7, <1>8, <1>9, <1>10, <1>11, <1>12, <1>13
     DEF Next

\* Decode returns what Encode was given, and neither refuses it: the codec never maps
\* two values of an entity to one string, whatever the key and the round function.
THEOREM DecodeInvertsEncode == Spec => []RoundTrip
<1>1. Init => Types /\ Backtrack
  BY TypesInit, BacktrackInit
<1>2. Types /\ Backtrack /\ [Next]_vars => (Types /\ Backtrack)'
  BY TypesStep, BacktrackStep
<1>3. Backtrack => RoundTrip
  BY DEF Backtrack, RoundTrip
<1> QED
  BY <1>1, <1>2, <1>3, PTL DEF Spec

--------------------------------------------------------------------------------
(* Encode goes back the way Decode came. *)

\* One turn of unperm's loop, or the start of another pass over it.
Undone(a, b) ==
  \/ /\ a[3] > 0
     /\ b = <<HalfXor(a[2], F(a[3] - 1, a[1])), a[1], a[3] - 1>>
  \/ /\ a[3] = 0 /\ Short /\ a[1] * Half + a[2] >= Domain
     /\ b = <<a[1], a[2], Rounds>>

\* The number read from the text, and the part of it that was permuted.
WasRead == reads[length + 1]
WasPermuted == IF Short THEN WasRead ELSE WasRead % Span(length)

\* How z came from the digits.
Reading ==
  /\ given \in Texts(length) /\ reads \in Seq(Nat) /\ reads[1] = 0
  /\ Len(reads) = (IF pc = "read" THEN i ELSE length) + 1
  /\ \A n \in 1 .. Len(reads) - 1 : reads[n + 1] = reads[n] * Base + given[n]

\* The way of the inverse permutation, from the halves of what was read on.
ChainBack ==
  /\ back \in Seq(Entry) /\ Len(back) >= 1
  /\ back[1] = <<WasPermuted \div Half, WasPermuted % Half, Rounds>>
  /\ Short => WasRead < Domain
  /\ \A n \in 1 .. Len(back) - 1 : Undone(back[n], back[n + 1])

\* What Decode knew of the value when it accepted the text.
Accepted ==
  /\ value \in 0..MaxInt64 /\ (Short => value < Domain)
  /\ ~Short => WasRead \div Span(length) = Pad(value)

\* Where Encode's loop is on the way of Decode's.
Reached == Len(back) - Len(trail) + 1

Retrace ==
  ~encodeFirst =>
    /\ text = given
    /\ pc \in {"decode", "read", "unperm", "refused"} => value = -1
    /\ pc \in {"read", "unperm", "encode", "perm", "write"} => Reading
    /\ pc = "read" => z = reads[i + 1]
    /\ pc \in {"unperm", "encode", "perm"} => ChainBack
    /\ pc = "unperm" => z = WasRead /\ back[Len(back)] = <<l, r, i>>
    /\ pc \in {"encode", "perm"} => Accepted
    /\ pc = "encode" => back[Len(back)] = <<value \div Half, value % Half, 0>>
    /\ pc = "perm" => /\ trail \in Seq(Entry) /\ Len(trail) \in 1..Len(back)
                      /\ back[Reached] = <<l, r, i>>
    /\ pc = "write" => z = reads[length - i + 1]

LEMMA RetraceInit == Init => Retrace
BY DEF Init, Retrace

\* A step that leaves the key, the length and the way back alone leaves what is said of it.
LEMMA SameWayBack ==
  ASSUME UNCHANGED <<key, length, given, back, reads>>, ChainBack
  PROVE  ChainBack'
<1>1. \A a, b : Undone(a, b) => Undone(a, b)'
  BY DEF Undone, F, Half, Short
<1>2. Entry' = Entry /\ Short' = Short /\ Half' = Half
  BY DEF Entry, Half, Short
<1>3. WasRead' = WasRead /\ WasPermuted' = WasPermuted
  BY <1>2 DEF WasRead, WasPermuted
<1> QED
  BY <1>1, <1>2, <1>3 DEF ChainBack

\* A turn of unperm's loop adds one link.
LEMMA OneMoreBack ==
  ASSUME UNCHANGED <<key, length, given, reads>>, ChainBack,
         NEW e \in Entry, back' = Append(back, e), Undone(back[Len(back)], e)
  PROVE  ChainBack' /\ back'[Len(back')] = e
<1>1. Entry' = Entry /\ Short' = Short /\ Half' = Half
  BY DEF Entry, Half, Short
<1>2. WasRead' = WasRead /\ WasPermuted' = WasPermuted
  BY <1>1 DEF WasRead, WasPermuted
<1>3. back \in Seq(Entry) /\ Len(back) \in Nat /\ Len(back) >= 1
  BY DEF ChainBack
<1>4. /\ back' \in Seq(Entry) /\ Len(back') = Len(back) + 1 /\ back'[Len(back) + 1] = e
      /\ \A n \in 1..Len(back) : back'[n] = back[n]
  BY <1>3
<1>5. \A n \in 1 .. Len(back') - 1 : Undone(back'[n], back'[n + 1])
  <2> TAKE n \in 1 .. Len(back') - 1
  <2>1. CASE n = Len(back)
    BY <1>3, <1>4, <2>1
  <2>2. CASE n # Len(back)
    <3>1. n \in 1 .. Len(back) - 1 /\ n \in 1..Len(back) /\ n + 1 \in 1..Len(back)
      BY <1>3, <1>4, <2>2
    <3> QED
      BY <1>4, <3>1 DEF ChainBack
  <2> QED
    BY <2>1, <2>2
<1>6. (\A n \in 1 .. Len(back) - 1 : Undone(back[n], back[n + 1]))'
  BY <1>5 DEF Undone, F, Half, Short
<1>7. back'[1] = back[1] /\ Len(back') >= 1
  BY <1>3, <1>4
<1> QED
  BY <1>1, <1>2, <1>4, <1>6, <1>7 DEF ChainBack

\* The halves that unperm starts from join to what was permuted.
LEMMA WayBackStart ==
  ASSUME TypeOK, Reading, ChainBack, pc # "read"
  PROVE  /\ WasRead \in Nat /\ WasPermuted \in Nat
         /\ (WasPermuted \div Half) * Half + (WasPermuted % Half) = WasPermuted
         /\ ~Short => WasRead = (WasRead \div Span(length)) * Span(length) + WasPermuted
<1>1. length \in Lengths /\ length \in Nat \ {0} /\ Span(length) \in Nat \ {0}
  BY Widths, CodecAssumption DEF TypeOK
<1>2. WasRead \in Nat
  <2>1. length + 1 \in 1..Len(reads)
    BY <1>1 DEF Reading
  <2> QED
    BY <2>1 DEF Reading, WasRead
<1>3. WasPermuted \in Nat /\ WasPermuted < Span(length)
  <2>1. CASE Short
    BY <1>1, <1>2, <2>1, CodecAssumption DEF ChainBack, WasPermuted, Short
  <2>2. CASE ~Short
    BY <1>1, <1>2, <2>2, Division DEF WasPermuted
  <2> QED
    BY <2>1, <2>2
<1>4. ~Short => WasRead = (WasRead \div Span(length)) * Span(length) + WasPermuted
  <2> SUFFICES ASSUME ~Short
               PROVE  WasRead = (WasRead \div Span(length)) * Span(length) + WasPermuted
    OBVIOUS
  <2>1. PICK n \in Nat \ {0} : n = Span(length)
    BY <1>1
  <2>2. PICK w \in Nat : w = WasRead
    BY <1>2
  <2>3. PICK q \in Nat : q = w \div n
    BY <2>1, Division
  <2>4. PICK k \in Nat : k = w % n
    BY <2>1, Division
  <2>5. w = n * q + k
    BY <2>3, <2>4, Division
  <2>6. w = q * n + k
    BY <2>5
  <2> QED
    BY <2>1, <2>2, <2>3, <2>4, <2>6 DEF WasPermuted
<1> QED
  BY <1>1, <1>2, <1>3, <1>4, Splitting DEF Half

\* What was read stays, once it is read.
LEMMA SameReading ==
  ASSUME UNCHANGED <<length, given, reads>>, Reading, pc' # "read",
         pc # "read" \/ i = length
  PROVE  Reading'
BY DEF Reading, Texts

LEMMA SameValue ==
  ASSUME UNCHANGED <<key, length, given, reads, value>>, Accepted
  PROVE  Accepted'
BY DEF Accepted, WasRead, Short, Pad

LEMMA RetraceStep == Types /\ Types' /\ Retrace /\ [Next]_vars => Retrace'
<1> SUFFICES ASSUME Types, Types', Retrace, [Next]_vars, ~encodeFirst'
             PROVE  Retrace'
  BY DEF Retrace
<1> USE DEF loopVars, trailVars, backVars
<1>0. /\ TypeOK /\ ~encodeFirst /\ length \in Lengths /\ length \in Nat \ {0}
      /\ Rounds \in Nat \ {0} /\ Base \in Nat \ {0} /\ MaxInt64 \in Int /\ Domain \in Int
      /\ UNCHANGED <<key, length, given, encodeFirst>>
  <2>1. Domain \in Int
    BY CodecAssumption
  <2> QED
    BY <2>1, CodecAssumption, Widths
    DEF Types, TypeOK, vars, Next, StartEncode, PermRound, Walk, Permuted, WriteDigit, Encoded,
        StartDecode, ReadDigit, Read, UnpermRound, WalkBack, Unpermuted
<1>a. /\ l \in Halves(length) /\ r \in Halves(length) /\ i \in Nat /\ z \in Nat
      /\ l' \in Halves(length) /\ r' \in Halves(length)
  BY <1>0 DEF Types, TypeOK
<1>1. CASE StartEncode
  <2>1. /\ pc = "encode" /\ Reading /\ ChainBack /\ Accepted /\ text = given
        /\ back[Len(back)] = <<value \div Half, value % Half, 0>>
        /\ UNCHANGED <<value, text, back, reads>>
    BY <1>0, <1>1 DEF StartEncode, Retrace
  <2>2. value >= 0 /\ (Short => value < Domain)
    BY <1>0, <2>1 DEF Accepted
  <2>3. ~(value < 0 \/ (Short /\ value >= Domain))
    BY <1>0, <2>1, <2>2 DEF Accepted
  <2>4. /\ pc' = "perm" /\ l' = value \div Half /\ r' = value % Half /\ i' = 0
        /\ trail' = << <<l', r', i'>> >>
    BY <1>1, <2>3 DEF StartEncode, Split
  <2>5. trail' \in Seq(Entry') /\ Len(trail') = 1
    <3>1. <<l', r', i'>> \in Entry'
      BY <1>0, <1>a, <2>4 DEF Entry
    <3> QED
      BY <2>4, <3>1
  <2>6. Len(back) \in Nat /\ Len(back) >= 1
    BY <2>1 DEF ChainBack
  <2>7. Reached' = Len(back') /\ back'[Reached'] = <<l', r', i'>> /\ Len(trail') \in 1..Len(back')
    BY <2>1, <2>4, <2>5, <2>6 DEF Reached
  <2>8. Reading' /\ ChainBack' /\ Accepted'
    BY <1>0, <2>1, <2>4, SameReading, SameWayBack, SameValue
  <2> QED
    BY <1>0, <2>1, <2>4, <2>5, <2>7, <2>8 DEF Retrace
<1>2. CASE PermRound
  <2>1. /\ pc = "perm" /\ pc' = "perm" /\ Reading /\ ChainBack /\ Accepted /\ text = given
        /\ trail \in Seq(Entry) /\ Len(trail) \in 1..Len(back) /\ back[Reached] = <<l, r, i>>
        /\ i < Rounds /\ l' = r /\ r' = HalfXor(l, F(i, r)) /\ i' = i + 1
        /\ trail' = Append(trail, <<l', r', i'>>)
        /\ UNCHANGED <<value, text, back, reads>>
    BY <1>0, <1>2 DEF PermRound, Retrace
  <2>2. PICK n \in 1..Len(back) : n = Reached
    BY <2>1 DEF Reached, ChainBack
  <2>3. Len(back) \in Nat /\ Len(trail) \in Nat /\ n = Len(back) - Len(trail) + 1
    BY <2>1, <2>2 DEF Reached, ChainBack
  <2>4. n # 1
    BY <1>0, <1>a, <2>1, <2>2 DEF ChainBack
  <2>5. n - 1 \in 1 .. Len(back) - 1 /\ n - 1 \in 1..Len(back) /\ (n - 1) + 1 = n
    BY <2>2, <2>3, <2>4
  <2>6. PICK a \in Entry : a = back[n - 1]
    BY <2>1, <2>5 DEF ChainBack
  <2>7. Undone(a, <<l, r, i>>)
    BY <2>1, <2>2, <2>5, <2>6 DEF ChainBack
  <2>8. /\ a[1] \in Halves(length) /\ a[2] \in Halves(length) /\ a[3] \in 0..Rounds
        /\ a = <<a[1], a[2], a[3]>>
    BY DEF Entry
  <2>9. a[3] > 0 /\ <<l, r, i>> = <<HalfXor(a[2], F(a[3] - 1, a[1])), a[1], a[3] - 1>>
    BY <1>0, <1>a, <2>1, <2>7 DEF Undone
  <2>10. a[3] = i + 1 /\ r = a[1] /\ l = HalfXor(a[2], F(i, r)) /\ i \in 0 .. Rounds - 1
    BY <1>0, <1>a, <2>1, <2>8, <2>9
  <2>11. HalfXor(HalfXor(a[2], F(i, r)), F(i, r)) = a[2]
    BY <1>0, <1>a, <2>8, <2>10, RoundFits
  <2>12. <<l', r', i'>> = a
    BY <2>1, <2>8, <2>10, <2>11
  <2>13. /\ trail' \in Seq(Entry) /\ Len(trail') = Len(trail) + 1 /\ Entry' = Entry
    BY <1>0, <2>1, <2>12 DEF Entry
  <2>14. Len(trail') \in 1..Len(back') /\ Reached' = n - 1
    BY <2>1, <2>3, <2>5, <2>13 DEF Reached
  <2>15. Reading' /\ ChainBack' /\ Accepted'
    BY <1>0, <2>1, SameReading, SameWayBack, SameValue
  <2> QED
    BY <1>0, <2>1, <2>6, <2>12, <2>13, <2>14, <2>15 DEF Retrace
<1>3. CASE Walk
  <2>1. /\ pc = "perm" /\ pc' = "perm" /\ Reading /\ ChainBack /\ Accepted /\ text = given
        /\ trail \in Seq(Entry) /\ Len(trail) \in 1..Len(back) /\ back[Reached] = <<l, r, i>>
        /\ i = Rounds /\ Short /\ Joined >= Domain /\ l' = l /\ r' = r /\ i' = 0
        /\ trail' = Append(trail, <<l, r, i'>>)
        /\ UNCHANGED <<value, text, back, reads>>
    BY <1>0, <1>3 DEF Walk, Retrace
  <2>2. PICK n \in 1..Len(back) : n = Reached
    BY <2>1 DEF Reached, ChainBack
  <2>3. Len(back) \in Nat /\ Len(trail) \in Nat /\ n = Len(back) - Len(trail) + 1
    BY <2>1, <2>2 DEF Reached, ChainBack
  <2>4. n # 1
    <3> SUFFICES ASSUME n = 1 PROVE FALSE
      OBVIOUS
    <3>1. l = WasPermuted \div Half /\ r = WasPermuted % Half
      BY <2>1, <2>2 DEF ChainBack
    <3>2. Joined = WasRead
      BY <1>0, <2>1, <3>1, WayBackStart DEF Joined, WasPermuted
    <3>3. WasRead \in Nat /\ WasRead < Domain
      BY <1>0, <2>1, WayBackStart DEF ChainBack
    <3> QED
      BY <1>0, <2>1, <3>2, <3>3
  <2>5. n - 1 \in 1 .. Len(back) - 1 /\ n - 1 \in 1..Len(back) /\ (n - 1) + 1 = n
    BY <2>2, <2>3, <2>4
  <2>6. PICK a \in Entry : a = back[n - 1]
    BY <2>1, <2>5 DEF ChainBack
  <2>7. Undone(a, <<l, r, i>>)
    BY <2>1, <2>2, <2>5, <2>6 DEF ChainBack
  <2>8. a[3] \in 0..Rounds /\ a = <<a[1], a[2], a[3]>>
    BY DEF Entry
  <2>9. <<l', r', i'>> = a
    BY <1>0, <2>1, <2>7, <2>8 DEF Undone
  <2>10. trail' \in Seq(Entry) /\ Len(trail') = Len(trail) + 1 /\ Entry' = Entry
    BY <1>0, <2>1, <2>9 DEF Entry
  <2>11. Len(trail') \in 1..Len(back') /\ Reached' = n - 1
    BY <2>1, <2>3, <2>5, <2>10 DEF Reached
  <2>12. Reading' /\ ChainBack' /\ Accepted'
    BY <1>0, <2>1, SameReading, SameWayBack, SameValue
  <2> QED
    BY <1>0, <2>1, <2>6, <2>9, <2>10, <2>11, <2>12 DEF Retrace
<1>4. CASE Permuted
  <2>1. /\ pc = "perm" /\ pc' = "write" /\ Reading /\ ChainBack /\ Accepted /\ text = given
        /\ trail \in Seq(Entry) /\ Len(trail) \in 1..Len(back) /\ back[Reached] = <<l, r, i>>
        /\ i = Rounds /\ (Short => Joined < Domain) /\ i' = 0
        /\ z' = IF Short THEN Joined ELSE Pad(value) * Span(length) + Joined
        /\ UNCHANGED <<value, text, back, reads>>
    BY <1>0, <1>4 DEF Permuted, Retrace
  <2>2. PICK n \in 1..Len(back) : n = Reached
    BY <2>1 DEF Reached, ChainBack
  <2>3. n = 1
    <3> SUFFICES ASSUME n # 1 PROVE FALSE
      OBVIOUS
    <3>1. n - 1 \in 1 .. Len(back) - 1 /\ n - 1 \in 1..Len(back) /\ (n - 1) + 1 = n
      BY <2>1, <2>2 DEF ChainBack
    <3>2. PICK a \in Entry : a = back[n - 1]
      BY <2>1, <3>1 DEF ChainBack
    <3>3. Undone(a, <<l, r, i>>)
      BY <2>1, <2>2, <3>1, <3>2 DEF ChainBack
    <3>4. a[3] \in 0..Rounds
      BY DEF Entry
    <3>5. Short /\ a[1] * Half + a[2] >= Domain /\ <<l, r, i>> = <<a[1], a[2], Rounds>>
      BY <1>0, <2>1, <3>3, <3>4 DEF Undone
    <3>6. Joined >= Domain
      BY <3>5 DEF Joined
    <3> QED
      BY <1>0, <2>1, <3>5, <3>6, JoinedFits
  <2>4. Joined = WasPermuted
    <3>1. l = WasPermuted \div Half /\ r = WasPermuted % Half
      BY <2>1, <2>2, <2>3 DEF ChainBack
    <3> QED
      BY <1>0, <2>1, <3>1, WayBackStart DEF Joined
  <2>5. z' = WasRead
    <3>1. CASE Short
      BY <2>1, <2>4, <3>1 DEF WasPermuted
    <3>2. CASE ~Short
      <4>1. WasRead = (WasRead \div Span(length)) * Span(length) + WasPermuted
        BY <1>0, <2>1, <3>2, WayBackStart
      <4>2. WasRead \div Span(length) = Pad(value)
        BY <2>1, <3>2 DEF Accepted
      <4> QED
        BY <2>1, <2>4, <3>2, <4>1, <4>2
    <3> QED
      BY <3>1, <3>2
  <2>6. z' = reads'[length' - i' + 1]
    <3>1. length - 0 + 1 = length + 1
      BY <1>0
    <3> QED
      BY <1>0, <2>1, <2>5, <3>1 DEF WasRead
  <2>7. Reading'
    BY <1>0, <2>1, SameReading
  <2> QED
    BY <1>0, <2>1, <2>6, <2>7 DEF Retrace
<1>5. CASE WriteDigit
  <2>1. /\ pc = "write" /\ pc' = "write" /\ Reading /\ text = given /\ z = reads[length - i + 1]
        /\ i < length /\ i' = i + 1 /\ z' = z \div Base
        /\ UNCHANGED <<value, back, reads>>
    BY <1>0, <1>5 DEF WriteDigit, Retrace
  <2>2. PICK n \in 1..length : n = length - i
    BY <1>0, <1>a, <2>1
  <2>3. /\ given \in [1..length -> 0 .. Base - 1] /\ reads \in Seq(Nat) /\ Len(reads) = length + 1
        /\ reads[n + 1] = reads[n] * Base + given[n]
    <3>1. /\ reads \in Seq(Nat) /\ Len(reads) = length + 1 /\ given \in [1..length -> 0 .. Base - 1]
          /\ \A k \in 1 .. Len(reads) - 1 : reads[k + 1] = reads[k] * Base + given[k]
      BY <2>1 DEF Reading, Texts
    <3>2. n \in 1 .. Len(reads) - 1
      BY <1>0, <2>2, <3>1
    <3> QED
      BY <3>1, <3>2
  <2>4. PICK p \in Nat : p = reads[n]
    <3>1. n \in 1..Len(reads)
      BY <1>0, <2>2, <2>3
    <3> QED
      BY <2>3, <3>1
  <2>5. PICK d \in 0 .. Base - 1 : d = given[n]
    BY <2>2, <2>3
  <2>6. z = Base * p + d
    <3>1. length - i + 1 = n + 1 /\ p * Base = Base * p
      BY <1>0, <1>a, <2>2, <2>4
    <3> QED
      BY <2>1, <2>3, <2>4, <2>5, <3>1
  <2>7. z \div Base = p /\ z % Base = d
    BY <1>0, <2>6, DivisionUnique
  <2>8. text' = given
    <3>1. text' = [k \in 1..length |-> IF k = length - i THEN z % Base
                                       ELSE IF k \in DOMAIN text THEN text[k] ELSE 0]
      BY <1>5 DEF WriteDigit
    <3>2. \A k \in 1..length : text'[k] = given[k]
      BY <2>1, <2>2, <2>3, <2>5, <2>7, <3>1
    <3> QED
      BY <2>3, <3>1, <3>2
  <2>9. z' = reads'[length' - i' + 1]
    <3>1. length - (i + 1) + 1 = n
      BY <1>0, <1>a, <2>2
    <3> QED
      BY <1>0, <2>1, <2>4, <2>7, <3>1
  <2>10. Reading'
    BY <1>0, <2>1, SameReading
  <2> QED
    BY <1>0, <2>1, <2>8, <2>9, <2>10 DEF Retrace
<1>6. CASE Encoded
  <2>1. pc' = "done" /\ text = given /\ UNCHANGED text
    BY <1>0, <1>6 DEF Encoded, Retrace
  <2> QED
    BY <1>0, <2>1 DEF Retrace
<1>7. CASE StartDecode
  <2>1. /\ pc = "decode" /\ value = -1 /\ text = given /\ UNCHANGED <<text, value>>
        /\ z' = 0 /\ i' = 0 /\ reads' = <<0>>
    BY <1>0, <1>7 DEF StartDecode, Retrace
  <2>2. CASE text = Malformed
    <3>1. pc' = "refused"
      BY <1>7, <2>2 DEF StartDecode
    <3> QED
      BY <1>0, <2>1, <3>1 DEF Retrace
  <2>3. CASE text # Malformed
    <3>1. pc' = "read"
      BY <1>7, <2>3 DEF StartDecode
    <3>2. given \in Texts(length) /\ given \in Texts(length)'
      BY <1>0, <2>1, <2>3 DEF TypeOK, Texts
    <3>3. reads' \in Seq(Nat) /\ Len(reads') = 1 /\ reads'[1] = 0
      BY <2>1
    <3>4. Reading'
      BY <1>0, <2>1, <3>1, <3>2, <3>3 DEF Reading
    <3> QED
      BY <1>0, <2>1, <3>1, <3>3, <3>4 DEF Retrace
  <2> QED
    BY <2>2, <2>3
<1>8. CASE ReadDigit
  <2>1. /\ pc = "read" /\ pc' = "read" /\ value = -1 /\ text = given /\ Reading
        /\ z = reads[i + 1] /\ i < length /\ i' = i + 1
        /\ z' = z * Base + text[i + 1] /\ reads' = Append(reads, z')
        /\ UNCHANGED <<text, value>>
    BY <1>0, <1>8 DEF ReadDigit, Retrace
  <2>2. /\ reads \in Seq(Nat) /\ Len(reads) = i + 1 /\ reads[1] = 0
        /\ \A n \in 1..i : reads[n + 1] = reads[n] * Base + given[n]
    BY <1>a, <2>1 DEF Reading
  <2>3. z' \in Nat
    BY <1>0 DEF Types, TypeOK
  <2>4. /\ reads' \in Seq(Nat) /\ Len(reads') = i + 2 /\ reads'[i + 2] = z'
        /\ \A n \in 1 .. i + 1 : reads'[n] = reads[n]
    BY <1>a, <2>1, <2>2, <2>3
  <2>5. \A n \in 1 .. i + 1 : reads'[n + 1] = reads'[n] * Base + given[n]
    <3> TAKE n \in 1 .. i + 1
    <3>1. CASE n = i + 1
      <4>1. n + 1 = i + 2
        BY <1>a, <3>1
      <4> QED
        BY <2>1, <2>4, <3>1, <4>1
    <3>2. CASE n # i + 1
      <4>1. n \in 1..i /\ n + 1 \in 1 .. i + 1
        BY <1>a, <3>2
      <4> QED
        BY <2>2, <2>4, <4>1
    <3> QED
      BY <3>1, <3>2
  <2>6. Reading'
    <3>1. given \in Texts(length)'
      BY <1>0, <2>1 DEF Reading, Texts
    <3>2. reads'[1] = 0 /\ Len(reads') - 1 = i + 1 /\ Len(reads') = i' + 1
      BY <1>a, <2>1, <2>2, <2>4
    <3> QED
      BY <1>0, <2>1, <2>4, <2>5, <3>1, <3>2 DEF Reading
  <2>7. z' = reads'[i' + 1]
    <3>1. i' + 1 = i + 2
      BY <1>a, <2>1
    <3> QED
      BY <2>4, <3>1
  <2> QED
    BY <1>0, <2>1, <2>6, <2>7 DEF Retrace
<1>9. CASE Read
  <2>1. /\ pc = "read" /\ i = length /\ value = -1 /\ text = given /\ Reading /\ z = reads[i + 1]
        /\ UNCHANGED <<text, value, reads, z>>
    BY <1>0, <1>9 DEF Read, Retrace
  <2>2. CASE Short /\ z >= Domain
    <3>1. pc' = "refused"
      BY <1>9, <2>2 DEF Read
    <3> QED
      BY <1>0, <2>1, <3>1 DEF Retrace
  <2>3. CASE ~(Short /\ z >= Domain)
    <3>1. /\ pc' = "unperm" /\ Split(IF Short THEN z ELSE z % Span(length)) /\ i' = Rounds
          /\ back' = << <<l', r', i'>> >>
      BY <1>9, <2>3 DEF Read
    <3>2. z = WasRead /\ z' = WasRead'
      BY <1>0, <2>1 DEF WasRead
    <3>3. WasPermuted' = WasPermuted /\ Half' = Half /\ Short' = Short /\ Entry' = Entry
      BY <1>0, <2>1 DEF WasPermuted, WasRead, Half, Short, Entry
    <3>4. l' = WasPermuted \div Half /\ r' = WasPermuted % Half
      BY <3>1, <3>2 DEF Split, WasPermuted
    <3>5. <<l', r', i'>> \in Entry
      BY <1>0, <1>a, <3>1 DEF Entry
    <3>6. back' \in Seq(Entry) /\ Len(back') = 1 /\ back'[1] = <<l', r', i'>>
      BY <3>1, <3>5
    <3>7. Short => WasRead' < Domain
      BY <1>0, <1>a, <2>1, <2>3, <3>2
    <3>8. ChainBack'
      BY <3>1, <3>3, <3>4, <3>6, <3>7 DEF ChainBack
    <3>9. Reading'
      BY <1>0, <2>1, <3>1, SameReading
    <3> QED
      BY <1>0, <2>1, <3>1, <3>2, <3>6, <3>8, <3>9 DEF Retrace
  <2> QED
    BY <2>2, <2>3
<1>10. CASE UnpermRound
  <2>1. /\ pc = "unperm" /\ pc' = "unperm" /\ value = -1 /\ text = given /\ Reading /\ ChainBack
        /\ z = WasRead /\ back[Len(back)] = <<l, r, i>>
        /\ i > 0 /\ l' = HalfXor(r, F(i - 1, l)) /\ r' = l /\ i' = i - 1
        /\ back' = Append(back, <<l', r', i'>>)
        /\ UNCHANGED <<text, value, reads, z>>
    BY <1>0, <1>10 DEF UnpermRound, Retrace
  <2>2. i \in 0..Rounds
    BY <2>1 DEF Types
  <2>3. <<l', r', i'>> \in Entry
    BY <1>0, <1>a, <2>1, <2>2 DEF Entry
  <2>4. Undone(back[Len(back)], <<l', r', i'>>)
    <3>1. Undone(<<l, r, i>>, <<l', r', i'>>)
      BY <2>1 DEF Undone
    <3> QED
      BY <2>1, <3>1
  <2>5. ChainBack' /\ back'[Len(back')] = <<l', r', i'>>
    BY <1>0, <2>1, <2>3, <2>4, OneMoreBack
  <2>6. Reading' /\ z' = WasRead'
    BY <1>0, <2>1, SameReading DEF WasRead
  <2> QED
    BY <1>0, <2>1, <2>5, <2>6 DEF Retrace
<1>11. CASE WalkBack
  <2>1. /\ pc = "unperm" /\ pc' = "unperm" /\ value = -1 /\ text = given /\ Reading /\ ChainBack
        /\ z = WasRead /\ back[Len(back)] = <<l, r, i>>
        /\ i = 0 /\ Short /\ Joined >= Domain /\ i' = Rounds
        /\ back' = Append(back, <<l, r, i'>>)
        /\ UNCHANGED <<text, value, reads, z, l, r>>
    BY <1>0, <1>11 DEF WalkBack, Retrace
  <2>2. <<l, r, i'>> \in Entry
    BY <1>0, <1>a, <2>1 DEF Entry
  <2>3. Undone(back[Len(back)], <<l, r, i'>>)
    <3>1. Undone(<<l, r, i>>, <<l, r, i'>>)
      BY <2>1 DEF Undone, Joined
    <3> QED
      BY <2>1, <3>1
  <2>4. ChainBack' /\ back'[Len(back')] = <<l', r', i'>>
    BY <1>0, <2>1, <2>2, <2>3, OneMoreBack
  <2>5. Reading' /\ z' = WasRead'
    BY <1>0, <2>1, SameReading DEF WasRead
  <2> QED
    BY <1>0, <2>1, <2>4, <2>5 DEF Retrace
<1>12. CASE Unpermuted
  <2>1. /\ pc = "unperm" /\ value = -1 /\ text = given /\ Reading /\ ChainBack
        /\ z = WasRead /\ back[Len(back)] = <<l, r, i>>
        /\ i = 0 /\ (Short => Joined < Domain)
        /\ UNCHANGED <<text, reads, z, l, r, i, back>>
    BY <1>0, <1>12 DEF Unpermuted, Retrace
  <2>2. CASE ~Issued(Joined)
    <3>1. pc' = "refused" /\ UNCHANGED value
      BY <1>12, <2>2 DEF Unpermuted
    <3> QED
      BY <1>0, <2>1, <3>1 DEF Retrace
  <2>3. CASE Issued(Joined)
    <3>1. pc' = "encode" /\ value' = Joined
      BY <1>0, <1>12, <2>3 DEF Unpermuted
    <3>2. Joined \in Nat /\ Joined \div Half = l /\ Joined % Half = r
      BY <1>0, JoinedFits
    <3>3. Half' = Half /\ Short' = Short /\ WasRead' = WasRead /\ Span(length)' = Span(length)
      BY <1>0, <2>1 DEF Half, Short, WasRead
    <3>4. Joined \in 0..MaxInt64
      <4>1. CASE Short
        <5>1. Domain <= MaxInt64 + 1
          BY CodecAssumption
        <5> QED
          BY <1>0, <2>1, <3>2, <4>1, <5>1
      <4>2. CASE ~Short
        BY <1>0, <2>3, <3>2, <4>2 DEF Issued
      <4> QED
        BY <4>1, <4>2
    <3>5. ~Short => WasRead \div Span(length) = Pad(Joined)
      BY <2>1, <2>3 DEF Issued
    <3>6. Pad(value)' = Pad(Joined)
      BY <1>0, <3>1 DEF Pad
    <3>7. Accepted'
      BY <1>0, <2>1, <3>1, <3>3, <3>4, <3>5, <3>6 DEF Accepted
    <3>8. back'[Len(back')] = <<value' \div Half', value' % Half', 0>>
      BY <2>1, <3>1, <3>2, <3>3
    <3>9. Reading' /\ ChainBack'
      BY <1>0, <2>1, <3>1, SameReading, SameWayBack
    <3> QED
      BY <1>0, <2>1, <3>1, <3>7, <3>8, <3>9 DEF Retrace
  <2> QED
    BY <2>2, <2>3
<1>13. CASE UNCHANGED vars
  <2>1. ChainBack => ChainBack'
    BY <1>13, SameWayBack DEF vars
  <2>2. Accepted => Accepted'
    BY <1>13, SameValue DEF vars
  <2>3. Reading' = Reading /\ Entry' = Entry /\ Reached' = Reached /\ WasRead' = WasRead
        /\ Half' = Half
    BY <1>13 DEF vars, Reading, Texts, Entry, Reached, WasRead, Half
  <2> QED
    BY <1>0, <1>13, <2>1, <2>2, <2>3 DEF vars, Retrace
<1> QED
  BY <1>1, <1>2, <1>3, <1>4, <1>5, <1>6, <1>7, <1>8, <1>9, <1>10, <1>11, <1>12, <1>13
     DEF Next

\* A text that Decode accepts is the one that Encode makes of the value it returned
\* ("It rejects strings this codec could not have produced", uuidgen.go:133-135): the
\* pad ties the high digits to the value, and the short length has only one text for
\* each number of its domain.
THEOREM AcceptedWasIssued == Spec => []OnlyIssuedAccepted
<1>1. Init => Types /\ Retrace
  BY TypesInit, RetraceInit
<1>2. Types /\ Retrace /\ [Next]_vars => (Types /\ Retrace)'
  BY TypesStep, RetraceStep
<1>3. Retrace => OnlyIssuedAccepted
  BY DEF Retrace, OnlyIssuedAccepted
<1> QED
  BY <1>1, <1>2, <1>3, PTL DEF Spec
================================================================================
