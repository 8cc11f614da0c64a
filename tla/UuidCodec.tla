-------------------------------- MODULE UuidCodec -------------------------------
(***************************************************************************)
(* internal/uuidgen: a counter value becomes a string of fixed length and  *)
(* back.  A behaviour is one value encoded and the result decoded, or one  *)
(* string decoded and the result encoded again, for one key and entity and *)
(* one length.  A step is one turn of a loop of the code.                  *)
(*                                                                         *)
(* AES is abstract: RoundOut and PadOut are any functions, `key' stands    *)
(* for the AES key and the entity's tweak together.  Digits are numbers    *)
(* below Base, a text is the sequence of its digits.                       *)
(***************************************************************************)
EXTENDS Integers, Sequences

CONSTANTS
  Keys,
  RoundOut(_, _, _, _),  \* Codec.round: of key, length (for the tag), round, half
  PadOut(_, _, _),       \* the block Codec.pad takes modulo the limit
  HalfXor(_, _),
  Rounds,                \* 8
  Base,                  \* 62
  Lengths,               \* {8, 12, 16, 22}
  ShortLength,           \* 8: the length whose capacity is below that of int64
  ShortHalf,             \* 2^24: the values one half takes in perm48
  LongHalf,              \* 2^32: and in perm64
  Power                  \* Power[n] = Base^n

MaxInt64 == (LongHalf * LongHalf) \div 2 - 1
Domain == Power[ShortLength]                            \* domain8

HalfSpan(len) == IF len = ShortLength THEN ShortHalf ELSE LongHalf
Span(len) == HalfSpan(len) * HalfSpan(len)
Halves(len) == 0 .. HalfSpan(len) - 1

\* Codec.limit, from New.
Limit(len) == Power[len] \div Span(len)

ASSUME CodecAssumption ==
  /\ Rounds \in Nat \ {0} /\ Base \in Nat \ {0} /\ ShortHalf \in Nat \ {0} /\ LongHalf \in Nat \ {0}
  /\ Lengths \subseteq Nat \ {0}
  /\ \A len \in Lengths : \A n \in 0..len : Power[n] \in Nat \ {0}
  /\ \A len \in Lengths : Power[0] = 1 /\ \A n \in 0 .. len - 1 : Power[n + 1] = Base * Power[n]
  /\ Domain \in Nat /\ Domain <= Span(ShortLength) /\ Domain <= MaxInt64 + 1
  /\ \A len \in Lengths \ {ShortLength} : Span(len) <= Power[len]
  /\ \A len \in Lengths : \A a, b \in Halves(len) :
       HalfXor(a, b) \in Halves(len) /\ HalfXor(HalfXor(a, b), b) = a
  /\ \A k \in Keys, len \in Lengths, n \in 0 .. Rounds - 1 :
       \A h \in Halves(len) : RoundOut(k, len, n, h) \in Nat
  /\ \A k \in Keys, len \in Lengths : \A x \in 0..MaxInt64 : PadOut(k, len, x) \in Nat

VARIABLES
  key, length,     \* chosen at the start
  given,           \* and the value or the text the behaviour starts from
  encodeFirst,     \* TRUE: a value
  pc,              \* encode, perm, write; decode, read, unperm; done, refused
  value,           \* the counter value: argument of Encode, result of Decode
  text,            \* the string: result of Encode, argument of Decode
  z,               \* what is left to write as digits, or what is read of them
  l, r, i,         \* variables of the loops
  trail, at,       \* history: <<l, r, i>> after each turn of perm's loop; where unperm is in it
  rests,           \* history: z before each digit was written, and after the last
  back,            \* history: <<l, r, i>> before and after each turn of unperm's loop
  reads            \* history: z before each digit was read, and after the last

loopVars == <<z, l, r, i>>
backVars == <<back, reads>>
trailVars == <<trail, at, rests, backVars>>
vars == <<key, length, given, encodeFirst, pc, value, text, loopVars, trailVars>>

Texts(len) == [1..len -> 0 .. Base - 1]

\* A text of the wrong length, or with a character that is no digit.
Malformed == <<>>

Init ==
  /\ key \in Keys /\ length \in Lengths
  /\ \/ encodeFirst = TRUE /\ pc = "encode"
        /\ value \in -1..MaxInt64 /\ text = Malformed /\ given = value
     \/ encodeFirst = FALSE /\ pc = "decode"
        /\ text \in Texts(length) \cup {Malformed} /\ value = -1 /\ given = text
  /\ z = 0 /\ l = 0 /\ r = 0 /\ i = 0
  /\ trail = <<>> /\ at = 0 /\ rests = <<>> /\ back = <<>> /\ reads = <<>>

Short == length = ShortLength
Half == HalfSpan(length)
Joined == l * Half + r

\* Mutated form of F: the function's output is not truncated.
FUntruncated(n, half) == RoundOut(key, length, n, half)

\* One half's share of the round function, truncated to its width.
F(n, half) == RoundOut(key, length, n, half) % Half

Pad(x) == PadOut(key, length, x) % Limit(length)

Split(x) == l' = x \div Half /\ r' = x % Half

--------------------------------------------------------------------------------
(* Encode. *)

StartEncode ==
  /\ pc = "encode"
  /\ \/ /\ value < 0 \/ (Short /\ value >= Domain)
        /\ pc' = "refused" /\ UNCHANGED <<loopVars, trailVars>>
     \/ /\ value >= 0 /\ (Short => value < Domain)
        /\ Split(value) /\ i' = 0 /\ pc' = "perm"
        /\ trail' = << <<l', r', i'>> >> /\ at' = 1
        /\ UNCHANGED <<z, rests, backVars>>
  /\ UNCHANGED <<key, length, given, encodeFirst, value, text>>

\* A turn of the loop in perm48 or perm64.
PermRound ==
  /\ pc = "perm" /\ i < Rounds
  /\ l' = r /\ r' = HalfXor(l, F(i, r)) /\ i' = i + 1
  /\ trail' = Append(trail, <<l', r', i'>>) /\ at' = at + 1
  /\ UNCHANGED <<key, length, given, encodeFirst, pc, value, text, z, rests, backVars>>

\* Mutated form of Walk: every pass starts over from the value.
WalkFromValue ==
  /\ pc = "perm" /\ i = Rounds /\ Short /\ Joined >= Domain
  /\ i' = 0 /\ Split(value)
  /\ trail' = << <<l', r', i'>> >> /\ at' = 1
  /\ UNCHANGED <<key, length, given, encodeFirst, pc, value, text, z, rests, backVars>>

\* A number outside the domain of the short length is permuted again.
Walk ==
  /\ pc = "perm" /\ i = Rounds /\ Short /\ Joined >= Domain
  /\ i' = 0
  /\ trail' = Append(trail, <<l, r, i'>>) /\ at' = at + 1
  /\ UNCHANGED <<key, length, given, encodeFirst, pc, value, text, z, l, r, rests, backVars>>

\* perm is done; the longer lengths put the pad above the permuted number.
Permuted ==
  /\ pc = "perm" /\ i = Rounds /\ (Short => Joined < Domain)
  /\ z' = IF Short THEN Joined ELSE Pad(value) * Span(length) + Joined
  /\ pc' = "write" /\ i' = 0 /\ rests' = <<z'>>
  /\ UNCHANGED <<key, length, given, encodeFirst, value, text, l, r, trail, at, backVars>>

\* encodeFixed, or big.Int.Text with zeros put before: the last digit first.
WriteDigit ==
  /\ pc = "write" /\ i < length
  /\ text' = [n \in 1..length |->
                IF n = length - i THEN z % Base ELSE IF n \in DOMAIN text THEN text[n] ELSE 0]
  /\ z' = z \div Base /\ i' = i + 1
  /\ rests' = Append(rests, z')
  /\ UNCHANGED <<key, length, given, encodeFirst, pc, value, l, r, trail, at, backVars>>

Encoded ==
  /\ pc = "write" /\ i = length
  /\ pc' = IF encodeFirst THEN "decode" ELSE "done"
  /\ UNCHANGED <<key, length, given, encodeFirst, value, text, loopVars, trailVars>>

--------------------------------------------------------------------------------
(* Decode. *)

StartDecode ==
  /\ pc = "decode"
  /\ pc' = IF text = Malformed THEN "refused" ELSE "read"
  /\ z' = 0 /\ i' = 0 /\ reads' = <<z'>>
  /\ UNCHANGED <<key, length, given, encodeFirst, value, text, l, r, trail, at, rests, back>>

\* decodeFixed, or big.Int.SetString: the first digit first.
ReadDigit ==
  /\ pc = "read" /\ i < length
  /\ z' = z * Base + text[i + 1] /\ i' = i + 1
  /\ reads' = Append(reads, z')
  /\ UNCHANGED <<key, length, given, encodeFirst, pc, value, text, l, r, trail, at, rests, back>>

\* The permuted number is the low part of what was read.  For the short length the
\* code also checks that the number is in the domain, which every text of it is.
Read ==
  /\ pc = "read" /\ i = length
  /\ IF Short /\ z >= Domain
       THEN pc' = "refused" /\ UNCHANGED <<l, r, i, back>>
       ELSE /\ pc' = "unperm" /\ Split(IF Short THEN z ELSE z % Span(length)) /\ i' = Rounds
            /\ back' = << <<l', r', i'>> >>
  /\ UNCHANGED <<key, length, given, encodeFirst, value, text, z, trail, at, rests, reads>>

\* Mutated form of UnpermRound: the rounds in the order of perm.
UnpermRoundForward ==
  /\ pc = "unperm" /\ i > 0
  /\ l' = HalfXor(r, F(Rounds - i, l)) /\ r' = l /\ i' = i - 1
  /\ at' = at - 1 /\ back' = Append(back, <<l', r', i'>>)
  /\ UNCHANGED <<key, length, given, encodeFirst, pc, value, text, z, trail, rests, reads>>

\* A turn of the loop in unperm48 or unperm64.
UnpermRound ==
  /\ pc = "unperm" /\ i > 0
  /\ l' = HalfXor(r, F(i - 1, l)) /\ r' = l /\ i' = i - 1
  /\ at' = at - 1 /\ back' = Append(back, <<l', r', i'>>)
  /\ UNCHANGED <<key, length, given, encodeFirst, pc, value, text, z, trail, rests, reads>>

WalkBack ==
  /\ pc = "unperm" /\ i = 0 /\ Short /\ Joined >= Domain
  /\ i' = Rounds /\ at' = at - 1 /\ back' = Append(back, <<l, r, i'>>)
  /\ UNCHANGED <<key, length, given, encodeFirst, pc, value, text, z, l, r, trail, rests, reads>>

\* Mutated form of Issued: the pad is not compared.
IssuedAnyPad(x) == Short \/ x <= MaxInt64

\* "not issued by this key": the longer lengths can tell.
Issued(x) == Short \/ (x <= MaxInt64 /\ z \div Span(length) = Pad(x))

Unpermuted ==
  /\ pc = "unperm" /\ i = 0 /\ (Short => Joined < Domain)
  /\ IF Issued(Joined)
       THEN value' = Joined /\ pc' = (IF encodeFirst THEN "done" ELSE "encode")
       ELSE pc' = "refused" /\ UNCHANGED value
  /\ UNCHANGED <<key, length, given, encodeFirst, text, loopVars, trailVars>>

--------------------------------------------------------------------------------
Next ==
  \/ StartEncode \/ PermRound \/ Walk \/ Permuted \/ WriteDigit \/ Encoded
  \/ StartDecode \/ ReadDigit \/ Read \/ UnpermRound \/ WalkBack \/ Unpermuted

Spec == Init /\ [][Next]_vars

\* The code runs on.
FairSpec == Spec /\ WF_vars(Next)

--------------------------------------------------------------------------------
(* Properties. *)

\* The halves stay within their width, digits are digits.
TypeOK ==
  /\ key \in Keys /\ length \in Lengths /\ encodeFirst \in BOOLEAN
  /\ pc \in {"encode", "perm", "write", "decode", "read", "unperm", "done", "refused"}
  /\ value \in -1..MaxInt64
  /\ text \in Texts(length) \cup {Malformed}
  /\ z \in Nat /\ i \in Nat
  /\ l \in Halves(length) /\ r \in Halves(length)

\* Decode gives back the value that Encode was given (uuidgen.go:133), for every
\* key: an ID stands for one iteration only, so two iterations never share one.
\* Only values outside the capacity are refused, and no digit is cut off on the way.
RoundTrip ==
  encodeFirst =>
    /\ pc = "done" => value = given
    /\ pc = "refused" => given < 0 \/ (Short /\ given >= Domain)

\* "It rejects strings this codec could not have produced" (uuidgen.go:133-135): a
\* text that Decode accepts is the one Encode makes of the value it returned.
OnlyIssuedAccepted ==
  ~encodeFirst =>
    /\ pc = "done" => text = given
    /\ pc = "refused" => value = -1

\* Encode and Decode end: walking comes back into the domain.
CallsEnd == <>(pc \in {"done", "refused"})
================================================================================
