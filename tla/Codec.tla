-------------------------------- MODULE Codec --------------------------------
(***************************************************************************)
(* The codecs written in this code: base58 and base64url of                *)
(* public/aegis/crypto.js with the did:key made of them, the decoder of a  *)
(* shared claim (public/aegis/ingest.js), and the rendering of a key in a  *)
(* log line (src/sanitize.js, public/sanitize.js).  A base58 or base64     *)
(* character is its digit, a character of a log line its code point.       *)
(***************************************************************************)
EXTENDS Integers, Sequences, SequencesExt

CONSTANTS
  Bytes,      \* bytes of a buffer
  MaxBytes,   \* bound: length of a buffer
  Chars,      \* code points of a key somebody else wrote
  MaxChars,   \* bound: length of a key
  Width       \* characters of a key that a log line shows

VARIABLES
  buffer,     \* what the codecs are given
  key         \* what the log is given

vars == <<buffer, key>>

Fill(n, x) == FlattenSeq([i \in 1..n |-> <<x>>])

\* Leading entries of s that are x.
Leading(s, x) == Min({i - 1 : i \in {j \in 1..Len(s) : s[j] # x}} \cup {Len(s)})

---------------------------------------------------------------------------
(* base58Encode, base58Decode: the digits so far, in an array of a size    *)
(* estimated beforehand, are multiplied and added to from the right.       *)

\* The inner loop, from the last digit to the first: it ends when nothing is carried
\* and the digits there were are done.
Carry(acc, d, size, times, base) ==
  LET Loop(k, at) ==
        IF at.carry = 0 /\ at.done >= acc.length THEN at
        ELSE LET c == at.carry + times * at.digits[k]
             IN [digits |-> [at.digits EXCEPT ![k] = c % base], carry |-> c \div base, done |-> at.done + 1]
      end == FoldRight(Loop, [k \in 1..size |-> k], [digits |-> acc.digits, carry |-> d, done |-> 0])
  IN [digits |-> end.digits, length |-> end.done]

Digits(input, size, times, base) ==
  FoldLeft(LAMBDA acc, d : Carry(acc, d, size, times, base),
           [digits |-> Fill(size, 0), length |-> 0], input).digits

SkipZeros(s) == SubSeq(s, Leading(s, 0) + 1, Len(s))

\* Mutant: too little space for the digits.
TightSize(n) == (n * 133) \div 100

encodedSize(n) == (n * 138) \div 100 + 1

decodedSize(n) == (n * 733) \div 1000 + 1

base58Encode(bytes) ==
  LET zeroes == Leading(bytes, 0)
  IN Fill(zeroes, 0)
     \o SkipZeros(Digits(SubSeq(bytes, zeroes + 1, Len(bytes)),
                         encodedSize(Len(bytes) - zeroes), 256, 58))

base58Decode(str) ==
  LET zeroes == Leading(str, 0)
  IN Fill(zeroes, 0)
     \o SkipZeros(Digits(SubSeq(str, zeroes + 1, Len(str)),
                         decodedSize(Len(str) - zeroes), 58, 256))

\* jwkToDidKey(): the codec's prefix, the parity of y, then x.
jwkToDidKey(x, parity) == base58Encode(<<128, 36, 2 + parity>> \o x)

---------------------------------------------------------------------------
(* base64url, without padding.                                             *)

Power == <<1, 2, 4, 8, 16, 32, 64, 128>>

Bit(s, width, i) ==
  LET word == (i \div width) + 1
  IN IF word > Len(s) THEN 0 ELSE (s[word] \div Power[width - (i % width)]) % 2

\* s, of words of `from` bits, as n words of `to` bits.
Regroup(s, from, to, n) ==
  LET worth(w, i) == IF i >= to THEN 0 ELSE Power[to - i] * Bit(s, from, (w - 1) * to + i)
  IN [w \in 1..n |-> worth(w, 0) + worth(w, 1) + worth(w, 2) + worth(w, 3)
                     + worth(w, 4) + worth(w, 5) + worth(w, 6) + worth(w, 7)]

base64UrlEncode(bytes) == Regroup(bytes, 8, 6, (8 * Len(bytes) + 5) \div 6)

\* Padding is restored before atob(), which refuses one digit that is alone.
Undecodable(str) == Len(str) % 4 = 1

\* Mutant: the last, partial group of digits is dropped.
WholeGroups(str) == Regroup(str, 6, 8, 3 * (Len(str) \div 4))

base64UrlDecode(str) == Regroup(str, 6, 8, (6 * Len(str)) \div 8)

---------------------------------------------------------------------------
(* shortKey.                                                               *)

\* [\u0000-\u001f\u007f-\u009f\p{Cf}], of \p{Cf} the ones a key can have here.
Control(c) == c \in 0..31 \cup 127..159 \cup {173, 1564, 8206, 8207, 8238, 65279}
stripControls(s) == SelectSeq(s, LAMBDA c : ~Control(c))

\* The confusables of this model: Cyrillic a, and a circled ten, which expands.
Base(c) == CASE c = 1072 -> <<97>> [] c = 9470 -> <<49, 48>> [] OTHER -> <<c>>
normalizeConfusables(s) == FlattenSeq([i \in 1..Len(s) |-> Base(s[i])])

Cut(s) == IF Len(s) > Width THEN SubSeq(s, 1, Width) ELSE s

\* Mutant: the key is cut before it is cleaned.
CutFirst(pk) == normalizeConfusables(stripControls(Cut(pk)))

\* Cleaned, then cut.
shortKey(pk) == Cut(normalizeConfusables(stripControls(pk)))

---------------------------------------------------------------------------

Init == buffer = <<>> /\ key = <<>>

NextByte ==
  /\ key = <<>> /\ Len(buffer) < MaxBytes
  /\ \E b \in Bytes : buffer' = Append(buffer, b)
  /\ UNCHANGED key

NextChar ==
  /\ buffer = <<>> /\ Len(key) < MaxChars
  /\ \E c \in Chars : key' = Append(key, c)
  /\ UNCHANGED buffer

Next == NextByte \/ NextChar

Spec == Init /\ [][Next]_vars

---------------------------------------------------------------------------
(* Properties.                                                             *)

\* The value of a sequence of digits: what base58 is by definition.
Value(s, base) == FoldLeft(LAMBDA acc, d : acc * base + d, 0, s)

\* The estimated sizes are large enough and the in-place arithmetic is right: a
\* buffer is decoded to itself, its digits are digits of the same number (where
\* TLC's integers hold it), and a did:key tells keys and parities apart.
Base58Exact ==
  LET str == base58Encode(buffer) IN
  /\ \A i \in 1..Len(str) : str[i] \in 0..57
  /\ base58Decode(str) = buffer
  /\ Len(buffer) <= 3 => Value(str, 58) = Value(buffer, 256)
  /\ \A parity \in {0, 1} :
       base58Decode(jwkToDidKey(buffer, parity)) = <<128, 36, 2 + parity>> \o buffer

\* What base64UrlEncode() gives, both decoders accept and turn back.
Base64Exact ==
  LET str == base64UrlEncode(buffer) IN
  ~Undecodable(str) /\ base64UrlDecode(str) = buffer

\* "must pass through stripControls() and normalizeConfusables() BEFORE the
\* slice" (src/sanitize.js): a log line shows no control character, never more
\* than its width, and the same for a key and for its lookalike.
ShownClean ==
  /\ Len(shortKey(key)) <= Width
  /\ \A i \in 1..Len(shortKey(key)) : ~Control(shortKey(key)[i])
  /\ shortKey(normalizeConfusables(key)) = shortKey(key)

=============================================================================
