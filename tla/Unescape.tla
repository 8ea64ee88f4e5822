----------------------------- MODULE Unescape -----------------------------
(***************************************************************************)
(* helpers.UnescapeUnicode, which the logger applies to request bodies:    *)
(* every \uXXXX, surrogate pairs included, becomes the UTF-8 bytes of its  *)
(* character, and every other byte is copied.  One action per turn of the  *)
(* loop.  The output buffer is as long as the input and is written through *)
(* an unsafe pointer to four bytes, so that nothing but the arithmetic     *)
(* below keeps the writes inside it.                                       *)
(***************************************************************************)
EXTENDS Integers, Sequences

CONSTANT
  Document  \* request bodies, raw, each with a text it may spell, see Spells

Byte == 0 .. 255
Mark == [read : Nat, written : Nat]

ASSUME UnescapeAssumption ==
  Document \subseteq [raw : Seq(Byte), text : Seq(Byte), marks : Seq(Mark)]

VARIABLES
  doc, \* the argument; doc.text and doc.marks are ghosts
  i,   \* bytes read
  out  \* bytes written; its length is the code's j

vars == <<doc, i, out>>

data == doc.raw
n == Len(data)
At(k) == data[k + 1]      \* Go counts from 0

Backslash == 92
LetterU == 117

---------------------------------------------------------------------------

HexValue(b) ==
  CASE b \in 48 .. 57  -> b - 48
    [] b \in 97 .. 102 -> b - 87
    [] b \in 65 .. 70  -> b - 55
    [] OTHER           -> -1

\* The value of the four digits from k on, -1 if one of them is no digit.
ParseHex4(k) ==
  IF \E d \in 0 .. 3 : HexValue(At(k + d)) = -1
  THEN -1
  ELSE 4096 * HexValue(At(k)) + 256 * HexValue(At(k + 1))
         + 16 * HexValue(At(k + 2)) + HexValue(At(k + 3))

\* Wrong variant: the length is not checked.
IsUnicodeEscapePrefix(k) == k + 1 < n /\ At(k) = Backslash /\ At(k + 1) = LetterU
IsUnicodeEscape(k) == k + 5 < n /\ At(k) = Backslash /\ At(k + 1) = LetterU

HighSurrogate == 55296 .. 56319     \* 0xD800 .. 0xDBFF
LowSurrogate == 56320 .. 57343      \* 0xDC00 .. 0xDFFF

\* Wrong variant: the last low surrogate is taken for another character.
IsPairShort(k) ==
  /\ ParseHex4(k + 2) \in HighSurrogate
  /\ IsUnicodeEscape(k + 6)
  /\ ParseHex4(k + 8) \in 56320 .. 57342

IsPair(k) ==
  /\ ParseHex4(k + 2) \in HighSurrogate
  /\ IsUnicodeEscape(k + 6)
  /\ ParseHex4(k + 8) \in LowSurrogate

\* decodeUnicodeEscape: the rune at k (-1: none), and the bytes read for it.
Rune(k) ==
  IF IsPair(k)
  THEN 65536 + 1024 * (ParseHex4(k + 2) - 55296) + (ParseHex4(k + 8) - 56320)
  ELSE ParseHex4(k + 2)
Consumed(k) == IF IsPair(k) THEN 12 ELSE 6

\* appendRuneAt.
SixBits(r, d) == 128 + ((r \div d) % 64)
TwoBytes(r) == <<192 + r \div 64, SixBits(r, 1)>>
ThreeBytes(r) == <<224 + r \div 4096, SixBits(r, 64), SixBits(r, 1)>>
FourBytes(r) == <<240 + r \div 262144, SixBits(r, 4096), SixBits(r, 64), SixBits(r, 1)>>
Utf8(r) ==
  CASE r < 128                -> <<r>>
    [] 128 <= r /\ r < 2048   -> TwoBytes(r)
    [] 2048 <= r /\ r < 65536 -> ThreeBytes(r)
    [] OTHER                  -> FourBytes(r)

---------------------------------------------------------------------------

Init ==
  /\ doc \in Document
  /\ i = 0
  /\ out = << >>

Done == i >= n
Decodable == IsUnicodeEscape(i) /\ Rune(i) >= 0

\* Everything up to the next backslash or the end.
CopyBlock ==
  /\ ~Done /\ At(i) # Backslash
  /\ \E end \in i + 1 .. n :
       /\ \A k \in i .. end - 1 : At(k) # Backslash
       /\ end < n => At(end) = Backslash
       /\ i' = end
       /\ out' = out \o SubSeq(data, i + 1, end)
  /\ UNCHANGED doc

DecodeEscape ==
  /\ ~Done /\ Decodable
  /\ out' = out \o Utf8(Rune(i))
  /\ i' = i + Consumed(i)
  /\ UNCHANGED doc

\* Wrong variant: an escape with a bad digit is tried again and again.
CopyByteRetries ==
  /\ ~Done /\ At(i) = Backslash /\ ~IsUnicodeEscape(i)
  /\ out' = Append(out, At(i))
  /\ i' = i + 1
  /\ UNCHANGED doc

\* A backslash that begins no escape.
CopyByte ==
  /\ ~Done /\ At(i) = Backslash /\ ~Decodable
  /\ out' = Append(out, At(i))
  /\ i' = i + 1
  /\ UNCHANGED doc

Next == CopyBlock \/ DecodeEscape \/ CopyByte
Spec == Init /\ [][Next]_vars

\* The loop runs: nothing blocks it.
FairSpec == Spec /\ WF_vars(Next)

---------------------------------------------------------------------------
(* Properties.                                                             *)

TypeOK ==
  /\ doc \in Document
  /\ i \in Nat
  /\ out \in Seq(Int)

\* The bytes at a position that is decoded are there to be read, and the four
\* bytes the unsafe pointer covers lie inside the output buffer, however much
\* or little the turns before have shrunk the text.
InBounds ==
  ~Done /\ IsUnicodeEscape(i) => i + 6 <= n /\ Len(out) + 4 <= n

\* Nothing is read past the end, and the output never outruns the input, so
\* that copies and single bytes fit as well.
BufferInv == TypeOK /\ Len(out) <= i /\ i <= n /\ InBounds

(* What it means that a body spells a text: the marks cut both into        *)
(* characters, and each piece of the body is its character's encoding or   *)
(* its escape.  Written from UTF-8 and UTF-16, not from the code.          *)

\* The character that a sequence of one to four bytes encodes.
CodePoint(s) ==
  CASE Len(s) = 1 -> s[1]
    [] Len(s) = 2 -> 64 * (s[1] - 192) + (s[2] - 128)
    [] Len(s) = 3 -> 4096 * (s[1] - 224) + 64 * (s[2] - 128) + (s[3] - 128)
    [] OTHER      -> 262144 * (s[1] - 240) + 4096 * (s[2] - 128) + 64 * (s[3] - 128)
                       + (s[4] - 128)

Continued(s) == \A k \in 2 .. Len(s) : s[k] \in 128 .. 191

Encoding(s) ==
  /\ Continued(s)
  /\ \/ Len(s) = 1 /\ s[1] \in 0 .. 127
     \/ Len(s) = 2 /\ s[1] \in 192 .. 223 /\ CodePoint(s) >= 128
     \/ /\ Len(s) = 3 /\ s[1] \in 224 .. 239 /\ CodePoint(s) >= 2048
        /\ CodePoint(s) < 55296 \/ CodePoint(s) > 57343        \* no surrogate
     \/ /\ Len(s) = 4 /\ s[1] \in 240 .. 247
        /\ CodePoint(s) >= 65536 /\ CodePoint(s) <= 1114111

HexDigit(d) == IF d < 10 THEN {48 + d} ELSE {55 + d, 87 + d}

\* At k stands the escape of the 16-bit unit u.
EscapeAt(k, u) ==
  /\ At(k) = Backslash /\ At(k + 1) = LetterU
  /\ At(k + 2) \in HexDigit(u \div 4096)
  /\ At(k + 3) \in HexDigit((u \div 256) % 16)
  /\ At(k + 4) \in HexDigit((u \div 16) % 16)
  /\ At(k + 5) \in HexDigit(u % 16)

PlainAt(a, b, s) ==
  /\ b.read - a.read = Len(s)
  /\ SubSeq(data, a.read + 1, b.read) = s
  /\ s = <<Backslash>> /\ b.read < n => At(b.read) \notin {LetterU, Backslash}

\* Between the marks a and b lies one character, as it is or escaped: beyond
\* 16 bits as a pair of surrogates.  A backslash that stands for itself is
\* followed neither by u nor by another one.
SpellsCharacter(a, b) ==
  LET s == SubSeq(doc.text, a.written + 1, b.written)
      c == CodePoint(s)
  IN  /\ a.read < b.read /\ a.written < b.written
      /\ Encoding(s)
      /\ \/ PlainAt(a, b, s)
         \/ c < 65536 /\ b.read = a.read + 6 /\ EscapeAt(a.read, c)
         \/ /\ c >= 65536 /\ b.read = a.read + 12
            /\ EscapeAt(a.read, 55296 + ((c - 65536) \div 1024))
            /\ EscapeAt(a.read + 6, 56320 + ((c - 65536) % 1024))

Spells ==
  /\ doc.marks # << >>
  /\ \A p \in 1 .. Len(doc.marks) :
       doc.marks[p].read <= n /\ doc.marks[p].written <= Len(doc.text)
  /\ doc.marks[1] = [read |-> 0, written |-> 0]
  /\ doc.marks[Len(doc.marks)] = [read |-> n, written |-> Len(doc.text)]
  /\ \A p \in 1 .. Len(doc.marks) - 1 : SpellsCharacter(doc.marks[p], doc.marks[p + 1])

\* Between two turns whole characters have been read, and the text up to there
\* has been written.
Aligned ==
  Spells => \E p \in 1 .. Len(doc.marks) :
              i = doc.marks[p].read /\ out = SubSeq(doc.text, 1, doc.marks[p].written)

\* The inductive invariant: where the loop is in its buffers and in the text.
IndInv == BufferInv /\ Aligned

\* However a text is spelled, with characters escaped or not and digits in
\* either case, the result is its UTF-8 encoding.
RoundTrip == Done /\ Spells => out = doc.text

\* The loop ends on every input, malformed ones included.
Terminates == <>Done
=============================================================================
