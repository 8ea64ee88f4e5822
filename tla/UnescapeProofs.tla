-------------------------- MODULE UnescapeProofs --------------------------
(***************************************************************************)
(* UnescapeUnicode stays inside its buffers, for every input, and its      *)
(* output is the text that the input spells.                               *)
(***************************************************************************)
EXTENDS Unescape, SequenceTheorems, WellFoundedInduction, TLAPS

\* The input is a sequence of bytes.
LEMMA DataType ==
  ASSUME TypeOK
  PROVE  data \in Seq(Byte) /\ n \in Nat
BY UnescapeAssumption DEF TypeOK, data, n

\* An encoding has at most four bytes, and four only beyond 16 bits.
LEMMA Utf8Length ==
  ASSUME NEW r \in Nat
  PROVE  /\ Utf8(r) \in Seq(Int)
         /\ Len(Utf8(r)) <= 4
         /\ r < 65536 => Len(Utf8(r)) <= 3
<1>1. \A d \in {1, 64, 4096, 262144} : (r \div d) \in Int /\ SixBits(r, d) \in Int
  BY SMT DEF SixBits
<1>2. CASE r < 128
  <2>1. Utf8(r) = <<r>>
    BY <1>2, SMT DEF Utf8
  <2> QED
    BY <2>1, SMT
<1>3. CASE r >= 128 /\ r < 2048
  <2>1. Utf8(r) = TwoBytes(r)
    BY <1>3, SMT DEF Utf8
  <2> QED
    BY <1>1, <2>1, SMT DEF TwoBytes
<1>4. CASE r >= 2048 /\ r < 65536
  <2>1. Utf8(r) = ThreeBytes(r)
    BY <1>4, SMT DEF Utf8
  <2> QED
    BY <1>1, <2>1, SMT DEF ThreeBytes
<1>5. CASE r >= 65536
  <2>1. Utf8(r) = FourBytes(r)
    BY <1>5, SMT DEF Utf8
  <2> QED
    BY <1>1, <1>5, <2>1, SMT DEF FourBytes
<1> QED
  BY <1>2, <1>3, <1>4, <1>5, SMT

\* A digit is below 16.
LEMMA HexValueRange ==
  ASSUME NEW b \in Int
  PROVE  HexValue(b) \in -1 .. 15
BY DEF HexValue

\* A position of the input holds a byte.
LEMMA AtByte ==
  ASSUME TypeOK, NEW k \in Nat, k < n
  PROVE  At(k) \in Int
<1>1. data \in Seq(Byte) /\ n = Len(data)
  BY DataType DEF n
<1>2. k + 1 \in 1 .. Len(data)
  BY <1>1
<1>3. data[k + 1] \in Byte
  BY <1>1, <1>2
<1> QED
  BY <1>3 DEF At, Byte

\* Four digits are a number of 16 bits.
LEMMA ParseHex4Range ==
  ASSUME TypeOK, NEW k \in Nat, k + 4 <= n
  PROVE  ParseHex4(k) \in Int /\ -1 <= ParseHex4(k) /\ ParseHex4(k) <= 65535
<1>1. n \in Nat
  BY DataType
<1>2. At(k) \in Int /\ At(k + 1) \in Int /\ At(k + 2) \in Int /\ At(k + 3) \in Int
  BY <1>1, AtByte
<1> DEFINE a == HexValue(At(k))
           b == HexValue(At(k + 1))
           c == HexValue(At(k + 2))
           d == HexValue(At(k + 3))
<1>3. a \in -1 .. 15 /\ b \in -1 .. 15 /\ c \in -1 .. 15 /\ d \in -1 .. 15
  BY <1>2, HexValueRange
<1>4. CASE \E e \in 0 .. 3 : HexValue(At(k + e)) = -1
  <2>1. ParseHex4(k) = -1
    BY <1>4 DEF ParseHex4
  <2> QED
    BY <2>1
<1>5. CASE ~ \E e \in 0 .. 3 : HexValue(At(k + e)) = -1
  <2>1. ParseHex4(k) = 4096 * a + 256 * b + 16 * c + d
    BY <1>5 DEF ParseHex4
  <2>2. HexValue(At(k + 0)) # -1 /\ b # -1 /\ c # -1 /\ d # -1
    BY <1>5
  <2>3. k + 0 = k
    OBVIOUS
  <2>4. a # -1
    BY <2>2, <2>3
  <2> HIDE DEF a, b, c, d
  <2>5. a \in 0 .. 15 /\ b \in 0 .. 15 /\ c \in 0 .. 15 /\ d \in 0 .. 15
    BY <1>3, <2>2, <2>4
  <2> QED
    BY <2>1, <2>5
<1> QED
  BY <1>4, <1>5

\* What is read for a rune exceeds what is written for it, and is there.
LEMMA RuneFits ==
  ASSUME TypeOK, Decodable
  PROVE  /\ Utf8(Rune(i)) \in Seq(Int)
         /\ Consumed(i) \in Nat
         /\ Len(Utf8(Rune(i))) <= Consumed(i)
         /\ i + Consumed(i) <= n
<1>1. i \in Nat /\ n \in Nat /\ i + 6 <= n
  BY DataType DEF TypeOK, Decodable, IsUnicodeEscape
<1>2. i + 2 \in Nat /\ (i + 2) + 4 <= n
  BY <1>1
<1> DEFINE v1 == ParseHex4(i + 2)
<1>3. v1 \in Int /\ -1 <= v1 /\ v1 <= 65535
  BY <1>2, ParseHex4Range
<1>4. CASE IsPair(i)
  <2>1. i + 12 <= n
    BY <1>1, <1>4 DEF IsPair, IsUnicodeEscape
  <2>2. Rune(i) = 65536 + 1024 * (v1 - 55296) + (ParseHex4(i + 8) - 56320)
    BY <1>4 DEF Rune
  <2>3. v1 \in 55296 .. 56319 /\ ParseHex4(i + 8) \in 56320 .. 57343
    BY <1>4 DEF IsPair, HighSurrogate, LowSurrogate
  <2> HIDE DEF v1
  <2>4. Rune(i) \in Nat
    <3> DEFINE v2 == ParseHex4(i + 8)
    <3>1. Rune(i) = 65536 + 1024 * (v1 - 55296) + (v2 - 56320)
      BY <2>2
    <3>2. v1 \in 55296 .. 56319 /\ v2 \in 56320 .. 57343
      BY <2>3
    <3> HIDE DEF v2
    <3> QED
      BY <3>1, <3>2
  <2>5. Consumed(i) = 12
    BY <1>4 DEF Consumed
  <2>6. Utf8(Rune(i)) \in Seq(Int) /\ Len(Utf8(Rune(i))) <= 4
    BY <2>4, Utf8Length
  <2>7. Len(Utf8(Rune(i))) \in Nat
    BY <2>6
  <2> QED
    BY <2>1, <2>5, <2>6, <2>7
<1>5. CASE ~IsPair(i)
  <2>1. Rune(i) \in Nat
    <3>1. Rune(i) = v1 /\ Rune(i) >= 0
      BY <1>5 DEF Rune, Decodable
    <3> HIDE DEF v1
    <3> QED
      BY <1>3, <3>1
  <2>2. Consumed(i) = 6
    BY <1>5 DEF Consumed
  <2>3. Utf8(Rune(i)) \in Seq(Int) /\ Len(Utf8(Rune(i))) <= 4
    BY <2>1, Utf8Length
  <2>4. Len(Utf8(Rune(i))) \in Nat
    BY <2>3
  <2> QED
    BY <1>1, <2>2, <2>3, <2>4
<1> QED
  BY <1>4, <1>5

\* Whatever keeps the output behind the input keeps the window inside.
LEMMA Window ==
  ASSUME TypeOK, Len(out) <= i, i <= n
  PROVE  InBounds
<1>1. i \in Nat /\ n \in Nat /\ Len(out) \in Nat
  BY DataType DEF TypeOK
<1> QED
  BY <1>1 DEF InBounds, IsUnicodeEscape

\* Six bytes to read leave four to write.
LEMMA SixFit ==
  ASSUME NEW a \in Nat, NEW b \in Nat, NEW m \in Nat, b <= a, a + 5 < m
  PROVE  a + 6 <= m /\ b + 4 <= m
OBVIOUS

\* The loop starts with nothing read and nothing written.
LEMMA InitBuffer == Init => BufferInv
<1> SUFFICES ASSUME Init PROVE BufferInv
  OBVIOUS
<1>1. TypeOK
  BY DEF Init, TypeOK
<1>2. Len(out) <= i /\ i <= n
  BY <1>1, DataType DEF Init
<1> QED
  BY <1>1, <1>2, Window DEF BufferInv

\* A turn of the loop writes no more than it reads.
LEMMA StepBuffer == BufferInv /\ [Next]_vars => BufferInv'
<1> SUFFICES ASSUME BufferInv, [Next]_vars PROVE BufferInv'
  OBVIOUS
<1>1. TypeOK /\ i \in Nat /\ n \in Nat /\ out \in Seq(Int) /\ Len(out) \in Nat
      /\ Len(out) <= i /\ i <= n /\ data \in Seq(Byte) /\ doc \in Document
  BY DataType DEF BufferInv, TypeOK
<1>2. ASSUME doc' = doc, i' \in Nat, out' \in Seq(Int), Len(out') <= i', i' <= n PROVE BufferInv'
  <2>1. TypeOK' /\ n' = n
    BY <1>1, <1>2 DEF TypeOK, n, data
  <2>2. (Len(out) <= i)' /\ (i <= n)'
    BY <1>2, <2>1
  <2>3. InBounds'
    <3>1. IsUnicodeEscape(i)' => i' + 5 < n
      BY <2>1 DEF IsUnicodeEscape
    <3>2. Len(out') \in Nat
      BY <1>2
    <3>3. i' \in Nat /\ n \in Nat /\ Len(out') <= i'
      BY <1>1, <1>2
    <3>4. i' + 5 < n => i' + 6 <= n /\ Len(out') + 4 <= n
      BY <3>2, <3>3, SixFit
    <3> QED
      BY <2>1, <3>1, <3>4 DEF InBounds
  <2> QED
    BY <2>1, <2>2, <2>3 DEF BufferInv
<1>3. CASE CopyBlock
  <2>1. PICK end \in i + 1 .. n :
          i' = end /\ out' = out \o SubSeq(data, i + 1, end)
    BY <1>3 DEF CopyBlock
  <2>2. SubSeq(data, i + 1, end) \in Seq(Byte) /\ Len(SubSeq(data, i + 1, end)) = end - i
    BY <1>1, <2>1 DEF n
  <2>3. SubSeq(data, i + 1, end) \in Seq(Int)
    BY <2>2 DEF Byte
  <2>4. out' \in Seq(Int) /\ Len(out') = Len(out) + (end - i)
    BY <1>1, <2>1, <2>2, <2>3
  <2>5. i' \in Nat /\ Len(out') <= i' /\ i' <= n
    BY <1>1, <2>1, <2>4
  <2> QED
    BY <1>2, <1>3, <2>4, <2>5 DEF CopyBlock
<1>4. CASE DecodeEscape
  <2>1. out' = out \o Utf8(Rune(i)) /\ i' = i + Consumed(i) /\ doc' = doc /\ Decodable
    BY <1>4 DEF DecodeEscape
  <2>2. /\ Utf8(Rune(i)) \in Seq(Int) /\ Consumed(i) \in Nat
        /\ Len(Utf8(Rune(i))) <= Consumed(i) /\ i + Consumed(i) <= n
    BY <1>1, <2>1, RuneFits
  <2>3. out' \in Seq(Int) /\ Len(out') = Len(out) + Len(Utf8(Rune(i)))
        /\ Len(Utf8(Rune(i))) \in Nat
    BY <1>1, <2>1, <2>2
  <2>4. i' \in Nat /\ Len(out') <= i' /\ i' <= n
    BY <1>1, <2>1, <2>2, <2>3
  <2> QED
    BY <1>2, <2>1, <2>3, <2>4
<1>5. CASE CopyByte
  <2>1. out' = Append(out, At(i)) /\ i' = i + 1 /\ doc' = doc /\ ~Done
    BY <1>5 DEF CopyByte
  <2>2. i < n
    BY <1>1, <2>1 DEF Done
  <2>3. At(i) \in Int
    BY <1>1, <2>2, AtByte
  <2>4. out' \in Seq(Int) /\ Len(out') = Len(out) + 1
    BY <1>1, <2>1, <2>3
  <2> QED
    BY <1>1, <1>2, <2>1, <2>2, <2>4
<1>6. CASE UNCHANGED vars
  BY <1>1, <1>2, <1>6 DEF vars
<1> QED
  BY <1>3, <1>4, <1>5, <1>6 DEF Next

---------------------------------------------------------------------------
(* The reference encoding and the code's.                                  *)

LEMMA HexDigitValue ==
  ASSUME NEW d \in 0 .. 15, NEW b \in HexDigit(d)
  PROVE  HexValue(b) = d
<1>1. CASE d < 10
  <2>1. b = 48 + d
    BY <1>1, SMT DEF HexDigit
  <2>2. b \in 48 .. 57 /\ b - 48 = d
    BY <1>1, <2>1, SMT
  <2> QED
    BY <2>2, SMT DEF HexValue
<1>2. CASE d >= 10
  <2>1. b = 55 + d \/ b = 87 + d
    BY <1>2, SMT DEF HexDigit
  <2>2. CASE b = 55 + d
    <3>1. b \in 65 .. 70 /\ b \notin 48 .. 57 /\ b \notin 97 .. 102 /\ b - 55 = d
      BY <1>2, <2>2, SMT
    <3> QED
      BY <3>1, SMT DEF HexValue
  <2>3. CASE b = 87 + d
    <3>1. b \in 97 .. 102 /\ b \notin 48 .. 57 /\ b - 87 = d
      BY <1>2, <2>3, SMT
    <3> QED
      BY <3>1, SMT DEF HexValue
  <2> QED
    BY <2>1, <2>2, <2>3
<1> QED
  BY <1>1, <1>2, SMT

\* Four digits of sixteen bits.
LEMMA Digits ==
  ASSUME NEW u \in Nat, u <= 65535
  PROVE  /\ u \div 4096 \in 0 .. 15 /\ (u \div 256) % 16 \in 0 .. 15
         /\ (u \div 16) % 16 \in 0 .. 15 /\ u % 16 \in 0 .. 15
         /\ 4096 * (u \div 4096) + 256 * ((u \div 256) % 16) + 16 * ((u \div 16) % 16) + (u % 16) = u
<1>1. \A v \in Nat : v \div 16 \in Nat /\ v % 16 \in 0 .. 15 /\ v = 16 * (v \div 16) + (v % 16)
  BY SMT
<1>2. u \div 256 = (u \div 16) \div 16 /\ u \div 4096 = (u \div 256) \div 16 /\ u \div 4096 <= 15
  BY SMT
<1> DEFINE e == u \div 16
           f == u \div 256
           g == u \div 4096
<1>3. e \in Nat /\ f \in Nat /\ g \in Nat
  BY <1>1, <1>2
<1>4. /\ u = 16 * e + (u % 16) /\ u % 16 \in 0 .. 15
      /\ e = 16 * f + (e % 16) /\ e % 16 \in 0 .. 15
      /\ f = 16 * g + (f % 16) /\ f % 16 \in 0 .. 15
  BY <1>1, <1>2, <1>3
<1> DEFINE x == u % 16
           y == e % 16
           z == f % 16
<1> HIDE DEF e, f, g, x, y, z
<1>5. 4096 * g + 256 * z + 16 * y + x = u
  <2>1. u = 16 * e + x /\ e = 16 * f + y /\ f = 16 * g + z
    BY <1>4 DEF x, y, z
  <2>2. x \in Int /\ y \in Int /\ z \in Int
    BY <1>4 DEF x, y, z
  <2> QED
    BY <1>3, <2>1, <2>2, SMT
<1> QED
  BY <1>2, <1>3, <1>4, <1>5, SMT DEF e, f, g, x, y, z

\* parseHex4 reads back the unit that was escaped.
LEMMA ParseEscape ==
  ASSUME NEW k \in Nat, NEW u \in Nat, u <= 65535, EscapeAt(k, u)
  PROVE  ParseHex4(k + 2) = u
<1> DEFINE a == u \div 4096
           b == (u \div 256) % 16
           c == (u \div 16) % 16
           d == u % 16
<1>1. /\ a \in 0 .. 15 /\ b \in 0 .. 15 /\ c \in 0 .. 15 /\ d \in 0 .. 15
      /\ 4096 * a + 256 * b + 16 * c + d = u
  BY Digits
<1>2. /\ At(k + 2) \in HexDigit(a) /\ At(k + 3) \in HexDigit(b)
      /\ At(k + 4) \in HexDigit(c) /\ At(k + 5) \in HexDigit(d)
  BY DEF EscapeAt
<1> HIDE DEF a, b, c, d
<1>3. /\ HexValue(At(k + 2)) = a /\ HexValue(At(k + 3)) = b
      /\ HexValue(At(k + 4)) = c /\ HexValue(At(k + 5)) = d
  BY <1>1, <1>2, HexDigitValue
<1>4. /\ (k + 2) + 0 = k + 2 /\ (k + 2) + 1 = k + 3
      /\ (k + 2) + 2 = k + 4 /\ (k + 2) + 3 = k + 5
  OBVIOUS
<1>5. \A e \in 0 .. 3 : e = 0 \/ e = 1 \/ e = 2 \/ e = 3
  OBVIOUS
<1>6. a # -1 /\ b # -1 /\ c # -1 /\ d # -1
  BY <1>1
<1>7. \A e \in 0 .. 3 : HexValue(At((k + 2) + e)) # -1
  BY <1>3, <1>4, <1>5, <1>6
<1>8. ParseHex4(k + 2) = 4096 * a + 256 * b + 16 * c + d
  BY <1>3, <1>4, <1>7 DEF ParseHex4
<1> QED
  BY <1>1, <1>8

\* Six bits at a time.
LEMMA SixBitsOf ==
  ASSUME NEW q \in Nat, NEW z \in 0 .. 63
  PROVE  (64 * q + z) \div 64 = q /\ (64 * q + z) % 64 = z /\ ((64 * q + z) \div 1) % 64 = z
BY SMT

LEMMA ShiftAgain ==
  ASSUME NEW q \in Nat
  PROVE  (q \div 64) \div 64 = q \div 4096 /\ (q \div 4096) \div 64 = q \div 262144
BY SMT

\* A code point has its range, and appendRuneAt writes its encoding.
LEMMA EncodingIsUtf8 ==
  ASSUME NEW s \in Seq(Byte), Encoding(s)
  PROVE  /\ CodePoint(s) \in Nat /\ CodePoint(s) <= 1114111
         /\ CodePoint(s) < 55296 \/ CodePoint(s) > 57343
         /\ Utf8(CodePoint(s)) = s
<1> DEFINE c == CodePoint(s)
<1>0. Continued(s) /\ Len(s) \in {1, 2, 3, 4}
  BY SMT DEF Encoding
<1>1. CASE Len(s) = 1
  <2>1. s[1] \in 0 .. 127 /\ c = s[1]
    BY <1>1, SMT DEF Encoding, CodePoint
  <2>2. s = <<s[1]>>
    BY <1>1, SMT
  <2> DEFINE b == s[1]
  <2>3. b \in 0 .. 127 /\ c = b /\ s = <<b>>
    BY <2>1, <2>2
  <2> HIDE DEF b, c
  <2>4. b \in Nat /\ b < 128
    BY <2>3, SMT
  <2>5. Utf8(b) = <<b>>
    BY <2>4, SMT DEF Utf8
  <2>6. c \in Nat /\ c <= 1114111 /\ (c < 55296 \/ c > 57343) /\ Utf8(c) = s
    BY <2>3, <2>4, <2>5, SMT
  <2> QED
    BY <2>6, SMT DEF c
<1>2. CASE Len(s) = 2
  <2> DEFINE x == s[1] - 192
             y == s[2] - 128
  <2>1. s[1] \in 192 .. 223 /\ c >= 128
    BY <1>2, SMT DEF Encoding
  <2>2. s[2] \in 128 .. 191
    BY <1>0, <1>2, SMT DEF Continued
  <2>3. c = 64 * x + y
    BY <1>2, SMT DEF CodePoint
  <2>4. s = <<192 + x, 128 + y>>
    <3>1. s = <<s[1], s[2]>>
      BY <1>2, SMT
    <3>2. \A a \in 192 .. 223 : 192 + (a - 192) = a
      BY SMT
    <3>3. \A a \in 128 .. 191 : 128 + (a - 128) = a
      BY SMT
    <3>4. 192 + x = s[1] /\ 128 + y = s[2]
      <4>1. 192 + x = s[1]
        BY <2>1, <3>2
      <4>2. 128 + y = s[2]
        BY <2>2, <3>3
      <4> QED
        BY <4>1, <4>2
    <3> QED
      BY <3>1, <3>4
  <2>5. x \in Nat /\ x <= 31 /\ y \in 0 .. 63
    <3>1. \A a \in 192 .. 223 : a - 192 \in Nat /\ a - 192 <= 31
      BY SMT
    <3>2. \A a \in 128 .. 191 : a - 128 \in 0 .. 63
      BY SMT
    <3> QED
      BY <2>1, <2>2, <3>1, <3>2
  <2> HIDE DEF x, y, c
  <2>6. c \div 64 = x /\ (c \div 1) % 64 = y /\ c \in Nat /\ c < 2048
    <3>1. c \div 64 = x /\ (c \div 1) % 64 = y
      BY <2>3, <2>5, SixBitsOf
    <3>2. c \in Nat /\ c < 2048
      BY <2>3, <2>5, SMT
    <3> QED
      BY <3>1, <3>2
  <2>7. Utf8(c) = TwoBytes(c)
    BY <2>1, <2>6, SMT DEF Utf8
  <2>8. TwoBytes(c) = <<192 + x, 128 + y>>
    BY <2>6 DEF TwoBytes, SixBits
  <2>9. c \in Nat /\ c <= 1114111 /\ (c < 55296 \/ c > 57343) /\ Utf8(c) = s
    BY <2>4, <2>6, <2>7, <2>8, SMT
  <2> QED
    BY <2>9, SMT DEF c
<1>3. CASE Len(s) = 3
  <2> DEFINE x == s[1] - 224
             y == s[2] - 128
             z == s[3] - 128
             q == 64 * x + y
  <2>1. s[1] \in 224 .. 239 /\ c >= 2048 /\ (c < 55296 \/ c > 57343)
    BY <1>3, SMT DEF Encoding
  <2>2. s[2] \in 128 .. 191 /\ s[3] \in 128 .. 191
    BY <1>0, <1>3, SMT DEF Continued
  <2>3. c = 4096 * x + 64 * y + z
    BY <1>3, SMT DEF CodePoint
  <2>4. s = <<224 + x, 128 + y, 128 + z>>
    <3>1. s = <<s[1], s[2], s[3]>>
      BY <1>3, SMT
    <3>2. \A a \in 224 .. 239 : 224 + (a - 224) = a
      BY SMT
    <3>3. \A a \in 128 .. 191 : 128 + (a - 128) = a
      BY SMT
    <3>4. 224 + x = s[1] /\ 128 + y = s[2] /\ 128 + z = s[3]
      <4>1. 224 + x = s[1]
        BY <2>1, <3>2
      <4>2. 128 + y = s[2]
        BY <2>2, <3>3
      <4>3. 128 + z = s[3]
        BY <2>2, <3>3
      <4> QED
        BY <4>1, <4>2, <4>3
    <3>5. \A a, b, e : a = s[1] /\ b = s[2] /\ e = s[3] => s = <<a, b, e>>
      BY <3>1
    <3> QED
      BY <3>4, <3>5
  <2>5. x \in Nat /\ x <= 15 /\ y \in 0 .. 63 /\ z \in 0 .. 63
    <3>1. \A a \in 224 .. 239 : a - 224 \in Nat /\ a - 224 <= 15
      BY SMT
    <3>2. \A a \in 128 .. 191 : a - 128 \in 0 .. 63
      BY SMT
    <3>3. x \in Nat /\ x <= 15
      BY <2>1, <3>1
    <3>4. y \in 0 .. 63 /\ z \in 0 .. 63
      BY <2>2, <3>2
    <3> QED
      BY <3>3, <3>4
  <2> HIDE DEF x, y, z, c
  <2>6. q \in Nat /\ c = 64 * q + z /\ c \in Nat /\ c < 65536
    BY <2>3, <2>5, SMT
  <2>7. q \div 64 = x /\ (q % 64) = y
    BY <2>5, SixBitsOf
  <2> HIDE DEF q
  <2>8. c \div 64 = q /\ (c \div 1) % 64 = z
    BY <2>5, <2>6, SixBitsOf
  <2>9. c \div 4096 = x
    BY <2>6, <2>7, <2>8, ShiftAgain
  <2>10. Utf8(c) = ThreeBytes(c)
    BY <2>1, <2>6, SMT DEF Utf8
  <2>11. ThreeBytes(c) = <<224 + x, 128 + y, 128 + z>>
    BY <2>7, <2>8, <2>9 DEF ThreeBytes, SixBits
  <2>12. c \in Nat /\ c <= 1114111 /\ (c < 55296 \/ c > 57343) /\ Utf8(c) = s
    BY <2>1, <2>4, <2>6, <2>10, <2>11, SMT
  <2> QED
    BY <2>12, SMT DEF c
<1>4. CASE Len(s) = 4
  <2> DEFINE x == s[1] - 240
             y == s[2] - 128
             z == s[3] - 128
             t == s[4] - 128
             q == 64 * x + y
             p == 64 * q + z
  <2>1. s[1] \in 240 .. 247 /\ c >= 65536 /\ c <= 1114111
    BY <1>4, SMT DEF Encoding
  <2>2. s[2] \in 128 .. 191 /\ s[3] \in 128 .. 191 /\ s[4] \in 128 .. 191
    BY <1>0, <1>4, SMT DEF Continued
  <2>3. c = 262144 * x + 4096 * y + 64 * z + t
    BY <1>4, SMT DEF CodePoint
  <2>4. s = <<240 + x, 128 + y, 128 + z, 128 + t>>
    <3>1. s = <<s[1], s[2], s[3], s[4]>>
      BY <1>4, SMT
    <3>2. \A a \in 240 .. 247 : 240 + (a - 240) = a
      BY SMT
    <3>3. \A a \in 128 .. 191 : 128 + (a - 128) = a
      BY SMT
    <3>4. 240 + x = s[1] /\ 128 + y = s[2] /\ 128 + z = s[3] /\ 128 + t = s[4]
      <4>1. 240 + x = s[1]
        BY <2>1, <3>2
      <4>2. 128 + y = s[2]
        BY <2>2, <3>3
      <4>3. 128 + z = s[3]
        BY <2>2, <3>3
      <4>4. 128 + t = s[4]
        BY <2>2, <3>3
      <4> QED
        BY <4>1, <4>2, <4>3, <4>4
    <3>5. \A a, b, e, f : a = s[1] /\ b = s[2] /\ e = s[3] /\ f = s[4] => s = <<a, b, e, f>>
      BY <3>1
    <3> QED
      BY <3>4, <3>5
  <2>5. x \in Nat /\ y \in 0 .. 63 /\ z \in 0 .. 63 /\ t \in 0 .. 63
    <3>1. \A a \in 240 .. 247 : a - 240 \in Nat
      BY SMT
    <3>2. \A a \in 128 .. 191 : a - 128 \in 0 .. 63
      BY SMT
    <3>3. x \in Nat
      BY <2>1, <3>1
    <3>4. y \in 0 .. 63 /\ z \in 0 .. 63 /\ t \in 0 .. 63
      BY <2>2, <3>2
    <3> QED
      BY <3>3, <3>4
  <2> HIDE DEF x, y, z, t, c
  <2>6. q \in Nat /\ p \in Nat /\ c = 64 * p + t /\ c \in Nat
    BY <2>3, <2>5, SMT
  <2>7. q \div 64 = x /\ (q % 64) = y
    BY <2>5, SixBitsOf
  <2> HIDE DEF q
  <2>8. p \div 64 = q /\ (p % 64) = z
    BY <2>5, <2>6, SixBitsOf
  <2> HIDE DEF p
  <2>9. c \div 64 = p /\ (c \div 1) % 64 = t
    BY <2>5, <2>6, SixBitsOf
  <2>10. c \div 4096 = q
    BY <2>6, <2>8, <2>9, ShiftAgain, SMT
  <2>11. c \div 262144 = x
    BY <2>6, <2>7, <2>10, ShiftAgain, SMT
  <2>12. Utf8(c) = FourBytes(c)
    BY <2>1, <2>6, SMT DEF Utf8
  <2>13. FourBytes(c) = <<240 + x, 128 + y, 128 + z, 128 + t>>
    BY <2>7, <2>8, <2>9, <2>10, <2>11, SMT DEF FourBytes, SixBits
  <2>14. c \in Nat /\ c <= 1114111 /\ (c < 55296 \/ c > 57343) /\ Utf8(c) = s
    BY <2>1, <2>4, <2>6, <2>12, <2>13, SMT
  <2> QED
    BY <2>14, SMT DEF c
<1> QED
  BY <1>0, <1>1, <1>2, <1>3, <1>4, SMT

\* The halves of a pair are surrogates, and give the character back.
LEMMA PairOf ==
  ASSUME NEW c \in Nat, 65536 <= c, c <= 1114111
  PROVE  /\ (c - 65536) \div 1024 \in 0 .. 1023 /\ (c - 65536) % 1024 \in 0 .. 1023
         /\ c = 65536 + 1024 * ((c - 65536) \div 1024) + ((c - 65536) % 1024)
BY SMT

---------------------------------------------------------------------------
(* Induction over the marks.  The library's induction theorems range over  *)
(* operators; that a set of numbers which has 0 and every successor has    *)
(* every number follows from the least element outside it.                 *)

Less == {p \in Nat \X Nat : p[1] < p[2]}

LEMMA LessWellFounded == IsWellFoundedOn(Less, Nat)
BY NatLessThanWellFounded DEF OpToRel, Less

LEMMA SetInduction ==
  ASSUME NEW S \in SUBSET Nat, 0 \in S, \A k \in S : k + 1 \in S
  PROVE  S = Nat
<1> DEFINE T == Nat \ S
<1> SUFFICES ASSUME T # {} PROVE FALSE
  OBVIOUS
<1>1. PICK x \in T : \A y \in T : ~(<<y, x>> \in Less)
  <2>1. T \subseteq Nat
    OBVIOUS
  <2> HIDE DEF T
  <2> QED
    BY <2>1, LessWellFounded, WFMin
<1>2. x # 0 /\ x \in Nat /\ x - 1 \in Nat
  OBVIOUS
<1>3. x - 1 \in T
  BY <1>2
<1>4. <<x - 1, x>> \in Less
  BY <1>2 DEF Less
<1> QED
  BY <1>1, <1>3, <1>4

---------------------------------------------------------------------------
(* The characters of a body that spells a text.                            *)

m == Len(doc.marks)
R(p) == doc.marks[p].read
W(p) == doc.marks[p].written
Written(p) == SubSeq(doc.text, 1, W(p))
Piece(p) == SubSeq(doc.text, W(p) + 1, W(p + 1))

\* The marks lie inside the body and the text, the last one at their ends.
LEMMA MarkTypes ==
  ASSUME TypeOK, Spells
  PROVE  /\ m \in Nat /\ 1 <= m /\ doc.text \in Seq(Byte) /\ Len(doc.text) \in Nat
         /\ \A p \in 1 .. m : R(p) \in Nat /\ W(p) \in Nat /\ R(p) <= n /\ W(p) <= Len(doc.text)
         /\ R(1) = 0 /\ W(1) = 0 /\ R(m) = n /\ W(m) = Len(doc.text)
<1>1. doc.text \in Seq(Byte) /\ doc.marks \in Seq(Mark)
  BY UnescapeAssumption DEF TypeOK
<1>2. m \in Nat /\ 1 <= m
  <2>1. doc.marks # << >> /\ m \in Nat
    BY <1>1 DEF Spells, m
  <2>2. m # 0
    BY <1>1, <2>1 DEF m
  <2> QED
    BY <2>1, <2>2
<1>3. \A p \in 1 .. m : doc.marks[p] \in Mark
  BY <1>1 DEF m
<1>4. \A p \in 1 .. m : R(p) \in Nat /\ W(p) \in Nat
  BY <1>3 DEF Mark, R, W
<1>5. \A p \in 1 .. m : R(p) <= n /\ W(p) <= Len(doc.text)
  BY DEF Spells, R, W, m
<1>6. R(1) = 0 /\ W(1) = 0
  <2>1. doc.marks[1] = [read |-> 0, written |-> 0]
    BY DEF Spells
  <2> QED
    BY <2>1 DEF R, W
<1>7. R(m) = n /\ W(m) = Len(doc.text)
  <2>1. doc.marks[m] = [read |-> n, written |-> Len(doc.text)]
    BY DEF Spells, m
  <2> QED
    BY <2>1 DEF R, W
<1> QED
  BY <1>1, <1>2, <1>4, <1>5, <1>6, <1>7

\* Between two marks lies the encoding of one character.
LEMMA PieceFacts ==
  ASSUME TypeOK, Spells, NEW p \in 1 .. m - 1
  PROVE  /\ p \in 1 .. m /\ p + 1 \in 1 .. m
         /\ R(p) < R(p + 1) /\ W(p) < W(p + 1)
         /\ Piece(p) \in Seq(Byte) /\ Encoding(Piece(p))
         /\ Written(p) \o Piece(p) = Written(p + 1)
         /\ SpellsCharacter(doc.marks[p], doc.marks[p + 1])
<1>1. m \in Nat /\ doc.text \in Seq(Byte) /\ Len(doc.text) \in Nat
  BY MarkTypes
<1>2. p \in 1 .. m /\ p + 1 \in 1 .. m
  BY <1>1
<1>3. /\ R(p) \in Nat /\ W(p) \in Nat /\ R(p + 1) \in Nat /\ W(p + 1) \in Nat
      /\ W(p) <= Len(doc.text) /\ W(p + 1) <= Len(doc.text)
  BY <1>2, MarkTypes
<1>4. SpellsCharacter(doc.marks[p], doc.marks[p + 1])
  BY DEF Spells, m
<1>5. R(p) < R(p + 1) /\ W(p) < W(p + 1) /\ Encoding(Piece(p))
  BY <1>4 DEF SpellsCharacter, R, W, Piece
<1>6. /\ W(p) + 1 \in 1 .. Len(doc.text) + 1 /\ W(p) \in 0 .. Len(doc.text)
      /\ W(p + 1) \in W(p) .. Len(doc.text)
  BY <1>1, <1>3, <1>5
<1>7. Written(p) \o Piece(p) = Written(p + 1)
  <2>1. 1 \in 1 .. Len(doc.text) + 1 /\ W(p) \in 1 - 1 .. Len(doc.text)
    BY <1>1, <1>6
  <2> QED
    BY <1>1, <1>6, <2>1, ConcatAdjacentSubSeq DEF Written, Piece
<1>8. Piece(p) \in Seq(Byte)
  <2>1. \A k \in W(p) + 1 .. W(p + 1) : doc.text[k] \in Byte
    BY <1>1, <1>3
  <2>2. W(p) + 1 \in Int /\ W(p + 1) \in Int
    BY <1>3
  <2> QED
    BY <2>1, <2>2, SubSeqProperties DEF Piece
<1> QED
  BY <1>2, <1>4, <1>5, <1>7, <1>8

\* The character between two marks, as it is.
Plain(p) == PlainAt(doc.marks[p], doc.marks[p + 1], Piece(p))

\* A character that stands for itself has no backslash after its first byte.
LEMMA PlainFacts ==
  ASSUME TypeOK, Spells, NEW p \in 1 .. m - 1, Plain(p)
  PROVE  /\ Piece(p) = SubSeq(data, R(p) + 1, R(p + 1))
         /\ \A k \in R(p) + 1 .. R(p + 1) - 1 : At(k) # Backslash
<1>1. /\ R(p) \in Nat /\ R(p + 1) \in Nat /\ R(p) < R(p + 1) /\ R(p + 1) <= n
      /\ data \in Seq(Byte) /\ n \in Nat
  BY PieceFacts, MarkTypes, DataType
<1>2. Piece(p) = SubSeq(data, R(p) + 1, R(p + 1)) /\ R(p + 1) - R(p) = Len(Piece(p))
  BY DEF Plain, PlainAt, R
<1>3. Continued(Piece(p))
  BY PieceFacts DEF Encoding
<1>4. \A k \in R(p) + 1 .. R(p + 1) - 1 : At(k) # Backslash
  <2> SUFFICES ASSUME NEW k \in R(p) + 1 .. R(p + 1) - 1 PROVE At(k) # Backslash
    OBVIOUS
  <2>1. \A j \in R(p) + 1 .. R(p + 1) : data[j] \in Byte
    BY <1>1 DEF n
  <2>2. R(p) + 1 \in Int /\ R(p + 1) \in Int
    BY <1>1
  <2>3. \A j \in 1 .. R(p + 1) - (R(p) + 1) + 1 : Piece(p)[j] = data[(R(p) + 1) + j - 1]
    BY <1>2, <2>1, <2>2, SubSeqProperties
  <2> DEFINE j == k - R(p) + 1
  <2>4. j \in 1 .. R(p + 1) - (R(p) + 1) + 1 /\ (R(p) + 1) + j - 1 = k + 1
    BY <1>1
  <2>5. Piece(p)[j] = At(k)
    BY <2>3, <2>4 DEF At
  <2>6. j \in 2 .. Len(Piece(p))
    BY <1>1, <1>2
  <2>7. Piece(p)[j] \in 128 .. 191
    BY <1>3, <2>6 DEF Continued
  <2>8. At(k) \in 128 .. 191
    BY <2>5, <2>7
  <2>9. Backslash \notin 128 .. 191
    BY SMT DEF Backslash
  <2> QED
    BY <2>8, <2>9
<1> QED
  BY <1>2, <1>4

\* A piece that begins with no backslash is no escape.
LEMMA NoBackslash ==
  ASSUME TypeOK, Spells, NEW p \in 1 .. m - 1, At(R(p)) # Backslash
  PROVE  Plain(p)
<1>1. SpellsCharacter(doc.marks[p], doc.marks[p + 1])
  BY PieceFacts
<1>2. \A u : ~EscapeAt(R(p), u)
  BY DEF EscapeAt
<1> QED
  BY <1>1, <1>2 DEF SpellsCharacter, Plain, Piece, R, W

\* A block that begins at a mark ends at one, and is the text between them:
\* by induction over the marks, none of them is stepped over.
LEMMA BlockEndsAtMark ==
  ASSUME TypeOK, Spells, NEW p \in 1 .. m, NEW end \in R(p) + 1 .. n,
         \A k \in R(p) .. end - 1 : At(k) # Backslash,
         end < n => At(end) = Backslash
  PROVE  \E q \in 1 .. m :
           R(q) = end /\ Written(q) = Written(p) \o SubSeq(data, R(p) + 1, end)
<1> DEFINE Copied(q) == Written(q) = Written(p) \o SubSeq(data, R(p) + 1, R(q))
           Met(k) == \E q \in p .. p + k : R(q) = end /\ Copied(q)
           Ahead(k) == R(p) <= R(p + k) /\ R(p + k) < end /\ Copied(p + k)
           S == {k \in Nat : p + k <= m => Met(k) \/ Ahead(k)}
<1>1. /\ m \in Nat /\ n \in Nat /\ data \in Seq(Byte) /\ doc.text \in Seq(Byte)
      /\ R(p) \in Nat /\ end \in Nat /\ R(p) < end /\ end <= n /\ p \in Nat
      /\ n = Len(data)
  BY MarkTypes, DataType DEF n
<1>2. \A q \in 1 .. m : Written(q) \in Seq(Byte)
  <2> SUFFICES ASSUME NEW q \in 1 .. m PROVE Written(q) \in Seq(Byte)
    OBVIOUS
  <2>1. W(q) \in Nat /\ W(q) <= Len(doc.text)
    BY MarkTypes
  <2>2. \A k \in 1 .. W(q) : doc.text[k] \in Byte
    BY <1>1, <2>1
  <2> QED
    BY <2>1, <2>2, SubSeqProperties DEF Written
<1>3. \A a, b \in Nat : b <= n => SubSeq(data, a + 1, b) \in Seq(Byte)
  <2> SUFFICES ASSUME NEW a \in Nat, NEW b \in Nat, b <= n
               PROVE  SubSeq(data, a + 1, b) \in Seq(Byte)
    OBVIOUS
  <2>1. \A k \in a + 1 .. b : data[k] \in Byte
    BY <1>1
  <2>2. a + 1 \in Int /\ b \in Int
    OBVIOUS
  <2> QED
    BY <2>1, <2>2, SubSeqProperties
<1>4. 0 \in S
  <2>1. p + 0 = p
    BY <1>1
  <2>2. SubSeq(data, R(p) + 1, R(p)) = << >>
    BY <1>1, SubSeqEmpty
  <2>3. Copied(p)
    BY <1>2, <2>2, ConcatEmptySeq
  <2>4. Ahead(0)
    BY <1>1, <2>1, <2>3
  <2> QED
    BY <2>4
<1>5. ASSUME NEW k \in S PROVE k + 1 \in S
  <2>0. k \in Nat /\ k + 1 \in Nat
    OBVIOUS
  <2> SUFFICES ASSUME p + (k + 1) <= m PROVE Met(k + 1) \/ Ahead(k + 1)
    BY <2>0
  <2> DEFINE q == p + k
  <2>1. q \in 1 .. m - 1 /\ q + 1 = p + (k + 1) /\ q <= m
    BY <1>1, <2>0
  <2>2. CASE Met(k)
    <3>1. PICK z \in p .. p + k : R(z) = end /\ Copied(z)
      BY <2>2
    <3>2. z \in p .. p + (k + 1)
      BY <1>1, <2>0
    <3> QED
      BY <3>1, <3>2
  <2>3. CASE Ahead(k)
    <3>1. R(p) <= R(q) /\ R(q) < end /\ Copied(q)
      BY <2>3
    <3> HIDE DEF q, S
    <3>2. /\ R(q) \in Nat /\ R(q + 1) \in Nat /\ R(q) < R(q + 1) /\ R(q + 1) <= n
          /\ q \in 1 .. m /\ q + 1 \in 1 .. m
      BY <2>1, PieceFacts, MarkTypes
    <3>3. At(R(q)) # Backslash
      BY <1>1, <3>1, <3>2
    <3>4. Plain(q)
      BY <2>1, <3>3, NoBackslash
    <3>5. /\ Piece(q) = SubSeq(data, R(q) + 1, R(q + 1))
          /\ \A j \in R(q) + 1 .. R(q + 1) - 1 : At(j) # Backslash
      BY <2>1, <3>4, PlainFacts
    <3>6. R(q + 1) <= end
      <4> SUFFICES ASSUME end < R(q + 1) PROVE FALSE
        BY <1>1, <3>2
      <4>1. end \in R(q) + 1 .. R(q + 1) - 1 /\ end < n
        BY <1>1, <3>1, <3>2
      <4> QED
        BY <3>5, <4>1
    <3>7. Copied(q + 1)
      <4> DEFINE a == Written(p)
                 b == SubSeq(data, R(p) + 1, R(q))
                 c == SubSeq(data, R(q) + 1, R(q + 1))
      <4>1. a \in Seq(Byte) /\ b \in Seq(Byte) /\ c \in Seq(Byte)
        <5>1. a \in Seq(Byte)
          BY <1>2
        <5>2. R(q) <= n
          BY <1>1, <3>1, <3>2
        <5>3. b \in Seq(Byte)
          BY <1>1, <1>3, <3>2, <5>2
        <5>4. c \in Seq(Byte)
          BY <1>3, <3>2
        <5> QED
          BY <5>1, <5>3, <5>4
      <4>2. Written(q + 1) = Written(q) \o Piece(q)
        BY <2>1, PieceFacts
      <4>3. Written(q + 1) = (a \o b) \o c
        BY <3>1, <3>5, <4>2
      <4>4. b \o c = SubSeq(data, R(p) + 1, R(q + 1))
        <5>1. /\ R(p) + 1 \in 1 .. Len(data) + 1 /\ R(q) \in (R(p) + 1) - 1 .. Len(data)
              /\ R(q + 1) \in R(q) .. Len(data)
          BY <1>1, <3>1, <3>2
        <5> QED
          BY <1>1, <5>1, ConcatAdjacentSubSeq
      <4> HIDE DEF a, b, c
      <4>5. (a \o b) \o c = a \o (b \o c)
        BY <4>1, ConcatAssociative
      <4>6. Written(q + 1) = a \o SubSeq(data, R(p) + 1, R(q + 1))
        BY <4>3, <4>4, <4>5
      <4> QED
        BY <4>6 DEF a
    <3>8. CASE R(q + 1) = end
      <4>1. q + 1 \in p .. p + (k + 1)
        BY <1>1, <2>0, <2>1
      <4> QED
        BY <3>7, <3>8, <4>1
    <3>9. CASE R(q + 1) < end
      <4>1. R(p) <= R(q + 1)
        BY <1>1, <3>1, <3>2
      <4>2. Ahead(k + 1)
        BY <2>1, <3>7, <3>9, <4>1
      <4> QED
        BY <4>2
    <3>10. R(q + 1) = end \/ R(q + 1) < end
      BY <1>1, <3>2, <3>6
    <3> QED
      BY <3>8, <3>9, <3>10
  <2> QED
    BY <2>1, <2>2, <2>3
<1>6. S = Nat
  <2>1. S \in SUBSET Nat
    OBVIOUS
  <2> HIDE DEF S
  <2> QED
    BY <1>4, <1>5, <2>1, SetInduction
<1>7. m - p \in S /\ p + (m - p) = m
  <2> HIDE DEF S
  <2> QED
    BY <1>1, <1>6
<1>8. Met(m - p) \/ Ahead(m - p)
  <2>1. p + (m - p) <= m
    BY <1>1, <1>7
  <2> HIDE DEF Met, Ahead
  <2> QED
    BY <1>7, <2>1
<1>9. ~Ahead(m - p)
  BY <1>1, <1>7, MarkTypes
<1>10. PICK q \in p .. p + (m - p) : R(q) = end /\ Copied(q)
  BY <1>8, <1>9
<1>11. q \in 1 .. m
  BY <1>1, <1>7
<1> QED
  BY <1>10, <1>11

\* A piece that is no plain character is an escape, and is decoded as it.
LEMMA EscapedFacts ==
  ASSUME TypeOK, Spells, NEW p \in 1 .. m - 1, ~Plain(p)
  PROVE  /\ IsUnicodeEscape(R(p)) /\ Rune(R(p)) >= 0
         /\ Utf8(Rune(R(p))) = Piece(p)
         /\ R(p) + Consumed(R(p)) = R(p + 1)
<1> DEFINE c == CodePoint(Piece(p))
           r == R(p)
           h == 55296 + ((c - 65536) \div 1024)
           l == 56320 + ((c - 65536) % 1024)
<1>1. /\ r \in Nat /\ R(p + 1) \in Nat /\ R(p + 1) <= n /\ n \in Nat
      /\ Piece(p) \in Seq(Byte) /\ Encoding(Piece(p))
      /\ SpellsCharacter(doc.marks[p], doc.marks[p + 1])
  BY PieceFacts, MarkTypes, DataType
<1>2. c \in Nat /\ c <= 1114111 /\ (c < 55296 \/ c > 57343) /\ Utf8(c) = Piece(p)
  BY <1>1, EncodingIsUtf8
<1>3. \/ c < 65536 /\ R(p + 1) = r + 6 /\ EscapeAt(r, c)
      \/ c >= 65536 /\ R(p + 1) = r + 12 /\ EscapeAt(r, h) /\ EscapeAt(r + 6, l)
  BY <1>1 DEF SpellsCharacter, Plain, Piece, R, W
<1> HIDE DEF c, r
<1>4. CASE c < 65536 /\ R(p + 1) = r + 6 /\ EscapeAt(r, c)
  <2>1. c <= 65535
    BY <1>2, <1>4, SMT
  <2>2. ParseHex4(r + 2) = c
    BY <1>1, <1>2, <1>4, <2>1, ParseEscape
  <2>3. IsUnicodeEscape(r)
    <3>1. r + 5 < n
      BY <1>1, <1>4
    <3> QED
      BY <1>4, <3>1 DEF IsUnicodeEscape, EscapeAt
  <2>4. ~(c \in HighSurrogate)
    BY <1>2, SMT DEF HighSurrogate
  <2>5. ~IsPair(r)
    BY <2>2, <2>4 DEF IsPair
  <2>6. Rune(r) = c /\ Consumed(r) = 6
    BY <2>2, <2>5 DEF Rune, Consumed
  <2>7. Utf8(Rune(r)) = Piece(p)
    BY <1>2, <2>6
  <2>8. Rune(r) >= 0
    BY <1>2, <2>6, SMT
  <2> QED
    BY <1>4, <2>3, <2>6, <2>7, <2>8 DEF r
<1>5. CASE c >= 65536 /\ R(p + 1) = r + 12 /\ EscapeAt(r, h) /\ EscapeAt(r + 6, l)
  <2> DEFINE a == (c - 65536) \div 1024
             b == (c - 65536) % 1024
  <2>0. 65536 <= c
    BY <1>2, <1>5, SMT
  <2>1. a \in 0 .. 1023 /\ b \in 0 .. 1023 /\ c = 65536 + 1024 * a + b
    BY <1>2, <2>0, PairOf
  <2>2. h = 55296 + a /\ l = 56320 + b
    OBVIOUS
  <2> HIDE DEF a, b, h, l
  <2>3. /\ h \in Nat /\ l \in Nat /\ h <= 65535 /\ l <= 65535
        /\ h \in HighSurrogate /\ l \in LowSurrogate
        /\ 65536 + 1024 * (h - 55296) + (l - 56320) = c
    BY <1>2, <2>1, <2>2, SMT DEF HighSurrogate, LowSurrogate
  <2>4. ParseHex4(r + 2) = h
    BY <1>1, <1>5, <2>3, ParseEscape
  <2>5. ParseHex4(r + 8) = l
    <3>1. r + 6 \in Nat /\ (r + 6) + 2 = r + 8
      BY <1>1
    <3>2. ParseHex4((r + 6) + 2) = l
      BY <1>5, <2>3, <3>1, ParseEscape
    <3> QED
      BY <3>1, <3>2
  <2>6. IsUnicodeEscape(r) /\ IsUnicodeEscape(r + 6)
    <3>1. r + 5 < n /\ (r + 6) + 5 < n
      BY <1>1, <1>5
    <3> QED
      BY <1>5, <3>1 DEF IsUnicodeEscape, EscapeAt
  <2>7. IsPair(r)
    BY <2>3, <2>4, <2>5, <2>6 DEF IsPair
  <2>8. Rune(r) = c /\ Consumed(r) = 12
    BY <2>3, <2>4, <2>5, <2>7 DEF Rune, Consumed
  <2>9. Utf8(Rune(r)) = Piece(p)
    BY <1>2, <2>8
  <2>10. Rune(r) >= 0
    BY <1>2, <2>8, SMT
  <2> QED
    BY <1>5, <2>6, <2>8, <2>9, <2>10 DEF r
<1> QED
  BY <1>3, <1>4, <1>5

\* The first byte tells a character of one byte from the longer ones.
LEMMA FirstByte ==
  ASSUME NEW s \in Seq(Byte), Encoding(s)
  PROVE  Len(s) = 1 \/ s[1] \in 192 .. 223 \/ s[1] \in 224 .. 239 \/ s[1] \in 240 .. 247
BY SMT DEF Encoding

\* A backslash that stands for itself is a piece of one byte.
LEMMA PlainBackslash ==
  ASSUME TypeOK, Spells, NEW p \in 1 .. m - 1, Plain(p), At(R(p)) = Backslash
  PROVE  Piece(p) = <<Backslash>> /\ R(p + 1) = R(p) + 1
<1>1. /\ R(p) \in Nat /\ R(p + 1) \in Nat /\ R(p) < R(p + 1) /\ R(p + 1) <= n
      /\ data \in Seq(Byte) /\ n \in Nat
  BY PieceFacts, MarkTypes, DataType
<1>2. Piece(p) = SubSeq(data, R(p) + 1, R(p + 1)) /\ Encoding(Piece(p))
  BY PlainFacts, PieceFacts
<1>3. Len(Piece(p)) = R(p + 1) - R(p) /\ Piece(p)[1] = Backslash /\ Piece(p) \in Seq(Byte)
  <2>1. \A j \in R(p) + 1 .. R(p + 1) : data[j] \in Byte
    BY <1>1 DEF n
  <2>2. /\ R(p) + 1 \in Int /\ R(p + 1) \in Int /\ R(p) + 1 <= R(p + 1)
        /\ R(p + 1) - (R(p) + 1) + 1 = R(p + 1) - R(p)
        /\ 1 \in 1 .. R(p + 1) - (R(p) + 1) + 1 /\ (R(p) + 1) + 1 - 1 = R(p) + 1
    BY <1>1
  <2>3. /\ Piece(p) \in Seq(Byte)
        /\ Len(Piece(p)) = IF R(p) + 1 <= R(p + 1) THEN R(p + 1) - (R(p) + 1) + 1 ELSE 0
        /\ \A j \in 1 .. R(p + 1) - (R(p) + 1) + 1 : Piece(p)[j] = data[(R(p) + 1) + j - 1]
    BY <1>2, <2>1, <2>2, SubSeqProperties
  <2>4. Piece(p)[1] = data[R(p) + 1]
    BY <2>2, <2>3
  <2> QED
    BY <2>2, <2>3, <2>4 DEF At
<1>4. Len(Piece(p)) = 1
  <2>1. \/ Len(Piece(p)) = 1 \/ Piece(p)[1] \in 192 .. 223
        \/ Piece(p)[1] \in 224 .. 239 \/ Piece(p)[1] \in 240 .. 247
    BY <1>2, <1>3, FirstByte
  <2>2. Backslash \notin 192 .. 223 /\ Backslash \notin 224 .. 239 /\ Backslash \notin 240 .. 247
    BY SMT DEF Backslash
  <2> QED
    BY <1>3, <2>1, <2>2
<1>5. Piece(p) = <<Backslash>>
  <2>1. \A s \in Seq(Byte) : Len(s) = 1 => s = <<s[1]>>
    BY SMT
  <2> QED
    BY <1>3, <1>4, <2>1
<1> QED
  BY <1>1, <1>3, <1>4, <1>5

---------------------------------------------------------------------------
(* Every turn goes from mark to mark.                                      *)

LEMMA InitAligned == Init => Aligned
<1> SUFFICES ASSUME Init, Spells
             PROVE  \E p \in 1 .. m : i = R(p) /\ out = Written(p)
  BY DEF Aligned, m, R, W, Written
<1>1. TypeOK
  BY DEF Init, TypeOK
<1>2. 1 \in 1 .. m /\ R(1) = 0 /\ W(1) = 0
  BY <1>1, MarkTypes
<1>3. SubSeq(doc.text, 1, 0) = << >>
  BY SubSeqEmpty
<1> QED
  BY <1>2, <1>3 DEF Init, Written

LEMMA StepAligned == BufferInv /\ Aligned /\ [Next]_vars => Aligned'
<1> SUFFICES ASSUME BufferInv, Aligned, [Next]_vars, Spells'
             PROVE  (\E p \in 1 .. m : i = R(p) /\ out = Written(p))'
  BY DEF Aligned, m, R, W, Written
<1>1. TypeOK /\ i \in Nat /\ n \in Nat /\ out \in Seq(Int)
  BY DataType DEF BufferInv, TypeOK
<1>2. doc' = doc
  BY DEF Next, CopyBlock, DecodeEscape, CopyByte, vars
<1>3. Spells
  <2>1. n' = n /\ data' = data
    BY <1>2 DEF n, data
  <2>2. \A k, u : EscapeAt(k, u)' <=> EscapeAt(k, u)
    BY <2>1, SMT DEF EscapeAt, At
  <2>3. \A a, b, s : PlainAt(a, b, s)' <=> PlainAt(a, b, s)
    BY <2>1, SMT DEF PlainAt, At
  <2>4. \A a, b : SpellsCharacter(a, b)' <=> SpellsCharacter(a, b)
    BY <1>2, <2>2, <2>3, SMT DEF SpellsCharacter
  <2> QED
    BY <1>2, <2>1, <2>4 DEF Spells
<1>4. PICK p \in 1 .. m : i = R(p) /\ out = Written(p)
  BY <1>3 DEF Aligned, m, R, W, Written
<1> SUFFICES \E q \in 1 .. m : i' = R(q) /\ out' = Written(q)
  BY <1>2 DEF m, R, W, Written
<1>5. ASSUME ~Done PROVE p \in 1 .. m - 1 /\ i < n
  <2>1. i < n
    BY <1>1, <1>5 DEF Done
  <2>2. p # m /\ m \in Nat
    BY <1>1, <1>3, <1>4, <2>1, MarkTypes
  <2> QED
    BY <2>1, <2>2
<1>6. CASE CopyBlock
  <2>1. PICK end \in R(p) + 1 .. n :
          /\ \A k \in R(p) .. end - 1 : At(k) # Backslash
          /\ end < n => At(end) = Backslash
          /\ i' = end
          /\ out' = Written(p) \o SubSeq(data, R(p) + 1, end)
    BY <1>4, <1>6 DEF CopyBlock
  <2>2. PICK q \in 1 .. m :
          R(q) = end /\ Written(q) = Written(p) \o SubSeq(data, R(p) + 1, end)
    BY <1>1, <1>3, <2>1, BlockEndsAtMark
  <2> QED
    BY <2>1, <2>2
<1>7. CASE DecodeEscape
  <2>1. /\ ~Done /\ IsUnicodeEscape(R(p)) /\ out' = Written(p) \o Utf8(Rune(R(p)))
        /\ i' = R(p) + Consumed(R(p))
    BY <1>4, <1>7 DEF DecodeEscape, Decodable
  <2>2. p \in 1 .. m - 1 /\ p + 1 \in 1 .. m
    BY <1>1, <1>3, <1>5, <2>1, PieceFacts
  <2>3. ~Plain(p)
    <3> SUFFICES ASSUME Plain(p) PROVE FALSE
      OBVIOUS
    <3>1. R(p) \in Nat /\ n \in Nat
      BY <1>1, <1>3, MarkTypes
    <3>2. R(p) + 5 < n /\ At(R(p)) = Backslash /\ At(R(p) + 1) = LetterU
      BY <2>1 DEF IsUnicodeEscape
    <3>3. Piece(p) = <<Backslash>> /\ R(p + 1) = R(p) + 1
      BY <1>1, <1>3, <2>2, <3>2, PlainBackslash
    <3>4. R(p + 1) = R(p) + 1 /\ R(p + 1) < n
      BY <3>1, <3>2, <3>3
    <3>5. At(R(p + 1)) \notin {LetterU, Backslash}
      <4>1. doc.marks[p + 1].read < n
        BY <3>4 DEF R
      <4> QED
        BY <3>3, <4>1 DEF Plain, PlainAt, R
    <3> QED
      BY <3>2, <3>4, <3>5
  <2>4. Utf8(Rune(R(p))) = Piece(p) /\ R(p) + Consumed(R(p)) = R(p + 1)
    BY <1>1, <1>3, <2>2, <2>3, EscapedFacts
  <2>5. Written(p) \o Piece(p) = Written(p + 1)
    BY <1>1, <1>3, <2>2, PieceFacts
  <2> QED
    BY <2>1, <2>2, <2>4, <2>5
<1>8. CASE CopyByte
  <2>1. /\ ~Done /\ At(R(p)) = Backslash /\ ~(IsUnicodeEscape(R(p)) /\ Rune(R(p)) >= 0)
        /\ out' = Append(Written(p), At(R(p))) /\ i' = R(p) + 1
    BY <1>4, <1>8 DEF CopyByte, Decodable
  <2>2. p \in 1 .. m - 1 /\ p + 1 \in 1 .. m
    BY <1>1, <1>3, <1>5, <2>1, PieceFacts
  <2>3. Plain(p)
    BY <1>1, <1>3, <2>1, <2>2, EscapedFacts
  <2>4. Piece(p) = <<Backslash>> /\ R(p + 1) = R(p) + 1
    BY <1>1, <1>3, <2>1, <2>2, <2>3, PlainBackslash
  <2>5. Written(p) \o Piece(p) = Written(p + 1) /\ Written(p) \in Seq(Int)
    BY <1>1, <1>3, <1>4, <2>2, PieceFacts
  <2>6. Append(Written(p), Backslash) = Written(p) \o <<Backslash>>
    <3>1. Backslash \in Int
      BY SMT DEF Backslash
    <3> HIDE DEF Backslash
    <3> QED
      BY <2>5, <3>1, AppendIsConcat
  <2> QED
    BY <2>1, <2>2, <2>4, <2>5, <2>6
<1>9. CASE UNCHANGED vars
  BY <1>4, <1>9 DEF vars
<1> QED
  BY <1>6, <1>7, <1>8, <1>9 DEF Next

\* The loop starts at the first mark, in empty buffers.
LEMMA InitInv == Init => IndInv
BY InitBuffer, InitAligned DEF IndInv

LEMMA StepInv == IndInv /\ [Next]_vars => IndInv'
BY StepBuffer, StepAligned DEF IndInv

\* At the end of the body the text has been written.
LEMMA EndOfText == IndInv => RoundTrip
<1> SUFFICES ASSUME IndInv, Done, Spells PROVE out = doc.text
  BY DEF RoundTrip
<1>1. TypeOK /\ i \in Nat /\ n \in Nat
  BY DataType DEF IndInv, BufferInv, TypeOK
<1>2. PICK p \in 1 .. m : i = R(p) /\ out = Written(p)
  BY DEF IndInv, Aligned, m, R, W, Written
<1>3. p = m
  <2> SUFFICES ASSUME p # m PROVE FALSE
    OBVIOUS
  <2>1. p \in 1 .. m - 1
    BY <1>1, MarkTypes
  <2>2. R(p) < R(p + 1) /\ R(p + 1) <= n /\ R(p) \in Nat /\ R(p + 1) \in Nat
    BY <1>1, <2>1, PieceFacts, MarkTypes
  <2> QED
    BY <1>1, <1>2, <2>2 DEF Done
<1>4. W(m) = Len(doc.text) /\ doc.text \in Seq(Byte)
  BY <1>1, MarkTypes
<1> QED
  BY <1>2, <1>3, <1>4, SubSeqFull DEF Written

\* Nothing is read past the end of the body, and nothing is written past the
\* end of the buffer that is as long as it, the unsafe pointer included; and
\* between two turns of the loop both stand at the end of the same character.
THEOREM UnescapeInvariant == Spec => []IndInv
<1> QED
  BY InitInv, StepInv, PTL DEF Spec

\* UnescapeUnicode turns every body into the UTF-8 encoding of the text that
\* it spells, however its characters are escaped: the surrogate arithmetic of
\* decodeUnicodeEscape and the shifts of appendRuneAt are those of UTF-16 and
\* UTF-8 for every character.
THEOREM TextRestored == Spec => []RoundTrip
<1> QED
  BY UnescapeInvariant, EndOfText, PTL
=============================================================================
