---------------------------- MODULE MCUnescape ----------------------------
(* All bodies of up to two pieces, and longer ones of fewer kinds of       *)
(* pieces: characters at the edges of the encoding in three spellings,     *)
(* halves of pairs, broken and truncated escapes, backslashes.             *)
EXTENDS Unescape

Digit(d, letter) == IF d < 10 THEN 48 + d ELSE letter + d - 10
\* \uXXXX with lower-case (letter 97) or upper-case (65) digits.
Spell(v, letter) ==
  <<Backslash, LetterU>> \o [k \in 1 .. 4 |-> Digit((v \div 16 ^ (4 - k)) % 16, letter)]

\* Characters, the 16-bit units they are escaped as, and their encoding.
Character ==
  {[units |-> <<65>>, utf8 |-> <<65>>],
   [units |-> <<127>>, utf8 |-> <<127>>],
   [units |-> <<128>>, utf8 |-> <<194, 128>>],
   [units |-> <<2047>>, utf8 |-> <<223, 191>>],
   [units |-> <<2048>>, utf8 |-> <<224, 160, 128>>],
   [units |-> <<8364>>, utf8 |-> <<226, 130, 172>>],
   [units |-> <<65535>>, utf8 |-> <<239, 191, 191>>],
   [units |-> <<55296, 56320>>, utf8 |-> <<240, 144, 128, 128>>],
   [units |-> <<55357, 56832>>, utf8 |-> <<240, 159, 152, 128>>],
   [units |-> <<56319, 57343>>, utf8 |-> <<244, 143, 191, 191>>]}

Escaped(c, letter) ==
  IF Len(c.units) = 1 THEN Spell(c.units[1], letter)
  ELSE Spell(c.units[1], letter) \o Spell(c.units[2], letter)

OneCharacter(raw, text) ==
  [raw |-> raw, text |-> text,
   marks |-> <<[read |-> 0, written |-> 0], [read |-> Len(raw), written |-> Len(text)]>>]
Malformed(raw) == [raw |-> raw, text |-> << >>, marks |-> << >>]

Spelled == {OneCharacter(Escaped(c, letter), c.utf8) : c \in Character, letter \in {65, 97}}
Plain == {OneCharacter(c.utf8, c.utf8) : c \in Character}
Broken ==
  {OneCharacter(<<Backslash>>, <<Backslash>>),
   Malformed(<<Backslash, LetterU>>),
   Malformed(<<Backslash, LetterU, 49, 50, 51>>),
   Malformed(<<Backslash, LetterU, 49, 71, 51, 52>>),
   Malformed(Spell(55296, 97)), Malformed(Spell(56319, 65)), Malformed(Spell(57343, 97))}

\* b's marks after those of a.
JoinMarks(a, b) ==
  IF a.marks = << >> \/ b.marks = << >> THEN << >>
  ELSE a.marks \o [k \in 1 .. Len(b.marks) - 1 |->
                     [read |-> Len(a.raw) + b.marks[k + 1].read,
                      written |-> Len(a.text) + b.marks[k + 1].written]]
Join(a, b) ==
  [raw |-> a.raw \o b.raw, text |-> a.text \o b.text, marks |-> JoinMarks(a, b)]

Piece == Spelled \cup Plain \cup Broken
Few == {p \in Piece : Len(p.raw) \in {1, 2, 12} \/ p.marks = << >>}

Pairs == {Join(p, q) : p, q \in Piece}
Triples == {Join(p, Join(q, r)) : p, q, r \in Few}
MCDocument == Pairs \cup Triples
=============================================================================
