--------------------------- MODULE RenderingProofs ---------------------------
(***************************************************************************)
(* Quoting loses nothing: what a reader of C strings makes of the text of  *)
(* a buffer are the bytes of the buffer, whatever and however many they    *)
(* are (string_quote.py).                                                  *)
(*                                                                         *)
(* QuoteString and Unquoted are recursive functions on the positions of a  *)
(* sequence.  SetInduction is the induction over them: on sets, since the  *)
(* library's theorems about predicates need an operator as a parameter.    *)
(***************************************************************************)
EXTENDS Rendering, SequenceTheorems, WellFoundedInduction, TLAPS

-----------------------------------------------------------------------------
\* Induction.

Below == {ss \in Nat \X Nat : ss[1] < ss[2]}

LEMMA BelowIsWellFounded == IsWellFoundedOn(Below, Nat)
  <1>1. OpToRel(<, Nat) = Below
    BY Zenon DEF OpToRel, Below
  <1> QED
    BY <1>1, NatLessThanWellFounded, Zenon

LEMMA SetInduction ==
    ASSUME NEW P, 0 \in P, \A n \in Nat : n \in P => n + 1 \in P
    PROVE  Nat \subseteq P
  <1> DEFINE T == Nat \ P
  <1>1. SUFFICES ASSUME T # {} PROVE FALSE
    OBVIOUS
  <1>2. \E x \in T : \A y \in T : ~(<<y, x>> \in Below)
    <2>1. T \subseteq Nat
      OBVIOUS
    <2> HIDE DEF T
    <2> QED
      BY <1>1, <2>1, BelowIsWellFounded, WFMin, Zenon
  <1>3. PICK x \in T : \A y \in T : ~(<<y, x>> \in Below)
    BY <1>2
  <1>4. x # 0 /\ x - 1 \in Nat /\ x - 1 < x
    OBVIOUS
  <1>5. <<x - 1, x>> \in Below
    BY <1>4 DEF Below
  <1> QED
    BY <1>3, <1>4, <1>5

\* Up to n.
LEMMA InductionUpto ==
    ASSUME NEW n \in Nat, NEW P, 0 \in P, \A i \in 0..n : i < n /\ i \in P => i + 1 \in P
    PROVE  0..n \subseteq P
  <1> DEFINE Q == {i \in Nat : i \in P \/ i > n}
  <1>1. 0 \in Q
    OBVIOUS
  <1>2. \A i \in Nat : i \in Q => i + 1 \in Q
    OBVIOUS
  <1>3. Nat \subseteq Q
    <2> HIDE DEF Q
    <2> QED
      BY <1>1, <1>2, SetInduction
  <1> QED
    BY <1>3

-----------------------------------------------------------------------------
\* The two recursive functions are what their definitions say.

Byte == 0..255

LEMMA EscapedStep ==
    ASSUME NEW shown, NEW n \in Nat, n = Len(shown)
    PROVE  /\ Escaped(shown)[0] = << >>
           /\ \A i \in 1..n : Escaped(shown)[i] =
                 Escaped(shown)[i - 1] \o EscapeByte(shown[i], SubSeq(shown, i + 1, Len(shown)))
  <1> DEFINE E(i) == EscapeByte(shown[i], SubSeq(shown, i + 1, Len(shown)))
             Solves(f, m) == f = [i \in 0..m |-> IF i = 0 THEN << >> ELSE f[i - 1] \o E(i)]
             P == {m \in Nat : \E f : Solves(f, m)}
  <1>1. 0 \in P
    <2> DEFINE f == [i \in 0..0 |-> << >>]
    <2>1. Solves(f, 0)
      OBVIOUS
    <2> QED
      BY <2>1
  <1>2. ASSUME NEW m \in Nat, m \in P
        PROVE  m + 1 \in P
    <2>1. PICK f : Solves(f, m)
      BY <1>2
    <2> HIDE DEF E
    <2> DEFINE g == [i \in 0..m + 1 |-> IF i = m + 1 THEN f[m] \o E(m + 1) ELSE f[i]]
    <2>2. \A i \in 0..m : f[i] = IF i = 0 THEN << >> ELSE f[i - 1] \o E(i)
      BY <2>1
    <2>3. ASSUME NEW i \in 0..m + 1
          PROVE  g[i] = IF i = 0 THEN << >> ELSE g[i - 1] \o E(i)
      <3>1. CASE i = m + 1
        BY <3>1
      <3>2. CASE i \in 0..m
        BY <2>2, <3>2
      <3> QED
        BY <3>1, <3>2
    <2>4. Solves(g, m + 1)
      BY <2>3
    <2> HIDE DEF g, Solves
    <2> QED
      BY <2>4
  <1>3. Nat \subseteq P
    <2> HIDE DEF P
    <2> QED
      BY <1>1, <1>2, SetInduction
  <1>4. PICK f : Solves(f, n)
    BY <1>3
  <1>5. Solves(Escaped(shown), n)
    BY <1>4 DEF Escaped
  <1> HIDE DEF E
  <1>6. \A i \in 0..n : Escaped(shown)[i] = IF i = 0 THEN << >> ELSE Escaped(shown)[i - 1] \o E(i)
    BY <1>5
  <1>7. ASSUME NEW i \in 1..n
        PROVE  Escaped(shown)[i] = Escaped(shown)[i - 1] \o E(i)
    <2>1. i \in 0..n /\ i # 0
      OBVIOUS
    <2> QED
      BY <1>6, <2>1, Zenon
  <1>8. 0 \in 0..n
    OBVIOUS
  <1>9. Escaped(shown)[0] = << >>
    BY <1>6, <1>8, Zenon
  <1> QED
    BY <1>7, <1>9, Zenon DEF E

LEMMA ReadStep ==
    ASSUME NEW text, NEW n \in Nat, n = Len(text)
    PROVE  /\ ReadUpto(text)[0] = Reader(<< >>, "none", 0)
           /\ \A i \in 1..n : ReadUpto(text)[i] = Read(ReadUpto(text)[i - 1], text[i])
  <1> DEFINE Solves(f, m) ==
                 f = [i \in 0..m |-> IF i = 0 THEN Reader(<< >>, "none", 0)
                                     ELSE Read(f[i - 1], text[i])]
             P == {m \in Nat : \E f : Solves(f, m)}
  <1>1. 0 \in P
    <2> DEFINE f == [i \in 0..0 |-> Reader(<< >>, "none", 0)]
    <2>1. Solves(f, 0)
      OBVIOUS
    <2> QED
      BY <2>1
  <1>2. ASSUME NEW m \in Nat, m \in P
        PROVE  m + 1 \in P
    <2>1. PICK f : Solves(f, m)
      BY <1>2
    <2> DEFINE g == [i \in 0..m + 1 |-> IF i = m + 1 THEN Read(f[m], text[m + 1]) ELSE f[i]]
    <2>2. \A i \in 0..m : f[i] = IF i = 0 THEN Reader(<< >>, "none", 0) ELSE Read(f[i - 1], text[i])
      BY <2>1
    <2>3. ASSUME NEW i \in 0..m + 1
          PROVE  g[i] = IF i = 0 THEN Reader(<< >>, "none", 0) ELSE Read(g[i - 1], text[i])
      <3>1. CASE i = m + 1
        BY <3>1
      <3>2. CASE i \in 0..m
        BY <2>2, <3>2
      <3> QED
        BY <3>1, <3>2
    <2>4. Solves(g, m + 1)
      BY <2>3
    <2> HIDE DEF g, Solves
    <2> QED
      BY <2>4
  <1>3. Nat \subseteq P
    <2> HIDE DEF P
    <2> QED
      BY <1>1, <1>2, SetInduction
  <1>4. PICK f : Solves(f, n)
    BY <1>3
  <1>5. Solves(ReadUpto(text), n)
    BY <1>4 DEF ReadUpto
  <1> QED
    BY <1>5

-----------------------------------------------------------------------------
\* One byte.

\* The text of a byte is a letter behind a backslash, the byte, or its octal
\* digits behind a backslash: fewer than three only where no digit follows.
LetterText(b, e) ==
    /\ e = <<Backslash, EscapeMap[b][2]>>
    /\ EscapeMap[b][2] \in DOMAIN LetterCodes
    /\ LetterCodes[EscapeMap[b][2]] = b
PlainText(b, e) == e = <<b>> /\ IsPrintable(b) /\ b # Backslash
Digits1(b, e) == \E c \in 48..55 : e = <<Backslash, c>> /\ b = c - 48
Digits2(b, e) == \E c, d \in 48..55 : e = <<Backslash, c, d>> /\ b = 8 * (c - 48) + d - 48
Digits3(b, e) == \E c, d, f \in 48..55 :
                    e = <<Backslash, c, d, f>> /\ b = 8 * (8 * (c - 48) + d - 48) + f - 48

DigitFollows(rest) == rest # << >> /\ IsOctalDigit(Head(rest))

LEMMA Prefixed ==
    ASSUME NEW S, NEW w \in S, NEW t \in Seq(S), NEW v \in Seq(S),
           Len(v) = Len(t) + 1, v[1] = w, \A i \in 1..Len(t) : v[i + 1] = t[i]
    PROVE  <<w>> \o t = v
  <1> DEFINE u == <<w>> \o t
  <1>1. <<w>> \in Seq(S) /\ Len(<<w>>) = 1 /\ <<w>>[1] = w
    OBVIOUS
  <1>2. Len(t) \in Nat
    OBVIOUS
  <1>3. u \in Seq(S) /\ Len(u) = Len(t) + 1
        /\ \A i \in 1..1 + Len(t) : u[i] = IF i <= 1 THEN <<w>>[i] ELSE t[i - 1]
    BY <1>1, <1>2, ConcatProperties
  <1> HIDE DEF u
  <1>4. ASSUME NEW i \in 1..Len(u)
        PROVE  u[i] = v[i]
    <2>1. CASE i = 1
      BY <1>1, <1>2, <1>3, <2>1
    <2>2. CASE i # 1
      <3>1. i - 1 \in 1..Len(t) /\ (i - 1) + 1 = i
        BY <1>2, <1>3, <2>2
      <3>2. v[i] = t[i - 1]
        BY <3>1
      <3>3. u[i] = t[i - 1]
        BY <1>2, <1>3, <2>2, <3>1
      <3> QED
        BY <3>2, <3>3
    <2> QED
      BY <2>1, <2>2
  <1>5. u = v
    BY <1>3, <1>4, SeqEqual
  <1> QED
    BY <1>5 DEF u

LEMMA ShortConcat ==
    \A w, x, y, z : /\ <<w>> \o <<x>> = <<w, x>>
                    /\ <<w>> \o <<x, y>> = <<w, x, y>>
                    /\ <<w>> \o <<x, y, z>> = <<w, x, y, z>>
  <1> SUFFICES ASSUME NEW w, NEW x, NEW y, NEW z
               PROVE  /\ <<w>> \o <<x>> = <<w, x>>
                      /\ <<w>> \o <<x, y>> = <<w, x, y>>
                      /\ <<w>> \o <<x, y, z>> = <<w, x, y, z>>
    OBVIOUS
  <1> DEFINE S == {w, x, y, z}
  <1>1. <<w>> \in Seq(S) /\ <<x>> \in Seq(S) /\ <<x, y>> \in Seq(S) /\ <<x, y, z>> \in Seq(S)
        /\ <<w, x>> \in Seq(S) /\ <<w, x, y>> \in Seq(S) /\ <<w, x, y, z>> \in Seq(S)
        /\ w \in S
    OBVIOUS
  <1> HIDE DEF S
  <1>2. <<w>> \o <<x>> = <<w, x>>
    <2> DEFINE t == <<x>>
               v == <<w, x>>
    <2>1. t \in Seq(S) /\ v \in Seq(S) /\ w \in S
      BY <1>1
    <2>2. Len(t) = 1 /\ Len(v) = 2 /\ v[1] = w
      OBVIOUS
    <2>3. \A i \in 1..1 : v[i + 1] = t[i]
      OBVIOUS
    <2> HIDE DEF t, v
    <2>4. Len(v) = Len(t) + 1 /\ v[1] = w /\ \A i \in 1..Len(t) : v[i + 1] = t[i]
      BY <2>2, <2>3
    <2>5. <<w>> \o t = v
      BY <2>1, <2>4, Prefixed, Zenon
    <2> QED
      BY <2>5 DEF t, v
  <1>3. <<w>> \o <<x, y>> = <<w, x, y>>
    <2> DEFINE t == <<x, y>>
               v == <<w, x, y>>
    <2>1. t \in Seq(S) /\ v \in Seq(S) /\ w \in S
      BY <1>1
    <2>2. Len(t) = 2 /\ Len(v) = 3 /\ v[1] = w
      OBVIOUS
    <2>3. \A i \in 1..2 : v[i + 1] = t[i]
      OBVIOUS
    <2> HIDE DEF t, v
    <2>4. Len(v) = Len(t) + 1 /\ v[1] = w /\ \A i \in 1..Len(t) : v[i + 1] = t[i]
      BY <2>2, <2>3
    <2>5. <<w>> \o t = v
      BY <2>1, <2>4, Prefixed, Zenon
    <2> QED
      BY <2>5 DEF t, v
  <1>4. <<w>> \o <<x, y, z>> = <<w, x, y, z>>
    <2> DEFINE t == <<x, y, z>>
               v == <<w, x, y, z>>
    <2>1. t \in Seq(S) /\ v \in Seq(S) /\ w \in S
      BY <1>1
    <2>2. Len(t) = 3 /\ Len(v) = 4 /\ v[1] = w
      OBVIOUS
    <2>3. \A i \in 1..3 : v[i + 1] = t[i]
      OBVIOUS
    <2> HIDE DEF t, v
    <2>4. Len(v) = Len(t) + 1 /\ v[1] = w /\ \A i \in 1..Len(t) : v[i + 1] = t[i]
      BY <2>2, <2>3
    <2>5. <<w>> \o t = v
      BY <2>1, <2>4, Prefixed, Zenon
    <2> QED
      BY <2>5 DEF t, v
  <1> QED
    BY <1>2, <1>3, <1>4

LEMMA OctalDigits ==
    ASSUME NEW b \in Byte
    PROVE  /\ b \div 64 \in 0..3 /\ (b \div 8) % 8 \in 0..7 /\ b % 8 \in 0..7
           /\ b = 8 * (8 * (b \div 64) + ((b \div 8) % 8)) + (b % 8)
           /\ b < 64 => b \div 8 \in 0..7 /\ b = 8 * (b \div 8) + (b % 8)
  BY DEF Byte

LEMMA EscapeText ==
    ASSUME NEW b \in Byte, NEW rest
    PROVE  LET e == EscapeByte(b, rest)
           IN \/ LetterText(b, e)
              \/ PlainText(b, e)
              \/ ~DigitFollows(rest) /\ Digits1(b, e)
              \/ ~DigitFollows(rest) /\ Digits2(b, e)
              \/ Digits3(b, e)
  <1> DEFINE e == EscapeByte(b, rest)
  <1>1. CASE b \in DOMAIN EscapeMap
    <2>1. e = EscapeMap[b]
      BY <1>1 DEF EscapeByte
    <2>2. b \in {34, 92, 9, 10, 13, 11, 12}
      BY <1>1 DEF EscapeMap
    <2>3. EscapeMap[b] = <<Backslash, CASE b = 34 -> 34 [] b = 92 -> 92 [] b = 9 -> 116 [] b = 10 -> 110
                                        [] b = 13 -> 114 [] b = 11 -> 118 [] b = 12 -> 102>>
      BY <2>2 DEF EscapeMap
    <2>4. EscapeMap[b][2] \in {34, 92, 116, 110, 114, 118, 102}
          /\ LetterCodes[EscapeMap[b][2]] = b
      BY <2>2, <2>3 DEF LetterCodes
    <2>5. DOMAIN LetterCodes = {34, 92, 116, 110, 114, 118, 102}
      BY DEF LetterCodes
    <2>6. EscapeMap[b] = <<Backslash, EscapeMap[b][2]>>
      <3>1. \A x, y, z : z = <<x, y>> => z = <<x, z[2]>>
        OBVIOUS
      <3> QED
        BY <2>3, <3>1, Zenon
    <2> QED
      BY <2>1, <2>4, <2>5, <2>6 DEF LetterText
  <1>2. CASE b \notin DOMAIN EscapeMap /\ IsPrintable(b)
    <2>1. b # Backslash
      BY <1>2 DEF EscapeMap, Backslash
    <2> QED
      BY <1>2, <2>1 DEF EscapeByte, PlainText
  <1>3. CASE b \notin DOMAIN EscapeMap /\ ~IsPrintable(b)
    <2> DEFINE c == 48 + (b \div 64)
               d == 48 + ((b \div 8) % 8)
               f == 48 + (b % 8)
    <2>1. c \in 48..55 /\ d \in 48..55 /\ f \in 48..55
          /\ b = 8 * (8 * (c - 48) + d - 48) + f - 48
      BY OctalDigits
    <2>2. Octal3(b) = <<c, d, f>>
      BY DEF Octal3
    <2>3. ASSUME e = <<Backslash>> \o Octal3(b)
          PROVE  Digits3(b, e)
      <3> HIDE DEF c, d, f, e
      <3>1. e = <<Backslash, c, d, f>>
        BY <2>2, <2>3, ShortConcat
      <3> QED
        BY <2>1, <3>1 DEF Digits3
    <2>4. CASE DigitFollows(rest)
      BY <1>3, <2>3, <2>4 DEF EscapeByte, DigitFollows
    <2>5. CASE ~DigitFollows(rest)
      <3>1. e = <<Backslash>> \o OctalMin(b)
        BY <1>3, <2>5 DEF EscapeByte, DigitFollows
      <3>2. CASE b < 8
        <4>1. e = <<Backslash>> \o <<48 + b>>
          BY <3>1, <3>2 DEF OctalMin
        <4>2. 48 + b \in 48..55 /\ b = (48 + b) - 48
          BY <3>2 DEF Byte
        <4> HIDE DEF e
        <4>3. e = <<Backslash, 48 + b>>
          BY <4>1, ShortConcat
        <4>4. Digits1(b, e)
          BY <4>2, <4>3 DEF Digits1
        <4> QED
          BY <2>5, <4>4 DEF e
      <3>3. CASE b >= 8 /\ b < 64
        <4> DEFINE g == 48 + (b \div 8)
        <4>1. e = <<Backslash>> \o <<g, f>>
          BY <3>1, <3>3 DEF OctalMin, Byte
        <4>2. g \in 48..55 /\ f \in 48..55 /\ b = 8 * (g - 48) + f - 48
          BY <3>3, OctalDigits
        <4> HIDE DEF e, f, g
        <4>3. e = <<Backslash, g, f>>
          BY <4>1, ShortConcat
        <4>4. Digits2(b, e)
          BY <4>2, <4>3 DEF Digits2
        <4> QED
          BY <2>5, <4>4 DEF e
      <3>4. CASE b >= 64
        <4>1. e = <<Backslash>> \o Octal3(b)
          BY <3>1, <3>4 DEF OctalMin, Byte
        <4> QED
          BY <2>3, <4>1
      <3> QED
        BY <3>2, <3>3, <3>4 DEF Byte
    <2> QED
      BY <2>4, <2>5
  <1> QED
    BY <1>1, <1>2, <1>3

\* A text is one to four printable characters, and begins with an octal digit
\* only if the byte is one.
LEMMA EscapePrintable ==
    ASSUME NEW b \in Byte, NEW rest
    PROVE  LET e == EscapeByte(b, rest)
           IN /\ e \in Seq(32..126) /\ Len(e) \in 1..4
              /\ e[1] \in Int /\ (IsOctalDigit(e[1]) => IsOctalDigit(b))
  <1> DEFINE e == EscapeByte(b, rest)
             Good == /\ e \in Seq(32..126) /\ Len(e) \in 1..4
                     /\ e[1] \in Int /\ (IsOctalDigit(e[1]) => IsOctalDigit(b))
  <1> SUFFICES Good
    OBVIOUS
  <1>1. \/ LetterText(b, e) \/ PlainText(b, e)
        \/ Digits1(b, e) \/ Digits2(b, e) \/ Digits3(b, e)
    BY EscapeText
  <1> HIDE DEF e
  <1>2. Backslash \in 32..126 /\ ~IsOctalDigit(Backslash)
    BY DEF Backslash, IsOctalDigit
  <1>3. CASE LetterText(b, e)
    <2>1. PICK c \in DOMAIN LetterCodes : e = <<Backslash, c>>
      BY <1>3 DEF LetterText
    <2>2. c \in 32..126
      BY <2>1 DEF LetterCodes
    <2> QED
      BY <1>2, <2>1, <2>2
  <1>4. CASE PlainText(b, e)
    BY <1>4 DEF PlainText, IsPrintable, Byte
  <1>5. CASE Digits1(b, e)
    BY <1>2, <1>5 DEF Digits1
  <1>6. CASE Digits2(b, e)
    BY <1>2, <1>6 DEF Digits2
  <1>7. CASE Digits3(b, e)
    BY <1>2, <1>7 DEF Digits3
  <1> QED
    BY <1>1, <1>3, <1>4, <1>5, <1>6, <1>7

\* Where a reader is not behind a backslash, and no digit continues an escape.
Ready(r, c) == r.escape = "none" \/ (r.escape \in {"one", "two"} /\ ~IsOctalDigit(c))

LEMMA ReaderFields ==
    \A bytes, escape, value :
        /\ Reader(bytes, escape, value).bytes = bytes
        /\ Reader(bytes, escape, value).escape = escape
        /\ Reader(bytes, escape, value).value = value
  BY DEF Reader

LEMMA ReaderBytes ==
    \A bytes, v : /\ BytesRead(Reader(bytes, "none", v)) = bytes
                  /\ BytesRead(Reader(bytes, "one", v)) = Append(bytes, v)
                  /\ BytesRead(Reader(bytes, "two", v)) = Append(bytes, v)
  BY ReaderFields DEF BytesRead

\* What a reader does with a character.
LEMMA ReadsCharacter ==
    ASSUME NEW r, NEW c \in Int, Ready(r, c)
    PROVE  Read(r, c) = IF c = Backslash THEN Reader(BytesRead(r), "start", 0)
                        ELSE Reader(Append(BytesRead(r), c), "none", 0)
  BY DEF Ready, Read

LEMMA ReadsLetter ==
    ASSUME NEW bytes, NEW c, ~IsOctalDigit(c)
    PROVE  Read(Reader(bytes, "start", 0), c) = Reader(Append(bytes, LetterCodes[c]), "none", 0)
  BY ReaderFields DEF Read

LEMMA ReadsDigit ==
    ASSUME NEW bytes, NEW c \in 48..55
    PROVE  Read(Reader(bytes, "start", 0), c) = Reader(bytes, "one", c - 48)
  <1>1. IsOctalDigit(c)
    BY DEF IsOctalDigit
  <1>2. 8 * 0 + c - 48 = c - 48
    OBVIOUS
  <1>3. Read(Reader(bytes, "start", 0), c) = Reader(bytes, "one", 8 * 0 + c - 48)
    BY <1>1, ReaderFields DEF Read
  <1> QED
    BY <1>2, <1>3

LEMMA ReadsMoreDigits ==
    ASSUME NEW bytes, NEW v \in Nat, NEW c \in 48..55
    PROVE  /\ Read(Reader(bytes, "one", v), c) = Reader(bytes, "two", 8 * v + c - 48)
           /\ Read(Reader(bytes, "two", v), c) = Reader(Append(bytes, 8 * v + c - 48), "none", 0)
  <1>1. IsOctalDigit(c)
    BY DEF IsOctalDigit
  <1> QED
    BY <1>1, ReaderFields DEF Read

\* A reader that reads the text of a byte has read the byte; and it is behind a
\* digit only where no digit follows.
LEMMA ReadsByte ==
    ASSUME NEW b \in Byte, NEW rest, NEW g, Ready(g[0], b),
           \A k \in 1..Len(EscapeByte(b, rest)) : g[k] = Read(g[k - 1], EscapeByte(b, rest)[k])
    PROVE  LET r == g[Len(EscapeByte(b, rest))]
           IN /\ BytesRead(r) = Append(BytesRead(g[0]), b)
              /\ r.escape = "none" \/ (r.escape \in {"one", "two"} /\ ~DigitFollows(rest))
  <1> DEFINE e == EscapeByte(b, rest)
             B == BytesRead(g[0])
             r == g[Len(e)]
             Goal == /\ BytesRead(r) = Append(B, b)
                     /\ r.escape = "none" \/ (r.escape \in {"one", "two"} /\ ~DigitFollows(rest))
  <1> SUFFICES Goal
    OBVIOUS
  <1>1. \/ LetterText(b, e) \/ PlainText(b, e)
        \/ ~DigitFollows(rest) /\ Digits1(b, e)
        \/ ~DigitFollows(rest) /\ Digits2(b, e)
        \/ Digits3(b, e)
    BY EscapeText
  <1>2. \A k \in 1..Len(e) : g[k] = Read(g[k - 1], e[k])
    OBVIOUS
  <1>3. e[1] \in Int /\ (IsOctalDigit(e[1]) => IsOctalDigit(b)) /\ Len(e) \in 1..4
    BY EscapePrintable
  <1>4. Ready(g[0], e[1])
    BY <1>3 DEF Ready
  <1>5. g[1] = Read(g[0], e[1])
    BY <1>2, <1>3
  <1> HIDE DEF e
  <1>6. e[1] = Backslash => g[1] = Reader(B, "start", 0)
    BY <1>3, <1>4, <1>5, ReadsCharacter
  <1> HIDE DEF B
  <1> DEFINE N == Append(B, b)
  <1>7. \A h : h = Reader(N, "none", 0) => BytesRead(h) = N /\ h.escape = "none"
    <2> HIDE DEF N
    <2> QED
      BY ReaderFields, ReaderBytes
  <1>8. CASE LetterText(b, e)
    <2>1. PICK c \in DOMAIN LetterCodes : e = <<Backslash, c>> /\ LetterCodes[c] = b
      BY <1>8 DEF LetterText
    <2>2. ~IsOctalDigit(c)
      BY <2>1 DEF LetterCodes, IsOctalDigit
    <2>3. Len(e) = 2 /\ e[1] = Backslash /\ e[2] = c
      BY <2>1
    <2>4. g[2] = Read(g[1], c)
      BY <1>2, <2>3
    <2>5. g[2] = Reader(Append(B, b), "none", 0)
      BY <1>6, <2>1, <2>2, <2>3, <2>4, ReadsLetter
    <2>6. r = g[2]
      BY <2>3
    <2> QED
      BY <1>7, <2>5, <2>6
  <1>9. CASE PlainText(b, e)
    <2>1. Len(e) = 1 /\ e[1] = b /\ b # Backslash
      BY <1>9 DEF PlainText
    <2>2. g[1] = Reader(Append(B, b), "none", 0)
      BY <1>3, <1>4, <1>5, <2>1, ReadsCharacter DEF B
    <2>3. r = g[1]
      BY <2>1
    <2> QED
      BY <1>7, <2>2, <2>3
  <1>10. CASE ~DigitFollows(rest) /\ Digits1(b, e)
    <2>1. PICK c \in 48..55 : e = <<Backslash, c>> /\ b = c - 48
      BY <1>10 DEF Digits1
    <2>2. Len(e) = 2 /\ e[1] = Backslash /\ e[2] = c
      BY <2>1
    <2>3. g[2] = Read(g[1], c)
      BY <1>2, <2>2
    <2>4. g[2] = Reader(B, "one", b)
      BY <1>6, <2>1, <2>2, <2>3, ReadsDigit
    <2> QED
      BY <1>10, <2>2, <2>4, ReaderFields, ReaderBytes
  <1>11. CASE ~DigitFollows(rest) /\ Digits2(b, e)
    <2>1. PICK c \in 48..55, d \in 48..55 :
              e = <<Backslash, c, d>> /\ b = 8 * (c - 48) + d - 48
      BY <1>11 DEF Digits2
    <2>2. Len(e) = 3 /\ e[1] = Backslash /\ e[2] = c /\ e[3] = d
      BY <2>1
    <2>3. g[2] = Read(g[1], c) /\ g[3] = Read(g[2], d)
      BY <1>2, <2>2
    <2>4. g[2] = Reader(B, "one", c - 48)
      BY <1>6, <2>2, <2>3, ReadsDigit
    <2>5. g[3] = Reader(B, "two", b)
      <3>1. c - 48 \in Nat
        OBVIOUS
      <3>2. Read(Reader(B, "one", c - 48), d) = Reader(B, "two", 8 * (c - 48) + d - 48)
        BY <3>1, ReadsMoreDigits
      <3> QED
        BY <2>1, <2>3, <2>4, <3>2
    <2> QED
      BY <1>11, <2>2, <2>5, ReaderFields, ReaderBytes
  <1>12. CASE Digits3(b, e)
    <2>1. PICK c \in 48..55, d \in 48..55, f \in 48..55 :
              e = <<Backslash, c, d, f>> /\ b = 8 * (8 * (c - 48) + d - 48) + f - 48
      BY <1>12 DEF Digits3
    <2>2. Len(e) = 4 /\ e[1] = Backslash /\ e[2] = c /\ e[3] = d /\ e[4] = f
      BY <2>1
    <2>3. g[2] = Read(g[1], c) /\ g[3] = Read(g[2], d) /\ g[4] = Read(g[3], f)
      BY <1>2, <2>2
    <2>4. g[2] = Reader(B, "one", c - 48)
      BY <1>6, <2>2, <2>3, ReadsDigit
    <2> DEFINE v == 8 * (c - 48) + d - 48
    <2>5. c - 48 \in Nat /\ v \in Nat
      OBVIOUS
    <2>6. g[3] = Reader(B, "two", v)
      <3>1. Read(Reader(B, "one", c - 48), d) = Reader(B, "two", 8 * (c - 48) + d - 48)
        BY <2>5, ReadsMoreDigits
      <3> QED
        BY <2>3, <2>4, <3>1
    <2>7. b = 8 * v + f - 48
      BY <2>1
    <2> HIDE DEF v
    <2>8. g[4] = Reader(Append(B, b), "none", 0)
      <3>1. Read(Reader(B, "two", v), f) = Reader(Append(B, 8 * v + f - 48), "none", 0)
        BY <2>5, ReadsMoreDigits
      <3> QED
        BY <2>3, <2>6, <2>7, <3>1
    <2>9. r = g[4]
      BY <2>2
    <2> QED
      BY <1>7, <2>8, <2>9
  <1> QED
    BY <1>1, <1>8, <1>9, <1>10, <1>11, <1>12

-----------------------------------------------------------------------------
\* All bytes.

Prefix(s, t) == Len(s) <= Len(t) /\ \A k \in 1..Len(s) : t[k] = s[k]

LEMMA ConcatPrefix ==
    ASSUME NEW S, NEW s \in Seq(S), NEW t \in Seq(S)
    PROVE  /\ s \o t \in Seq(S)
           /\ Prefix(s, s \o t)
           /\ Len(s \o t) = Len(s) + Len(t)
           /\ \A k \in 1..Len(t) : (s \o t)[Len(s) + k] = t[k]
  <1> DEFINE u == s \o t
  <1>1. Len(s) \in Nat /\ Len(t) \in Nat
    OBVIOUS
  <1>2. u \in Seq(S) /\ Len(u) = Len(s) + Len(t)
        /\ \A i \in 1..Len(s) + Len(t) : u[i] = IF i <= Len(s) THEN s[i] ELSE t[i - Len(s)]
    BY ConcatProperties
  <1> HIDE DEF u
  <1>3. Prefix(s, u)
    BY <1>1, <1>2 DEF Prefix
  <1>4. ASSUME NEW k \in 1..Len(t)
        PROVE  u[Len(s) + k] = t[k]
    <2>1. Len(s) + k \in 1..Len(s) + Len(t) /\ ~(Len(s) + k <= Len(s)) /\ (Len(s) + k) - Len(s) = k
      BY <1>1
    <2> QED
      BY <1>2, <2>1
  <1> QED
    BY <1>2, <1>3, <1>4 DEF u

LEMMA ConcatNonEmpty ==
    ASSUME NEW S, NEW s \in Seq(S), NEW t \in Seq(S), s # << >>
    PROVE  s \o t # << >>
  <1>1. Len(s) \in Nat /\ Len(t) \in Nat /\ Len(s) # 0
    OBVIOUS
  <1>2. Len(s \o t) = Len(s) + Len(t)
    BY ConcatPrefix
  <1>3. Len(s \o t) # 0
    BY <1>1, <1>2
  <1> QED
    BY <1>3

LEMMA PrefixTransitive ==
    ASSUME NEW S, NEW s \in Seq(S), NEW t \in Seq(S), NEW u \in Seq(S), Prefix(s, t), Prefix(t, u)
    PROVE  Prefix(s, u)
  <1>1. Len(s) \in Nat /\ Len(t) \in Nat /\ Len(u) \in Nat
    OBVIOUS
  <1> QED
    BY <1>1 DEF Prefix

Char == 32..126

\* The texts of the first bytes are printable, and the texts of fewer bytes
\* begin those of more.
LEMMA EscapedTexts ==
    ASSUME NEW shown \in Seq(Byte), NEW n \in Nat, n = Len(shown)
    PROVE  /\ \A i \in 0..n : Escaped(shown)[i] \in Seq(Char)
           /\ \A i \in 0..n : Prefix(Escaped(shown)[i], Escaped(shown)[n])
  <1> DEFINE E == Escaped(shown)
             T(i) == EscapeByte(shown[i], SubSeq(shown, i + 1, Len(shown)))
  <1>1. E[0] = << >> /\ \A i \in 1..n : E[i] = E[i - 1] \o T(i)
    BY EscapedStep
  <1>2. \A i \in 1..n : shown[i] \in Byte
    BY ElementOfSeq
  <1>3. \A i \in 1..n : T(i) \in Seq(Char)
    BY <1>2, EscapePrintable DEF Char
  <1> HIDE DEF E, T
  <1>4. \A i \in 0..n : E[i] \in Seq(Char)
    <2> DEFINE P == {i \in Nat : E[i] \in Seq(Char)}
    <2>1. 0 \in P
      BY <1>1, EmptySeq
    <2>2. ASSUME NEW i \in 0..n, i < n, i \in P
          PROVE  i + 1 \in P
      <3>1. i + 1 \in 1..n /\ (i + 1) - 1 = i
        BY <2>2
      <3>2. E[i + 1] = E[i] \o T(i + 1)
        BY <1>1, <3>1
      <3>3. E[i] \in Seq(Char) /\ T(i + 1) \in Seq(Char)
        BY <1>3, <2>2, <3>1
      <3>4. E[i] \o T(i + 1) \in Seq(Char)
        BY <3>3, ConcatPrefix
      <3>5. E[i + 1] \in Seq(Char)
        BY <3>2, <3>4, Zenon
      <3> QED
        BY <3>1, <3>5
    <2>3. 0..n \subseteq P
      <3> HIDE DEF P
      <3> QED
        BY <2>1, <2>2, InductionUpto
    <2> QED
      BY <2>3
  <1>5. ASSUME NEW i \in 0..n
        PROVE  Prefix(E[i], E[n])
    <2> DEFINE P == {j \in Nat : j >= i => Prefix(E[i], E[j])}
    <2>1. Prefix(E[i], E[i])
      BY <1>4 DEF Prefix
    <2>2. 0 \in P
      BY <2>1
    <2>3. ASSUME NEW j \in 0..n, j < n, j \in P
          PROVE  j + 1 \in P
      <3>1. CASE j + 1 = i
        BY <2>1, <3>1
      <3>2. CASE j + 1 < i
        BY <3>2
      <3>3. CASE j >= i
        <4>1. j + 1 \in 1..n /\ (j + 1) - 1 = j /\ j + 1 \in 0..n
          BY <2>3
        <4>2. E[j + 1] = E[j] \o T(j + 1)
          BY <1>1, <4>1
        <4>3. E[i] \in Seq(Char) /\ E[j] \in Seq(Char) /\ E[j + 1] \in Seq(Char)
              /\ T(j + 1) \in Seq(Char)
          BY <1>3, <1>4, <4>1
        <4>4. Prefix(E[j], E[j + 1])
          BY <4>2, <4>3, ConcatPrefix
        <4>5. Prefix(E[i], E[j])
          BY <2>3, <3>3
        <4>6. Prefix(E[i], E[j + 1])
          BY <4>3, <4>4, <4>5, PrefixTransitive
        <4> QED
          BY <4>6
      <3> QED
        BY <3>1, <3>2, <3>3
    <2>4. 0..n \subseteq P
      <3> HIDE DEF P
      <3> QED
        BY <2>2, <2>3, InductionUpto
    <2> QED
      BY <2>4
  <1> QED
    BY <1>4, <1>5 DEF E

\* Reading a text that begins with the texts of some bytes: behind the first i
\* of them, those i bytes have been read.
LEMMA ReadsBytes ==
    ASSUME NEW shown \in Seq(Byte), NEW n \in Nat, n = Len(shown),
           NEW more \in Seq(Char), NEW text, text = Escaped(shown)[n] \o more
    PROVE  LET r == ReadUpto(text)[Len(Escaped(shown)[n])]
           IN BytesRead(r) = shown /\ r.escape \in {"none", "one", "two"}
  <1> DEFINE E == Escaped(shown)
             Rest(i) == SubSeq(shown, i + 1, Len(shown))
             T(i) == EscapeByte(shown[i], Rest(i))
             R == ReadUpto(text)
             r(i) == R[Len(E[i])]
             P == {i \in Nat : /\ BytesRead(r(i)) = SubSeq(shown, 1, i)
                               /\ \/ r(i).escape = "none"
                                  \/ r(i).escape \in {"one", "two"} /\ ~DigitFollows(Rest(i))}
  <1>1. E[0] = << >> /\ \A i \in 1..n : E[i] = E[i - 1] \o T(i)
    BY EscapedStep
  <1>2. \A i \in 1..n : shown[i] \in Byte
    BY ElementOfSeq
  <1>3. \A i \in 1..n : T(i) \in Seq(Char) /\ Len(T(i)) \in 1..4
    BY <1>2, EscapePrintable DEF Char
  <1>4. /\ \A i \in 0..n : E[i] \in Seq(Char)
        /\ \A i \in 0..n : Prefix(E[i], E[n])
    BY EscapedTexts
  <1>5. text \in Seq(Char) /\ Prefix(E[n], text)
    BY <1>4, ConcatPrefix
  <1>6. Len(text) \in Nat
    BY <1>5
  <1>7. /\ R[0] = Reader(<< >>, "none", 0)
        /\ \A k \in 1..Len(text) : R[k] = Read(R[k - 1], text[k])
    BY <1>6, ReadStep
  <1> HIDE DEF E, R
  <1>8. 0 \in P
    <2>1. Len(E[0]) = 0
      BY <1>1
    <2>2. r(0) = Reader(<< >>, "none", 0)
      BY <1>7, <2>1
    <2>3. BytesRead(r(0)) = << >> /\ r(0).escape = "none"
      BY <2>2, ReaderFields, ReaderBytes
    <2>4. SubSeq(shown, 1, 0) = << >>
      BY SubSeqEmpty
    <2> QED
      BY <2>3, <2>4
  <1>9. ASSUME NEW i \in 0..n, i < n, i \in P
        PROVE  i + 1 \in P
    <2> DEFINE b == shown[i + 1]
               e == T(i + 1)
               l == Len(E[i])
               g == [k \in 0..Len(e) |-> R[l + k]]
    <2>1. i + 1 \in 1..n /\ (i + 1) - 1 = i /\ i + 1 \in 0..n
      BY <1>9
    <2>2. E[i + 1] = E[i] \o e
      BY <1>1, <2>1
    <2>3. b \in Byte
      BY <1>2, <2>1
    <2>4. E[i] \in Seq(Char) /\ E[i + 1] \in Seq(Char) /\ e \in Seq(Char)
          /\ Prefix(E[i + 1], E[n]) /\ E[n] \in Seq(Char)
      BY <1>3, <1>4, <2>1
    <2>5. Len(e) \in 1..4 /\ l \in Nat
      BY <1>3, <2>1, <2>4
    <2>6. Prefix(E[i + 1], text)
      BY <1>5, <2>4, PrefixTransitive
    <2> HIDE DEF e, T
    <2>7. Len(E[i + 1]) = l + Len(e) /\ \A k \in 1..Len(e) : E[i + 1][l + k] = e[k]
      BY <2>2, <2>4, ConcatPrefix
    <2> HIDE DEF l
    <2>8. ASSUME NEW k \in 1..Len(e)
          PROVE  g[k] = Read(g[k - 1], e[k])
      <3>1. l + k \in 1..Len(E[i + 1]) /\ l + k \in 1..Len(text)
        BY <1>6, <2>5, <2>6, <2>7 DEF Prefix
      <3>2. text[l + k] = e[k]
        BY <2>6, <2>7, <3>1 DEF Prefix
      <3>3. R[l + k] = Read(R[(l + k) - 1], text[l + k])
        BY <1>7, <3>1
      <3>4. g[k] = R[l + k] /\ g[k - 1] = R[(l + k) - 1]
        <4>1. k \in 0..Len(e) /\ k - 1 \in 0..Len(e) /\ l + (k - 1) = (l + k) - 1
          BY <2>5
        <4> QED
          BY <4>1
      <3> QED
        BY <3>2, <3>3, <3>4
    <2>9. g[0] = r(i) /\ g[Len(e)] = r(i + 1)
      BY <2>5, <2>7 DEF l
    <2>10. Rest(i) # << >> /\ Head(Rest(i)) = b
      <3>1. i + 1 \in 1..Len(shown) /\ Len(shown) \in (i + 1)..Len(shown)
        BY <2>1
      <3>2. Head(Rest(i)) = b
        BY <3>1, HeadTailOfSubSeq
      <3>3. Rest(i) = <<b>> \o SubSeq(shown, (i + 1) + 1, Len(shown))
        BY <3>1, SubSeqRecursiveFirst
      <3>4. SubSeq(shown, (i + 1) + 1, Len(shown)) \in Seq(Byte)
        <4>1. \A k \in (i + 1) + 1..Len(shown) : shown[k] \in Byte
          BY <1>2
        <4>2. (i + 1) + 1 \in Int /\ Len(shown) \in Int
          OBVIOUS
        <4> QED
          BY <4>1, <4>2, SubSeqProperties
      <3>5. <<b>> \in Seq(Byte) /\ <<b>> # << >>
        BY <2>3
      <3>6. <<b>> \o SubSeq(shown, (i + 1) + 1, Len(shown)) # << >>
        BY <3>4, <3>5, ConcatNonEmpty
      <3> QED
        BY <3>2, <3>3, <3>6, Zenon
    <2>11. BytesRead(r(i)) = SubSeq(shown, 1, i)
           /\ \/ r(i).escape = "none"
              \/ r(i).escape \in {"one", "two"} /\ ~DigitFollows(Rest(i))
      BY <1>9
    <2>12. Ready(g[0], b)
      BY <2>9, <2>10, <2>11 DEF Ready, DigitFollows
    <2>13. e = EscapeByte(b, Rest(i + 1))
      BY DEF e, T
    <2> HIDE DEF g, Rest, b
    <2>14. /\ BytesRead(g[Len(e)]) = Append(BytesRead(g[0]), b)
           /\ \/ g[Len(e)].escape = "none"
              \/ g[Len(e)].escape \in {"one", "two"} /\ ~DigitFollows(Rest(i + 1))
      BY <2>3, <2>8, <2>12, <2>13, ReadsByte
    <2>15. Append(SubSeq(shown, 1, i), b) = SubSeq(shown, 1, i + 1)
      BY <2>1, <2>3, SubSeqRecursiveSecond, AppendIsConcat DEF b
    <2>16. BytesRead(r(i + 1)) = SubSeq(shown, 1, i + 1)
      BY <2>9, <2>11, <2>14, <2>15
    <2>17. \/ r(i + 1).escape = "none"
           \/ r(i + 1).escape \in {"one", "two"} /\ ~DigitFollows(Rest(i + 1))
      BY <2>9, <2>14
    <2> QED
      BY <2>16, <2>17
  <1>10. 0..n \subseteq P
    <2> HIDE DEF P
    <2> QED
      BY <1>8, <1>9, InductionUpto
  <1>11. BytesRead(r(n)) = SubSeq(shown, 1, n) /\ r(n).escape \in {"none", "one", "two"}
    BY <1>10
  <1>12. SubSeq(shown, 1, n) = shown
    BY SubSeqFull
  <1> QED
    BY <1>11, <1>12 DEF E, R

\* What is left out is shown as an ellipsis, which reads as itself.
LEMMA ReadsEllipsis ==
    ASSUME NEW B \in Seq(Int), NEW g, BytesRead(g[0]) = B,
           g[0].escape \in {"none", "one", "two"},
           \A k \in 1..3 : g[k] = Read(g[k - 1], 46)
    PROVE  BytesRead(g[3]) = B \o Ellipsis
  <1>1. ~IsOctalDigit(46) /\ 46 # Backslash /\ 46 \in Int
    BY DEF IsOctalDigit, Backslash
  <1>2. ASSUME NEW r, Ready(r, 46)
        PROVE  Read(r, 46) = Reader(Append(BytesRead(r), 46), "none", 0)
    BY <1>1, <1>2, ReadsCharacter
  <1>3. \A bytes : Ready(Reader(bytes, "none", 0), 46)
    BY ReaderFields DEF Ready
  <1>4. g[1] = Read(g[0], 46) /\ g[2] = Read(g[1], 46) /\ g[3] = Read(g[2], 46)
    OBVIOUS
  <1>5. Ready(g[0], 46)
    BY <1>1 DEF Ready
  <1>6. g[1] = Reader(Append(B, 46), "none", 0)
    BY <1>2, <1>4, <1>5
  <1> DEFINE B1 == Append(B, 46)
             B2 == Append(B1, 46)
             B3 == Append(B2, 46)
  <1>7. B1 = B \o <<46>> /\ B1 \in Seq(Int)
    BY AppendIsConcat, AppendProperties
  <1>8. B2 = B1 \o <<46>> /\ B2 \in Seq(Int)
    BY <1>7, AppendIsConcat, AppendProperties
  <1>9. B3 = B2 \o <<46>>
    BY <1>8, AppendIsConcat, AppendProperties
  <1> HIDE DEF B1, B2, B3
  <1>10. g[2] = Reader(B2, "none", 0)
    BY <1>2, <1>3, <1>4, <1>6, ReaderBytes DEF B1, B2
  <1>11. g[3] = Reader(B3, "none", 0)
    BY <1>2, <1>3, <1>4, <1>10, ReaderBytes DEF B3
  <1>12. BytesRead(g[3]) = B3
    BY <1>11, ReaderBytes
  <1>13. B3 = B \o <<46, 46, 46>>
    <2>1. <<46>> \in Seq(Int) /\ <<46, 46>> \in Seq(Int)
      OBVIOUS
    <2>2. B2 = B \o <<46, 46>>
      BY <1>7, <1>8, <2>1, ConcatAssociative, ShortConcat
    <2>3. <<46, 46>> \o <<46>> = <<46, 46, 46>>
      <3>1. (<<46>> \o <<46>>) \o <<46>> = <<46>> \o (<<46>> \o <<46>>)
        BY <2>1, ConcatAssociative
      <3>2. <<46>> \o <<46>> = <<46, 46>> /\ <<46>> \o <<46, 46>> = <<46, 46, 46>>
        BY ShortConcat
      <3> QED
        BY <3>1, <3>2
    <2> QED
      BY <1>9, <2>1, <2>2, <2>3, ConcatAssociative
  <1> QED
    BY <1>12, <1>13 DEF Ellipsis

-----------------------------------------------------------------------------
\* The text of a buffer is printable, and a reader of C strings makes of it the
\* bytes that are shown, with an ellipsis exactly if some are left out: for all
\* bytes, however many there are (quote_string, string_quote.py 61-88).
THEOREM QuotingLosesNothing ==
    ASSUME NEW data \in Seq(Byte), NEW max \in Nat
    PROVE  LET text == QuoteString(data, max)
               more == IF Len(data) > max THEN Ellipsis ELSE << >>
           IN /\ text \in Seq(Char)
              /\ Unquoted(text) = Displayed(data, max) \o more
  <1> DEFINE shown == Displayed(data, max)
             n     == Len(shown)
             more  == IF Len(data) > max THEN Ellipsis ELSE << >>
             text  == QuoteString(data, max)
             E     == Escaped(shown)
             p     == Len(E[n])
             R     == ReadUpto(text)
  <1>1. shown \in Seq(Byte)
    <2>1. Len(data) \in Nat /\ \A i \in 1..Len(data) : data[i] \in Byte
      BY ElementOfSeq
    <2> DEFINE m == IF Len(data) > max THEN max ELSE Len(data)
    <2>2. m \in Nat /\ m <= Len(data)
      BY <2>1
    <2>3. shown = SubSeq(data, 1, m)
      BY DEF Displayed
    <2> HIDE DEF m
    <2>4. \A i \in 1..m : data[i] \in Byte
      BY <2>1, <2>2
    <2> QED
      BY <2>2, <2>3, <2>4, SubSeqProperties
  <1>2. text = E[n] \o more
    BY DEF QuoteString
  <1>3. more \in Seq(Char) /\ (more = << >> \/ more = Ellipsis)
    <2>1. Ellipsis \in Seq(Char)
      <3>1. 46 \in Char
        BY DEF Char
      <3> QED
        BY <3>1 DEF Ellipsis
    <2>2. << >> \in Seq(Char)
      BY EmptySeq
    <2> QED
      BY <2>1, <2>2, Zenon
  <1> HIDE DEF shown, more, text
  <1>4. n \in Nat /\ n \in 0..n
    BY <1>1
  <1>5. E[n] \in Seq(Char)
    BY <1>1, <1>4, EscapedTexts
  <1>6. text \in Seq(Char) /\ p \in Nat /\ Len(text) \in Nat
    BY <1>2, <1>3, <1>5, ConcatPrefix
  <1>7. BytesRead(R[p]) = shown /\ R[p].escape \in {"none", "one", "two"}
    BY <1>1, <1>2, <1>3, <1>4, ReadsBytes
  <1>8. \A k \in 1..Len(text) : R[k] = Read(R[k - 1], text[k])
    BY <1>6, ReadStep
  <1>9. shown \in Seq(Int)
    <2>1. Byte \subseteq Int
      BY DEF Byte
    <2> QED
      BY <1>1, <2>1, SeqMonotonic
  <1> HIDE DEF E, R, n
  <1>10. Unquoted(text) = BytesRead(R[Len(text)])
    BY DEF Unquoted, R
  <1>11. Len(text) = p + Len(more) /\ \A k \in 1..Len(more) : text[p + k] = more[k]
    BY <1>2, <1>3, <1>5, ConcatPrefix
  <1> HIDE DEF p
  <1>12. CASE more = << >>
    <2>1. Len(text) = p
      BY <1>6, <1>11, <1>12
    <2>2. shown \o more = shown
      BY <1>9, <1>12, ConcatEmptySeq
    <2> QED
      BY <1>6, <1>7, <1>10, <2>1, <2>2 DEF shown, more, text
  <1>13. CASE more = Ellipsis
    <2> DEFINE g == [k \in 0..3 |-> R[p + k]]
    <2>1. Len(more) = 3 /\ \A k \in 1..3 : more[k] = 46
      BY <1>13 DEF Ellipsis
    <2>2. ASSUME NEW k \in 1..3
          PROVE  g[k] = Read(g[k - 1], 46)
      <3>1. p + k \in 1..Len(text) /\ text[p + k] = 46
        BY <1>6, <1>11, <2>1
      <3>2. R[p + k] = Read(R[(p + k) - 1], 46)
        BY <1>8, <3>1
      <3>3. g[k] = R[p + k] /\ g[k - 1] = R[(p + k) - 1]
        <4>1. k \in 0..3 /\ k - 1 \in 0..3 /\ p + (k - 1) = (p + k) - 1
          BY <1>6
        <4> QED
          BY <4>1
      <3> QED
        BY <3>2, <3>3
    <2>3. g[0] = R[p] /\ g[3] = R[Len(text)]
      BY <1>6, <1>11, <2>1
    <2> HIDE DEF g
    <2>4. BytesRead(g[3]) = shown \o Ellipsis
      BY <1>7, <1>9, <2>2, <2>3, ReadsEllipsis
    <2>5. Unquoted(text) = shown \o more
      BY <1>10, <1>13, <2>3, <2>4
    <2> QED
      BY <1>6, <2>5 DEF shown, more, text
  <1> QED
    BY <1>3, <1>12, <1>13
=============================================================================
