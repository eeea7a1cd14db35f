--------------------------- MODULE InspectorTextProofs ---------------------------
(***************************************************************************)
(* What InspectorText states of a text's bytes, for any set of characters  *)
(* and texts of any length.  The bytes are flattened sequences, so what    *)
(* they are is shown by induction on the text, with FlattenFacts.          *)
(***************************************************************************)
EXTENDS InspectorText, FlattenFacts

Code == {c \in Nat : c < 65536}

Ascii(text) == \A i \in DOMAIN text : text[i] < 128

LEMMA TextsAreSequences ==
  ASSUME NEW text \in Texts
  PROVE  text \in Seq(Code)
<1>1. PICK n \in 0..MaxLength : text \in [1..n -> Characters]
  BY DEF Texts
<1>2. n \in Nat
  BY CharactersAssumption
<1>3. Characters \subseteq Code
  BY CharactersAssumption DEF Code
<1>4. text \in [1..n -> Code]
  BY <1>1, <1>3
<1> QED
  BY <1>2, <1>4
-----------------------------------------------------------------------------
(* The two bytes of a 16-bit character, and the characters that are bytes. *)
LEMMA CodeBytes ==
  ASSUME NEW c \in Code
  PROVE  /\ c \in Nat /\ c % 256 \in Byte /\ c \div 256 \in Byte
         /\ c % 256 = c <=> c < 256
         /\ c < 256 <=> c \in Byte
BY DEF Code, Byte

(* The bytes of a character: itself, or more above ASCII.                  *)
LEMMA Utf8Bytes ==
  ASSUME NEW c \in Code
  PROVE  /\ Utf8(c) \in Seq(Byte)
         /\ c < 128 => Utf8(c) = <<c>>
         /\ ~(c < 128) => Len(Utf8(c)) > 1
<1>1. CASE c < 128
  <2>1. Utf8(c) = <<c>> /\ c \in Byte
    BY <1>1 DEF Utf8, Code, Byte
  <2> QED
    BY <1>1, <2>1
<1>2. CASE c >= 128 /\ c < 2048
  <2>1. 192 + (c \div 64) \in Byte /\ 128 + (c % 64) \in Byte
    BY <1>2 DEF Byte, Code
  <2>2. Utf8(c) = <<192 + (c \div 64), 128 + (c % 64)>>
    BY <1>2 DEF Utf8, Code
  <2> QED
    BY <1>2, <2>1, <2>2 DEF Code
<1>3. CASE c >= 2048
  <2>1. /\ 224 + (c \div 4096) \in Byte /\ 128 + ((c \div 64) % 64) \in Byte
        /\ 128 + (c % 64) \in Byte
    BY <1>3 DEF Byte, Code
  <2>2. Utf8(c) = <<224 + (c \div 4096), 128 + ((c \div 64) % 64), 128 + (c % 64)>>
    BY <1>3 DEF Utf8, Code
  <2> QED
    BY <1>3, <2>1, <2>2 DEF Code
<1> QED
  BY <1>1, <1>2, <1>3 DEF Code

LEMMA Utf8Parts ==
  ASSUME NEW text \in Seq(Code)
  PROVE  LET parts == [i \in DOMAIN text |-> Utf8(text[i])]
         IN  /\ parts \in Seq(Seq(Byte)) /\ Len(parts) = Len(text)
             /\ \A i \in 1..Len(text) : parts[i] = Utf8(text[i])
<1> DEFINE parts == [i \in DOMAIN text |-> Utf8(text[i])]
<1>1. DOMAIN text = 1..Len(text) /\ Len(text) \in Nat
  OBVIOUS
<1>2. ASSUME NEW i \in 1..Len(text)
      PROVE  Utf8(text[i]) \in Seq(Byte)
  BY Utf8Bytes
<1>3. parts \in [1..Len(text) -> Seq(Byte)]
  BY <1>1, <1>2
<1> QED
  BY <1>1, <1>3

LEMMA EncodeType ==
  ASSUME NEW text \in Seq(Code)
  PROVE  Encode(text) \in Seq(Byte)
BY Utf8Parts, FlattenType DEF Encode

LEMMA BytesConcatenated ==
  \A s, t \in Seq(Byte) : /\ Len(s \o t) = Len(s) + Len(t)
                          /\ \A i \in 1..Len(s) : (s \o t)[i] = s[i]
                          /\ \A i \in 1..Len(t) : (s \o t)[Len(s) + i] = t[i]
BY ConcatenationAt

(* The bytes of a text are the text just when it is ASCII: with any other  *)
(* character before them, they are more than the characters.               *)
LEMMA EncodeAscii ==
  ASSUME NEW text \in Seq(Code)
  PROVE  Encode(text) = text <=> Ascii(text)
<1> DEFINE parts == [i \in DOMAIN text |-> Utf8(text[i])]
<1>1. /\ parts \in Seq(Seq(Byte)) /\ Len(parts) = Len(text)
      /\ \A i \in 1..Len(text) : parts[i] = Utf8(text[i])
  BY Utf8Parts
<1>2. Encode(text) = FlattenSeq(parts)
  BY DEF Encode
<1> HIDE DEF parts
<1>3. Len(text) \in Nat /\ DOMAIN text = 1..Len(text)
  OBVIOUS
<1>4. PICK f : IsFlattening(f, parts, Byte)
  BY <1>1, FlatteningExists
<1>5. f \in [0..Len(text) -> Seq(Byte)] /\ f[0] = <<>>
  BY <1>1, <1>4 DEF IsFlattening, FlattensTo
<1>6. ASSUME NEW i \in 1..Len(text)
      PROVE  f[i] = f[i - 1] \o Utf8(text[i])
  BY <1>1, <1>4 DEF IsFlattening, FlattensTo
<1> DEFINE AsciiTo(n) == \A i \in 1..n : text[i] < 128
           Encoded(n) == /\ Len(f[n]) >= n
                         /\ ~AsciiTo(n) => Len(f[n]) > n
                         /\ AsciiTo(n) => Len(f[n]) = n /\ \A i \in 1..n : f[n][i] = text[i]
<1>7. Encoded(0)
  BY <1>5
<1>8. ASSUME NEW n \in Nat, NEW m \in 1..Len(text), m = n + 1, Encoded(n)
      PROVE  Encoded(m)
  <2>1. m - 1 = n /\ n \in 0..Len(text)
    BY <1>3, <1>8
  <2> PICK a, c : a = f[n] /\ c = text[m]
    OBVIOUS
  <2> PICK u : u = Utf8(c)
    OBVIOUS
  <2>2. a \in Seq(Byte) /\ c \in Code /\ f[m] = a \o Utf8(c)
    <3>1. f[n] \in Seq(Byte) /\ text[m] \in Code
      BY <1>5, <2>1
    <3>2. f[m] = f[m - 1] \o Utf8(text[m])
      BY <1>6
    <3> QED
      BY <2>1, <3>1, <3>2
  <2>3. Utf8(c) \in Seq(Byte)
    BY <2>2, Utf8Bytes
  <2>4. /\ Len(f[m]) = Len(a) + Len(Utf8(c))
        /\ \A i \in 1..Len(a) : f[m][i] = a[i]
        /\ \A i \in 1..Len(Utf8(c)) : f[m][Len(a) + i] = Utf8(c)[i]
    <3>1. a \in Seq(Byte) /\ u \in Seq(Byte)
      BY <2>2, <2>3
    <3>2. /\ Len(a \o u) = Len(a) + Len(u)
          /\ \A i \in 1..Len(a) : (a \o u)[i] = a[i]
          /\ \A i \in 1..Len(u) : (a \o u)[Len(a) + i] = u[i]
      BY <3>1, BytesConcatenated, Zenon
    <3> QED
      BY <2>2, <3>2, Zenon
  <2>5. /\ Len(a) \in Nat /\ Len(a) >= n /\ (~AsciiTo(n) => Len(a) > n)
        /\ AsciiTo(n) => Len(a) = n /\ \A i \in 1..n : a[i] = text[i]
    BY <1>8, <2>2
  <2>6. AsciiTo(m) <=> AsciiTo(n) /\ c < 128
    <3>1. \A i \in 1..m : i \in 1..n \/ i = m
      BY <1>8
    <3>2. 1..n \subseteq 1..m /\ m \in 1..m
      BY <1>8
    <3> QED
      BY <3>1, <3>2
  <2> HIDE DEF AsciiTo
  <2>7. CASE c < 128
    <3>1. Utf8(c) = <<c>> /\ Len(Utf8(c)) = 1 /\ Utf8(c)[1] = c
      BY <2>2, <2>7, Utf8Bytes
    <3>2. Len(f[m]) = Len(a) + 1 /\ f[m][Len(a) + 1] = c
      BY <2>4, <3>1
    <3>3. ASSUME AsciiTo(m), NEW i \in 1..m
          PROVE  f[m][i] = text[i]
      <4>1. AsciiTo(n) /\ Len(a) = n /\ \A j \in 1..n : a[j] = text[j]
        BY <2>5, <2>6, <3>3
      <4>2. CASE i = m
        BY <1>8, <3>2, <4>1, <4>2
      <4>3. CASE i # m
        <5>1. i \in 1..n
          BY <1>8, <4>3
        <5> QED
          BY <2>4, <4>1, <5>1
      <4> QED
        BY <4>2, <4>3
    <3>4. Len(f[m]) >= m /\ (~AsciiTo(m) => Len(f[m]) > m) /\ (AsciiTo(m) => Len(f[m]) = m)
      BY <1>8, <2>5, <2>6, <2>7, <3>2
    <3> QED
      BY <3>3, <3>4
  <2>8. CASE ~(c < 128)
    <3>1. Len(Utf8(c)) \in Nat /\ Len(Utf8(c)) > 1
      BY <2>2, <2>3, <2>8, Utf8Bytes
    <3>2. PICK k : k = Len(Utf8(c))
      OBVIOUS
    <3>3. Len(f[m]) = Len(a) + k /\ k \in Nat /\ k > 1
      BY <2>4, <3>1, <3>2
    <3>4. Len(f[m]) > m /\ Len(f[m]) >= m
      BY <1>8, <2>5, <3>3
    <3> QED
      BY <2>6, <2>8, <3>4
  <2> QED
    BY <2>7, <2>8
<1> HIDE DEF Encoded
<1> DEFINE T == {n \in Nat : n <= Len(text) => Encoded(n)}
<1>9. 0 \in T
  BY <1>7
<1>10. ASSUME NEW n \in Nat, n \in T
       PROVE  n + 1 \in T
  <2>1. n + 1 <= Len(text) => n <= Len(text) /\ n + 1 \in 1..Len(text)
    BY <1>3
  <2> QED
    BY <1>8, <1>10, <2>1
<1> HIDE DEF T
<1>11. Nat \subseteq T
  BY <1>9, <1>10, SetInduction
<1>12. Encoded(Len(text))
  BY <1>3, <1>11 DEF T
<1>13. Encode(text) = f[Len(text)] /\ f[Len(text)] \in Seq(Byte)
  <2>1. FlattenSeq(parts) = f[Len(parts)]
    BY <1>1, <1>4, FlatteningIs
  <2>2. Len(text) \in 0..Len(text)
    BY <1>3
  <2> QED
    BY <1>1, <1>2, <1>5, <2>1, <2>2
<1>14. AsciiTo(Len(text)) <=> Ascii(text)
  BY <1>3 DEF Ascii
<1> HIDE DEF AsciiTo
<1>15. CASE Ascii(text)
  <2>1. Len(Encode(text)) = Len(text) /\ \A i \in 1..Len(text) : Encode(text)[i] = text[i]
    BY <1>12, <1>13, <1>14, <1>15 DEF Encoded
  <2>2. Encode(text) \in Seq(Byte)
    BY <1>13
  <2> QED
    BY <1>15, <2>1, <2>2
<1>16. CASE ~Ascii(text)
  <2>1. Len(Encode(text)) > Len(text)
    BY <1>12, <1>13, <1>14, <1>16 DEF Encoded
  <2> QED
    BY <1>3, <1>16, <2>1
<1> QED
  BY <1>15, <1>16
-----------------------------------------------------------------------------
(* The characters GetString finds in a view of either width.               *)
LEMMA GetString8 ==
  ASSUME NEW text \in Seq(Nat)
  PROVE  GetString(View8(text)) = text
<1>1. View8(text).length = Len(text) /\ View8(text).memory = text
      /\ CharStep(View8(text)) = 1 /\ Len(text) \in Nat
  BY DEF View8, CharStep
<1>2. GetString(View8(text)) = [i \in 1..Len(text) |-> text[(i - 1) * 1 + 1]]
  BY <1>1 DEF GetString
<1>3. \A i \in 1..Len(text) : (i - 1) * 1 + 1 = i
  BY <1>1
<1> QED
  BY <1>2, <1>3

LEMMA GetString16 ==
  ASSUME NEW text \in Seq(Code)
  PROVE  /\ View16(text) \in View
         /\ GetString(View16(text)) = [i \in 1..Len(text) |-> text[i] % 256]
<1> DEFINE pairs == [i \in DOMAIN text |-> <<text[i] % 256, text[i] \div 256>>]
<1>1. DOMAIN text = 1..Len(text) /\ Len(text) \in Nat
  OBVIOUS
<1>2. ASSUME NEW i \in 1..Len(text)
      PROVE  /\ pairs[i] \in Seq(Byte) /\ Len(pairs[i]) = 2
             /\ pairs[i][1] = text[i] % 256
  <2>1. text[i] % 256 \in Byte /\ text[i] \div 256 \in Byte
    <3>1. text[i] \in Code
      OBVIOUS
    <3> QED
      BY <3>1, CodeBytes
  <2> QED
    BY <1>1, <2>1
<1>3. pairs \in Seq(Seq(Byte)) /\ Len(pairs) = Len(text)
  <2>1. pairs \in [1..Len(text) -> Seq(Byte)]
    BY <1>1, <1>2
  <2> HIDE DEF pairs
  <2> QED
    BY <1>1, <2>1
<1>4. /\ View16(text).memory = FlattenSeq(pairs)
      /\ View16(text).length = Len(text) /\ View16(text).is8Bit = FALSE
  BY DEF View16
<1> HIDE DEF pairs
<1>5. FlattenSeq(pairs) \in Seq(Byte)
  BY <1>3, FlattenType
<1>6. \A i \in 1..Len(text) : FlattenSeq(pairs)[2 * i - 1] = pairs[i][1]
  BY <1>2, <1>3, FlattenPairs
<1>7. View16(text) \in View
  <2>1. View16(text) = [is8Bit |-> FALSE, length |-> Len(text), memory |-> FlattenSeq(pairs)]
    BY DEF View16, pairs
  <2> QED
    BY <1>1, <1>5, <2>1 DEF View
<1>8. CharStep(View16(text)) = 2
  BY <1>4 DEF CharStep
<1>9. GetString(View16(text))
        = [i \in 1..Len(text) |-> FlattenSeq(pairs)[(i - 1) * 2 + 1]]
  BY <1>4, <1>8 DEF GetString
<1>10. ASSUME NEW i \in 1..Len(text)
       PROVE  FlattenSeq(pairs)[(i - 1) * 2 + 1] = text[i] % 256
  <2>1. (i - 1) * 2 + 1 = 2 * i - 1
    BY <1>1
  <2> QED
    BY <1>2, <1>6, <2>1
<1> QED
  BY <1>7, <1>9, <1>10

(* The low bytes are the characters just when each fits a byte.            *)
LEMMA LowBytes ==
  ASSUME NEW text \in Seq(Code)
  PROVE  [i \in 1..Len(text) |-> text[i] % 256] = text <=> Is8Bit(text)
<1>1. DOMAIN text = 1..Len(text) /\ text = [i \in 1..Len(text) |-> text[i]]
  OBVIOUS
<1>2. ASSUME NEW i \in 1..Len(text)
      PROVE  text[i] % 256 = text[i] <=> text[i] < 256
  <2>1. text[i] \in Code
    OBVIOUS
  <2> QED
    BY <2>1, CodeBytes
<1>3. ASSUME Is8Bit(text)
      PROVE  [i \in 1..Len(text) |-> text[i] % 256] = text
  BY <1>1, <1>2, <1>3 DEF Is8Bit
<1>4. ASSUME [i \in 1..Len(text) |-> text[i] % 256] = text
      PROVE  Is8Bit(text)
  <2>1. ASSUME NEW i \in 1..Len(text)
        PROVE  text[i] < 256
    <3>1. text[i] = text[i] % 256
      BY <1>4
    <3> QED
      BY <1>2, <3>1
  <2> QED
    BY <1>1, <2>1 DEF Is8Bit
<1> QED
  BY <1>3, <1>4
-----------------------------------------------------------------------------
(* What the session, the answer and the wire hold at each stage.           *)
ViewInv == stage # "window" => view = View8(Encode(said))

BufferInv == stage \in {"channel", "wire"} =>
  /\ composed \in Texts \cup {Encode(said)}
  /\ \/ Is8Bit(composed) /\ buffer = View8(composed)
     \/ buffer = View16(composed)

WireInv == stage = "wire" => wire = GetString(buffer)

IInv == TypeOK /\ ViewInv /\ BufferInv /\ WireInv

LEMMA View8Type ==
  ASSUME NEW bytes \in Seq(Byte)
  PROVE  View8(bytes) \in View /\ CharactersOf(View8(bytes)) = bytes
<1>1. Len(bytes) \in Nat
  OBVIOUS
<1>2. View8(bytes) \in View
  BY <1>1 DEF View8, View
<1>3. CharactersOf(View8(bytes)) = SubSeq(bytes, 1, Len(bytes))
  BY DEF CharactersOf, View8
<1>4. SubSeq(bytes, 1, Len(bytes)) = bytes
  BY <1>1
<1> QED
  BY <1>2, <1>3, <1>4

(* Bytes and texts alike are sequences of characters.                      *)
LEMMA ComposedType ==
  ASSUME NEW text, NEW t \in Texts, text \in Texts \cup {Encode(t)}
  PROVE  text \in Seq(Code)
<1>1. t \in Seq(Code)
  BY TextsAreSequences
<1>2. Encode(t) \in Seq(Byte)
  BY <1>1, EncodeType
<1>3. Byte \subseteq Code
  BY DEF Byte, Code
<1>4. Encode(t) \in Seq(Code)
  BY <1>2, <1>3
<1> QED
  BY <1>4, TextsAreSequences

LEMMA Bytes8 ==
  ASSUME NEW text \in Seq(Code), Is8Bit(text)
  PROVE  text \in Seq(Byte)
<1>1. DOMAIN text = 1..Len(text) /\ Len(text) \in Nat
  OBVIOUS
<1>2. ASSUME NEW i \in 1..Len(text)
      PROVE  text[i] \in Byte
  <2>1. text[i] \in Code /\ text[i] < 256
    BY <1>1 DEF Is8Bit
  <2> QED
    BY <2>1, CodeBytes
<1>3. text \in [1..Len(text) -> Byte]
  BY <1>1, <1>2
<1> QED
  BY <1>1, <1>3

LEMMA CodeIsNat == ASSUME NEW text \in Seq(Code) PROVE text \in Seq(Nat)
<1>1. Code \subseteq Nat
  BY DEF Code
<1> HIDE DEF Code
<1>2. Len(text) \in Nat /\ text \in [1..Len(text) -> Code]
  OBVIOUS
<1>3. text \in [1..Len(text) -> Nat]
  BY <1>1, <1>2
<1> QED
  BY <1>2, <1>3

LEMMA GetStringType ==
  ASSUME NEW text \in Seq(Code)
  PROVE  /\ GetString(View16(text)) \in Seq(Byte)
         /\ Is8Bit(text) => GetString(View8(text)) \in Seq(Byte)
<1>1. Len(text) \in Nat
  OBVIOUS
<1>2. \A i \in 1..Len(text) : text[i] % 256 \in Byte
  <2>1. ASSUME NEW i \in 1..Len(text)
        PROVE  text[i] % 256 \in Byte
    <3>1. text[i] \in Code
      OBVIOUS
    <3> QED
      BY <3>1, CodeBytes
  <2> QED
    BY <2>1
<1>3. [i \in 1..Len(text) |-> text[i] % 256] \in Seq(Byte)
  BY <1>1, <1>2
<1>4. ASSUME Is8Bit(text)
      PROVE  GetString(View8(text)) \in Seq(Byte)
  BY <1>4, Bytes8, CodeIsNat, GetString8
<1> QED
  BY <1>3, <1>4, GetString16

LEMMA InitIInv == Init => IInv
<1> SUFFICES ASSUME Init PROVE IInv
  OBVIOUS
<1>1. <<>> \in Seq(Byte) /\ <<>> \in Seq(Nat)
  OBVIOUS
<1>2. View8(<<>>) \in View
  BY <1>1, View8Type
<1> QED
  BY <1>1, <1>2 DEF Init, IInv, TypeOK, ViewInv, BufferInv, WireInv

LEMMA NextIInv == IInv /\ [Next]_vars => IInv'
<1> SUFFICES ASSUME IInv, [Next]_vars PROVE IInv'
  OBVIOUS
<1> USE DEF IInv
<1>1. said \in Texts /\ Encode(said) \in Seq(Byte)
  BY TextsAreSequences, EncodeType DEF TypeOK
<1>2. CASE SendMessageToSession
  <2>1. view' = View8(Encode(said)) /\ said' = said
    BY <1>2 DEF SendMessageToSession, StringToArray
  <2>2. view' \in View
    BY <1>1, <2>1, View8Type
  <2>3. TypeOK'
    BY <1>2, <2>2 DEF SendMessageToSession, TypeOK
  <2> QED
    BY <1>2, <2>1, <2>3 DEF SendMessageToSession, ViewInv, BufferInv, WireInv
<1>3. ASSUME NEW text \in Texts \cup {CharactersOf(view)}, Compose(text)
      PROVE  IInv'
  <2>1. view = View8(Encode(said)) /\ view' = view /\ said' = said
    BY <1>3 DEF Compose, ViewInv
  <2>2. text \in Texts \cup {Encode(said)}
    BY <1>1, <2>1, View8Type
  <2>3. text \in Seq(Code) /\ text \in Seq(Nat)
    BY <1>1, <2>2, ComposedType, CodeIsNat
  <2>4. /\ composed' = text
        /\ (Is8Bit(text) /\ buffer' = View8(text)) \/ buffer' = View16(text)
    BY <1>3 DEF Compose
  <2>5. buffer' \in View
    BY <2>3, <2>4, Bytes8, View8Type, GetString16
  <2>6. TypeOK'
    BY <1>3, <2>3, <2>5 DEF Compose, TypeOK
  <2>7. BufferInv'
    BY <2>1, <2>2, <2>4 DEF BufferInv
  <2> QED
    BY <1>3, <2>1, <2>6, <2>7 DEF Compose, ViewInv, WireInv
<1>4. CASE SendResponse
  <2>1. /\ composed \in Texts \cup {Encode(said)}
        /\ (Is8Bit(composed) /\ buffer = View8(composed)) \/ buffer = View16(composed)
    BY <1>4 DEF SendResponse, BufferInv
  <2>2. composed \in Seq(Code)
    BY <1>1, <2>1, ComposedType
  <2>3. wire' = GetString(buffer) /\ buffer' = buffer /\ wire' \in Seq(Byte)
    BY <1>4, <2>1, <2>2, GetStringType DEF SendResponse
  <2>4. TypeOK'
    BY <1>4, <2>3 DEF SendResponse, TypeOK
  <2> QED
    BY <1>4, <2>3, <2>4 DEF SendResponse, ViewInv, BufferInv, WireInv
<1>5. CASE UNCHANGED vars
  BY <1>5 DEF vars, TypeOK, ViewInv, BufferInv, WireInv
<1> QED
  BY <1>2, <1>3, <1>4, <1>5 DEF Next

LEMMA SpecIInv == Spec => []IInv
<1> QED
  BY InitIInv, NextIInv, PTL DEF Spec

(* Whatever characters V8 and the windows use and however long the texts,  *)
(* the views and what goes out are made of bytes.                          *)
THEOREM TypeCorrect == Spec => []TypeOK
<1>1. IInv => TypeOK
  BY DEF IInv
<1> QED
  BY <1>1, SpecIInv, PTL

(* SendMessageToSession gives V8 the window's characters just when all of  *)
(* them are ASCII, for texts of any length.                                *)
THEOREM SessionReads == Spec => []SessionReadsAscii
<1>1. IInv => SessionReadsAscii
  <2> SUFFICES ASSUME IInv, stage # "window"
               PROVE  CharactersOf(view) = said <=> \A i \in DOMAIN said : said[i] < 128
    BY DEF SessionReadsAscii
  <2>1. said \in Seq(Code)
    BY TextsAreSequences DEF IInv, TypeOK
  <2>2. CharactersOf(view) = Encode(said)
    BY <2>1, EncodeType, View8Type DEF IInv, ViewInv
  <2> QED
    BY <2>1, <2>2, EncodeAscii DEF Ascii
<1> QED
  BY <1>1, SpecIInv, PTL

LEMMA WireText ==
  ASSUME IInv, stage = "wire"
  PROVE  /\ composed \in Seq(Code)
         /\ \/ Is8Bit(composed) /\ wire = composed
            \/ wire = [i \in 1..Len(composed) |-> composed[i] % 256]
<1>1. /\ composed \in Texts \cup {Encode(said)}
      /\ (Is8Bit(composed) /\ buffer = View8(composed)) \/ buffer = View16(composed)
  BY DEF IInv, BufferInv
<1>2. composed \in Seq(Code) /\ composed \in Seq(Nat)
  BY <1>1, ComposedType, CodeIsNat DEF IInv, TypeOK
<1>3. wire = GetString(buffer)
  BY DEF IInv, WireInv
<1> QED
  BY <1>1, <1>2, <1>3, GetString8, GetString16

(* GetString loses nothing just when every character V8 answers with fits  *)
(* a byte, in a view of either width.                                      *)
THEOREM BytesThrough == Spec => []BytesGoThrough
<1>1. IInv => BytesGoThrough
  <2> SUFFICES ASSUME IInv, stage = "wire" PROVE wire = composed <=> Is8Bit(composed)
    BY DEF BytesGoThrough
  <2> QED
    BY WireText, LowBytes
<1> QED
  BY <1>1, SpecIInv, PTL

(* An answer that repeats the characters the session was given goes out as *)
(* the bytes the window sent.                                              *)
THEOREM EchoReturns == Spec => []EchoReturnsText
<1>1. IInv => EchoReturnsText
  <2> SUFFICES ASSUME IInv, stage = "wire", composed = CharactersOf(view)
               PROVE  wire = Encode(said)
    BY DEF EchoReturnsText
  <2>1. Encode(said) \in Seq(Byte)
    BY TextsAreSequences, EncodeType DEF IInv, TypeOK
  <2>2. composed = Encode(said)
    BY <2>1, View8Type DEF IInv, ViewInv
  <2>3. Is8Bit(composed)
    <3>1. ASSUME NEW i \in DOMAIN composed
          PROVE  composed[i] < 256
      <4>1. composed[i] \in Byte
        BY <2>1, <2>2
      <4> QED
        BY <4>1 DEF Byte
    <3> QED
      BY <3>1 DEF Is8Bit
  <2> QED
    BY <2>2, <2>3, WireText, LowBytes
<1> QED
  BY <1>1, SpecIInv, PTL
=============================================================================
