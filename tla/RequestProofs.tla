--------------------------- MODULE RequestProofs ---------------------------
(***************************************************************************)
(* Theorems about requests and their text (modules Request and ReqText),   *)
(* for requests of any number of pairs, with words of any length.          *)
(***************************************************************************)
EXTENDS Request, DataLemmas

(***************************************************************************)
(* Characters.                                                             *)
(***************************************************************************)
TenDigits  == {"0", "1", "2", "3", "4", "5", "6", "7", "8", "9"}
HexLetters == {"A", "B", "C", "D", "E", "F"}
LowLetters == {"a", "b", "c", "d", "e", "f"}
Marks      == {"space", "quote", "#", "*", ".", ":", "=", "R", "under", "r"}

HexLike == TenDigits \cup HexLetters \cup LowLetters

LEMMA HexDigitsAre ==
  /\ HexDigits \in Seq(HexLike) /\ Len(HexDigits) = 16 /\ DOMAIN HexDigits = 1..16
  /\ LowerHex \in Seq(HexLike) /\ Len(LowerHex) = 6 /\ DOMAIN LowerHex = 1..6
  /\ DOMAIN OtherChars = 1..10
<1>1. LowerHex \in Seq(HexLike)
  BY DEF LowerHex, HexLike, LowLetters
<1>2. HexDigits \in Seq(HexLike)
  BY DEF HexDigits, HexLike, TenDigits, HexLetters
<1>3. Len(HexDigits) = 16 /\ Len(LowerHex) = 6
  BY DEF HexDigits, LowerHex
<1>4. DOMAIN OtherChars = 1..10
  BY DEF OtherChars
<1> QED BY <1>1, <1>2, <1>3, <1>4

LEMMA RidCharIs == RidChar = TenDigits
<1> DEFINE d == SubSeq(HexDigits, 1, 10)
<1>1. Len(d) = 10 /\ \A i \in 1..10 : d[i] = HexDigits[i]
  BY HexDigitsAre
<1>2. d[1] = "0" /\ d[2] = "1" /\ d[3] = "2" /\ d[4] = "3" /\ d[5] = "4" /\ d[6] = "5"
      /\ d[7] = "6" /\ d[8] = "7" /\ d[9] = "8" /\ d[10] = "9"
  BY <1>1 DEF HexDigits
<1>3. DOMAIN d = 1..10
  BY <1>1
<1> HIDE DEF d
<1>4. Range(d) = TenDigits
  <2>1. \A i \in 1..10 : i = 1 \/ i = 2 \/ i = 3 \/ i = 4 \/ i = 5 \/ i = 6 \/ i = 7 \/ i = 8
                         \/ i = 9 \/ i = 10
    OBVIOUS
  <2>2. \A i \in 1..10 : d[i] \in TenDigits
    BY <1>2, <2>1 DEF TenDigits
  <2>3. \A c \in TenDigits : \E i \in 1..10 : c = d[i]
    BY <1>2 DEF TenDigits
  <2> QED BY <1>3, <2>2, <2>3 DEF Range
<1> QED BY <1>4 DEF d, RidChar

LEMMA EValueCharIs == EValueChar = TenDigits \cup HexLetters
<1>1. DOMAIN HexDigits = 1..16
  BY HexDigitsAre
<1>2. \A i \in 1..16 : HexDigits[i] \in TenDigits \cup HexLetters
  BY DEF HexDigits, TenDigits, HexLetters
<1>3. \A c \in TenDigits \cup HexLetters : \E i \in 1..16 : c = HexDigits[i]
  BY DEF HexDigits, TenDigits, HexLetters
<1> QED BY <1>1, <1>2, <1>3 DEF EValueChar, Range

LEMMA HexLikeIs == Range(HexDigits \o LowerHex) = HexLike
<1> DEFINE all == HexDigits \o LowerHex
<1>a. HexDigits \in Seq(HexLike) /\ LowerHex \in Seq(HexLike)
  BY HexDigitsAre
<1>b. HexDigits \o LowerHex \in Seq(HexLike)
  BY <1>a, ConcatParts
<1>c. Len(HexDigits \o LowerHex) = Len(HexDigits) + Len(LowerHex)
  BY <1>a, ConcatParts
<1>d. \A i \in 1..Len(HexDigits) : (HexDigits \o LowerHex)[i] = HexDigits[i]
  BY <1>a, ConcatParts
<1>0. /\ all \in Seq(HexLike) /\ Len(all) = Len(HexDigits) + Len(LowerHex)
      /\ \A i \in 1..Len(HexDigits) : all[i] = HexDigits[i]
      /\ \A i \in 1..Len(LowerHex) : all[Len(HexDigits) + i] = LowerHex[i]
  BY <1>a, <1>b, <1>c, <1>d, ConcatParts
<1> HIDE DEF all
<1>1. Len(all) = 22
  BY HexDigitsAre, <1>0
<1>2. /\ \A i \in 1..16 : all[i] = HexDigits[i]
      /\ \A i \in 1..6 : all[16 + i] = LowerHex[i]
  BY HexDigitsAre, <1>0
<1>3. DOMAIN all = 1..22
  <2>1. DOMAIN all = 1..Len(all)
    BY <1>0, LenProperties
  <2> QED BY <1>1, <2>1
<1> HIDE DEF all
<1>4. \A i \in 1..6 : LowerHex[i] \in LowLetters
  BY DEF LowerHex, LowLetters
<1>5. \A c \in LowLetters : \E i \in 1..6 : c = LowerHex[i]
  BY DEF LowerHex, LowLetters
<1>6. DOMAIN HexDigits = 1..16 /\ Range(HexDigits) = TenDigits \cup HexLetters
  BY HexDigitsAre, EValueCharIs DEF EValueChar
<1>7. Range(all) = TenDigits \cup HexLetters \cup LowLetters
  <2>1. ASSUME NEW i \in 1..22 PROVE all[i] \in TenDigits \cup HexLetters \cup LowLetters
    <3>1. CASE i <= 16
      BY <1>2, <1>6, <3>1 DEF Range
    <3>2. CASE i > 16
      <4>1. i - 16 \in 1..6 /\ 16 + (i - 16) = i
        BY <3>2
      <4> QED BY <1>2, <1>4, <4>1
    <3> QED BY <3>1, <3>2
  <2>2. ASSUME NEW c \in TenDigits \cup HexLetters PROVE \E i \in 1..22 : c = all[i]
    BY <1>2, <1>6 DEF Range
  <2>3. ASSUME NEW c \in LowLetters PROVE \E i \in 1..22 : c = all[i]
    <3>1. PICK i \in 1..6 : c = LowerHex[i]
      BY <1>5
    <3>2. 16 + i \in 1..22 /\ c = all[16 + i]
      BY <1>2, <3>1
    <3> QED BY <3>2
  <2> QED BY <1>3, <2>1, <2>2, <2>3 DEF Range
<1> QED BY <1>7 DEF all, HexLike

LEMMA AlnumIs == Alnum = HexLike \cup {"R", "r"}
BY HexLikeIs DEF Alnum, ReplyChar

LEMMA CharIs == Char = TenDigits \cup HexLetters \cup LowLetters \cup Marks
BY AlnumIs DEF HexLike, Char, QValueChar, ValueChar, Other, Marks

LEMMA DigitsDiffer ==
  /\ \A i, j \in 1..16 : HexDigits[i] = HexDigits[j] => i = j
  /\ \A i, j \in 1..6 : LowerHex[i] = LowerHex[j] => i = j
  /\ \A i, j \in 1..10 : OtherChars[i] = OtherChars[j] => i = j
  /\ \A i, j \in 1..10 : OtherCodes[i] = OtherCodes[j] => i = j
BY DEF HexDigits, LowerHex, OtherChars, OtherCodes

LEMMA RidCharDigits ==
  ASSUME NEW k \in 1..16
  PROVE  HexDigits[k] \in EValueChar /\ (HexDigits[k] \in RidChar <=> k <= 10)
<1>1. HexDigits[k] \in EValueChar
  BY HexDigitsAre DEF EValueChar, Range
<1>2. HexDigits[k] \in TenDigits <=> k <= 10
  BY DEF HexDigits, TenDigits
<1> QED BY <1>1, <1>2, RidCharIs

LEMMA PlaceOfDigit ==
  /\ \A k \in 1..16 : Place(HexDigits[k], HexDigits) = k
  /\ \A k \in 1..6 : Place(LowerHex[k], LowerHex) = k
  /\ \A k \in 1..10 : Place(OtherChars[k], OtherChars) = k
BY HexDigitsAre, DigitsDiffer DEF Place

LEMMA CharsApart ==
  /\ \A c \in EValueChar : c \notin Range(LowerHex) /\ c \notin Range(OtherChars)
  /\ \A c \in RidChar : c \in EValueChar
  /\ \A c \in Range(LowerHex) : c \notin Range(OtherChars)
<1>1. \A i \in 1..6 : LowerHex[i] \in LowLetters
  BY DEF LowerHex, LowLetters
<1>2. \A x \in Range(LowerHex) : x \in LowLetters
  BY <1>1, HexDigitsAre DEF Range
<1>3. \A i \in 1..10 : OtherChars[i] \in Marks
  BY DEF OtherChars, Marks
<1>4. \A x \in Range(OtherChars) : x \in Marks
  BY <1>3, HexDigitsAre DEF Range
<1>5. \A c \in EValueChar : c \notin Range(LowerHex) /\ c \notin Range(OtherChars)
  BY <1>2, <1>4, EValueCharIs DEF TenDigits, HexLetters, LowLetters, Marks
<1>6. \A c \in Range(LowerHex) : c \notin Range(OtherChars)
  BY <1>2, <1>4 DEF LowLetters, Marks
<1> QED BY <1>5, <1>6, EValueCharIs, RidCharIs

LEMMA AsciiCases ==
  ASSUME NEW c
  PROVE  /\ c \in RidChar => Ascii(c) = 47 + Place(c, HexDigits)
         /\ c \in EValueChar \ RidChar => Ascii(c) = 54 + Place(c, HexDigits)
         /\ c \in Range(LowerHex) => Ascii(c) = 96 + Place(c, LowerHex)
         /\ c \in Range(OtherChars) => Ascii(c) = OtherCodes[Place(c, OtherChars)]
<1>1. CASE c \in RidChar
  BY <1>1, CharsApart DEF Ascii
<1>2. CASE c \in EValueChar \ RidChar
  BY <1>2, CharsApart DEF Ascii
<1>3. CASE c \in Range(LowerHex)
  BY <1>3, CharsApart DEF Ascii
<1>4. CASE c \in Range(OtherChars)
  BY <1>4, CharsApart DEF Ascii
<1> QED BY <1>1, <1>2, <1>3, <1>4, CharsApart

LEMMA AsciiOfDigit ==
  ASSUME NEW k \in 1..16
  PROVE  Ascii(HexDigits[k]) = IF k <= 10 THEN 47 + k ELSE 54 + k
<1>1. HexDigits[k] \in EValueChar /\ Place(HexDigits[k], HexDigits) = k
  BY RidCharDigits, PlaceOfDigit
<1>2. CASE k <= 10
  BY <1>1, <1>2, RidCharDigits, AsciiCases
<1>3. CASE k > 10
  <2>1. HexDigits[k] \in EValueChar \ RidChar
    BY <1>1, <1>3, RidCharDigits
  <2> QED BY <1>1, <1>3, <2>1, AsciiCases
<1> QED BY <1>2, <1>3

LEMMA AsciiOfLower ==
  ASSUME NEW k \in 1..6
  PROVE  Ascii(LowerHex[k]) = 96 + k
<1> DEFINE c == LowerHex[k]
<1>1. c \in Range(LowerHex)
  BY HexDigitsAre DEF Range
<1>2. c \notin EValueChar /\ c \notin RidChar
  <2>1. c \in LowLetters
    BY DEF LowerHex, LowLetters
  <2> QED BY <2>1, EValueCharIs, RidCharIs DEF TenDigits, HexLetters, LowLetters
<1>3. Place(c, LowerHex) = k
  BY PlaceOfDigit
<1> QED BY <1>1, <1>2, <1>3, AsciiCases

LEMMA AsciiOfMark ==
  ASSUME NEW k \in 1..10
  PROVE  Ascii(OtherChars[k]) = OtherCodes[k]
<1>1. OtherChars[k] \in Range(OtherChars)
  BY HexDigitsAre DEF Range
<1> QED BY <1>1, PlaceOfDigit, AsciiCases

\* No two characters have the same code.
LEMMA AsciiDiffers ==
  ASSUME NEW c \in Char, NEW d \in Char, Ascii(c) = Ascii(d)
  PROVE  c = d
<1> DEFINE Digit(x) == \E k \in 1..16 : x = HexDigits[k]
           Lower(x) == \E k \in 1..6 : x = LowerHex[k]
           Mark(x)  == \E k \in 1..10 : x = OtherChars[k]
<1>1. \A x \in Char : Digit(x) \/ Lower(x) \/ Mark(x)
  <2>1. \A x \in TenDigits \cup HexLetters : Digit(x)
    BY DEF HexDigits, TenDigits, HexLetters
  <2>2. \A x \in LowLetters : Lower(x)
    BY DEF LowerHex, LowLetters
  <2>3. \A x \in Marks : Mark(x)
    BY DEF OtherChars, Marks
  <2> QED BY <2>1, <2>2, <2>3, CharIs
<1>2. ASSUME NEW x, Digit(x)
      PROVE  Ascii(x) \in 48..57 \cup 65..70
  BY <1>2, AsciiOfDigit
<1>3. ASSUME NEW x, Lower(x)
      PROVE  Ascii(x) \in 97..102
  BY <1>3, AsciiOfLower
<1>4. ASSUME NEW x, Mark(x)
      PROVE  Ascii(x) \in {32, 34, 35, 42, 46, 58, 61, 82, 95, 114}
  <2>1. \A k \in 1..10 : OtherCodes[k] \in {32, 34, 35, 42, 46, 58, 61, 82, 95, 114}
    BY DEF OtherCodes
  <2> QED BY <1>4, <2>1, AsciiOfMark
<1>5. CASE Digit(c) /\ Digit(d)
  <2>1. PICK i \in 1..16 : c = HexDigits[i]
    BY <1>5
  <2>2. PICK j \in 1..16 : d = HexDigits[j]
    BY <1>5
  <2>3. /\ Ascii(c) = IF i <= 10 THEN 47 + i ELSE 54 + i
        /\ Ascii(d) = IF j <= 10 THEN 47 + j ELSE 54 + j
    BY <2>1, <2>2, AsciiOfDigit
  <2>4. (IF i <= 10 THEN 47 + i ELSE 54 + i) = (IF j <= 10 THEN 47 + j ELSE 54 + j) => i = j
    OBVIOUS
  <2> QED BY <2>1, <2>2, <2>3, <2>4
<1>6. CASE Lower(c) /\ Lower(d)
  BY <1>6, AsciiOfLower
<1>7. CASE Mark(c) /\ Mark(d)
  BY <1>7, AsciiOfMark, DigitsDiffer
<1> HIDE DEF Digit, Lower, Mark
<1>8. CASE ~ ((Digit(c) /\ Digit(d)) \/ (Lower(c) /\ Lower(d)) \/ (Mark(c) /\ Mark(d)))
  BY <1>1, <1>2, <1>3, <1>4, <1>8
<1> QED BY <1>5, <1>6, <1>7, <1>8

LEMMA OfAsciiInverts ==
  ASSUME NEW c \in Char
  PROVE  OfAscii(Ascii(c)) = c
BY AsciiDiffers DEF OfAscii

LEMMA AsciiType ==
  ASSUME NEW c \in Char
  PROVE  Ascii(c) \in 0..127
<1>1. CASE \E k \in 1..16 : c = HexDigits[k]
  BY <1>1, AsciiOfDigit
<1>2. CASE \E k \in 1..6 : c = LowerHex[k]
  BY <1>2, AsciiOfLower
<1>3. CASE \E k \in 1..10 : c = OtherChars[k]
  <2>1. \A k \in 1..10 : OtherCodes[k] \in 0..127
    BY DEF OtherCodes
  <2> QED BY <1>3, <2>1, AsciiOfMark
<1>4. \/ \E k \in 1..16 : c = HexDigits[k]
      \/ \E k \in 1..6 : c = LowerHex[k]
      \/ \E k \in 1..10 : c = OtherChars[k]
  <2>1. \A x \in TenDigits \cup HexLetters : \E k \in 1..16 : x = HexDigits[k]
    BY DEF HexDigits, TenDigits, HexLetters
  <2>2. \A x \in LowLetters : \E k \in 1..6 : x = LowerHex[k]
    BY DEF LowerHex, LowLetters
  <2>3. \A x \in Marks : \E k \in 1..10 : x = OtherChars[k]
    BY DEF OtherChars, Marks
  <2> QED BY <2>1, <2>2, <2>3, CharIs
<1> QED BY <1>1, <1>2, <1>3, <1>4
-----------------------------------------------------------------------------
(***************************************************************************)
(* The digits of an id.                                                    *)
(***************************************************************************)
LastDigit(n) == HexDigits[(n % 10) + 1]

LEMMA LastDigitIs ==
  ASSUME NEW n \in Nat
  PROVE  LastDigit(n) \in RidChar /\ Ascii(LastDigit(n)) = 48 + (n % 10)
<1> DEFINE k == (n % 10) + 1
<1>1. k \in 1..16 /\ k <= 10 /\ 47 + k = 48 + (n % 10)
  OBVIOUS
<1>2. LastDigit(n) = HexDigits[k]
  BY DEF LastDigit
<1> HIDE DEF k
<1>3. HexDigits[k] \in RidChar
  BY <1>1, RidCharDigits
<1>4. Ascii(HexDigits[k]) = 47 + k
  BY <1>1, AsciiOfDigit
<1> QED BY <1>1, <1>2, <1>3, <1>4

LEMMA MaxReqIdType == MaxReqId \in Nat /\ ReqIdSize \in Nat /\ MaxReqId > 0 /\ ReqIdSize > 0
BY ReqTextAssumption

\* The text of an id is its last digit behind the text of the others.
LEMMA TextOfIdIs ==
  ASSUME NEW n \in 0..MaxReqId
  PROVE  /\ n < 10 => TextOfId[n] = <<LastDigit(n)>>
         /\ n >= 10 => TextOfId[n] = Append(TextOfId[n \div 10], LastDigit(n))
         /\ TextOfId[n] \in Seq(RidChar) /\ Len(TextOfId[n]) > 0
<1> DEFINE D == 0..MaxReqId
           first == [i \in D |-> <<LastDigit(i)>>]
           from  == [i \in D |-> IF i < 10 THEN -1 ELSE i \div 10]
           step  == [i \in D |-> [x \in Seq(RidChar) |-> Append(x, LastDigit(i))]]
<1>1. \A i \in D : LastDigit(i) \in RidChar
  BY LastDigitIs
<1>2. first \in [D -> Seq(RidChar)]
  <2> SUFFICES ASSUME NEW i \in D PROVE <<LastDigit(i)>> \in Seq(RidChar)
    OBVIOUS
  <2> QED BY <1>1
<1>3. step \in [D -> [Seq(RidChar) -> Seq(RidChar)]]
  <2> SUFFICES ASSUME NEW i \in D, NEW x \in Seq(RidChar)
               PROVE  Append(x, LastDigit(i)) \in Seq(RidChar)
    OBVIOUS
  <2> QED BY <1>1
<1>4. ASSUME NEW i \in D, i >= 10 PROVE i \div 10 \in 0 .. i - 1
  BY <1>4
<1>5. \A i \in D : /\ first[i] = <<LastDigit(i)>>
                   /\ from[i] = IF i < 10 THEN -1 ELSE i \div 10
                   /\ \A x \in Seq(RidChar) : step[i][x] = Append(x, LastDigit(i))
  OBVIOUS
<1> HIDE DEF first, from, step
<1>6. PICK f \in [D -> Seq(RidChar)] : Ascends(f, 0, MaxReqId, first, from, step)
  <2>1. 0 \in Int /\ MaxReqId \in Int
    BY MaxReqIdType
  <2> QED BY <1>2, <1>3, <2>1, RecursionUp
<1> DEFINE Body(g, i) == IF i < 10 THEN <<HexDigits[i + 1]>>
                         ELSE Append(g[i \div 10], HexDigits[(i % 10) + 1])
           R(g) == g = [i \in 0..MaxReqId |-> Body(g, i)]
<1>7. ASSUME NEW i \in D PROVE f[i] = Body(f, i)
  <2>0. i \in Nat /\ f[i] = IF from[i] \in 0 .. i - 1 THEN step[i][f[from[i]]] ELSE first[i]
    BY <1>6, MaxReqIdType DEF Ascends
  <2>1. CASE i < 10
    <3>1. from[i] = -1
      BY <1>5, <2>1
    <3>2. ~ (from[i] \in 0 .. i - 1)
      BY <3>1
    <3>3. i % 10 = i
      BY <2>0, <2>1
    <3>4. f[i] = <<LastDigit(i)>>
      BY <1>5, <2>0, <3>2
    <3> QED BY <2>1, <3>3, <3>4 DEF LastDigit
  <2>2. CASE i >= 10
    <3>1. from[i] = i \div 10
      BY <1>5, <2>0, <2>2
    <3>2. i \div 10 \in 0 .. i - 1 /\ i \div 10 \in D
      BY <1>4, <2>0, <2>2, MaxReqIdType
    <3>3. f[i \div 10] \in Seq(RidChar)
      BY <3>2
    <3>4. f[i] = Append(f[i \div 10], LastDigit(i))
      BY <1>5, <2>0, <3>1, <3>2, <3>3
    <3>5. ~ (i < 10)
      BY <2>0, <2>2
    <3> QED BY <3>4, <3>5 DEF LastDigit
  <2> QED BY <2>0, <2>1, <2>2
<1>8. TextOfId = CHOOSE g : R(g)
  BY DEF TextOfId
<1> HIDE DEF Body
<1>a. R(f)
  BY <1>7
<1> HIDE DEF R
<1>9. R(TextOfId)
  BY <1>8, <1>a, Zenon
<1>10. \A i \in D : TextOfId[i] = Body(TextOfId, i)
  BY <1>9 DEF R
<1>11. ASSUME NEW i \in D, i < 10 PROVE TextOfId[i] = <<LastDigit(i)>>
  <2>0. i \in Nat
    BY MaxReqIdType
  <2>1. i % 10 = i
    BY <1>11, <2>0
  <2> QED BY <1>10, <1>11, <2>1 DEF Body, LastDigit
<1>12. ASSUME NEW i \in D, i >= 10
       PROVE  TextOfId[i] = Append(TextOfId[i \div 10], LastDigit(i))
  <2>1. ~ (i < 10)
    BY <1>12, MaxReqIdType
  <2> QED BY <1>10, <2>1 DEF Body, LastDigit
<1>13. TextOfId[n] \in Seq(RidChar) /\ Len(TextOfId[n]) > 0
  <2> DEFINE S == {k \in Nat : k <= MaxReqId =>
                     TextOfId[k] \in Seq(RidChar) /\ Len(TextOfId[k]) > 0}
  <2>1. ASSUME NEW k \in Nat, \A m \in Nat : m < k => m \in S PROVE k \in S
    <3> SUFFICES ASSUME k <= MaxReqId
                 PROVE  TextOfId[k] \in Seq(RidChar) /\ Len(TextOfId[k]) > 0
      OBVIOUS
    <3>1. k \in D
      BY MaxReqIdType
    <3>2. CASE k < 10
      <4>1. TextOfId[k] = <<LastDigit(k)>>
        BY <1>11, <3>1, <3>2
      <4> QED BY <1>1, <3>1, <4>1
    <3>3. CASE k >= 10
      <4>1. TextOfId[k] = Append(TextOfId[k \div 10], LastDigit(k))
        BY <1>12, <3>1, <3>3
      <4>2. k \div 10 \in 0 .. k - 1
        BY <1>4, <3>1, <3>3
      <4>3. k \div 10 \in Nat /\ k \div 10 < k /\ k \div 10 <= MaxReqId
        BY <4>2, MaxReqIdType
      <4>4. TextOfId[k \div 10] \in Seq(RidChar)
        BY <2>1, <4>3
      <4> QED BY <1>1, <3>1, <4>1, <4>4
    <3> QED BY <3>2, <3>3
  <2> HIDE DEF S
  <2>2. \A k \in Nat : k \in S
    BY <2>1, StrongInduction
  <2> QED BY <2>2 DEF S
<1> QED BY <1>11, <1>12, <1>13

\* The number that the first digits are read as, one digit after the other.
LEMMA NumbersAre ==
  ASSUME NEW t \in Seq(Char)
  PROVE  /\ Numbers(t)[0] = 0
         /\ \A i \in 1 .. Len(t) : Numbers(t)[i] = 10 * Numbers(t)[i - 1] + Ascii(t[i]) - 48
         /\ \A i \in 0 .. Len(t) : Numbers(t)[i] \in Int
<1> DEFINE n == Len(t)
           D == 0..n
           first == [i \in D |-> 0]
           from  == [i \in D |-> i - 1]
           step  == [i \in D |-> [x \in Int |-> IF i = 0 THEN 0 ELSE 10 * x + Ascii(t[i]) - 48]]
<1>0. n \in Nat /\ n \in Int /\ 0 \in Int
  OBVIOUS
<1>a. ASSUME NEW i \in 1..n PROVE Ascii(t[i]) \in Int
  <2>1. t[i] \in Char
    OBVIOUS
  <2>2. Ascii(t[i]) \in 0..127
    BY <2>1, AsciiType
  <2> HIDE DEF n
  <2>3. \A a \in 0..127 : a \in Int
    OBVIOUS
  <2> QED BY <2>2, <2>3, Zenon
<1>n. n = Len(t)
  OBVIOUS
<1> HIDE DEF n
<1>1. first \in [D -> Int] /\ 0 \in Int
  OBVIOUS
<1>2. step \in [D -> [Int -> Int]]
  <2> SUFFICES ASSUME NEW i \in D, NEW x \in Int
               PROVE  (IF i = 0 THEN 0 ELSE 10 * x + Ascii(t[i]) - 48) \in Int
    OBVIOUS
  <2>1. CASE i = 0
    BY <2>1
  <2>2. CASE i # 0
    <3>1. i \in 1..n
      BY <1>0, <2>2
    <3>2. Ascii(t[i]) \in Int
      BY <1>a, <3>1
    <3> QED BY <2>2, <3>2
  <2> QED BY <2>1, <2>2
<1>3. \A i \in D : /\ first[i] = 0 /\ from[i] = i - 1
                   /\ \A x \in Int : step[i][x] = IF i = 0 THEN 0 ELSE 10 * x + Ascii(t[i]) - 48
  OBVIOUS
<1> HIDE DEF first, from, step
<1>4. PICK f \in [D -> Int] : Ascends(f, 0, n, first, from, step)
  BY <1>0, <1>1, <1>2, RecursionUp
<1> DEFINE Body(g, i) == IF i = 0 THEN 0 ELSE 10 * g[i - 1] + Ascii(t[i]) - 48
           R(g) == g = [i \in 0 .. Len(t) |-> Body(g, i)]
<1>5. ASSUME NEW i \in D PROVE f[i] = Body(f, i)
  <2>0. i \in Nat /\ f[i] = IF from[i] \in 0 .. i - 1 THEN step[i][f[from[i]]] ELSE first[i]
    BY <1>0, <1>4 DEF Ascends
  <2>1. CASE i = 0
    <3>1. from[i] = -1
      BY <1>3, <2>1
    <3>2. ~ (from[i] \in 0 .. i - 1)
      BY <3>1
    <3> QED BY <1>3, <2>0, <2>1, <3>2
  <2>2. CASE i # 0
    <3>1. from[i] = i - 1 /\ i - 1 \in 0 .. i - 1 /\ i - 1 \in D
      BY <1>0, <1>3, <2>0, <2>2
    <3>2. f[i - 1] \in Int
      BY <3>1
    <3>3. f[i] = step[i][f[i - 1]]
      BY <2>0, <3>1
    <3> QED BY <1>3, <2>2, <3>2, <3>3
  <2> QED BY <2>1, <2>2
<1>6. Numbers(t) = CHOOSE g : R(g)
  BY DEF Numbers
<1> HIDE DEF Body
<1>7. R(f)
  BY <1>5, <1>n
<1> HIDE DEF R
<1>8. R(Numbers(t))
  BY <1>6, <1>7, Zenon
<1>9. \A i \in D : Numbers(t)[i] = Body(Numbers(t), i)
  BY <1>8, <1>n DEF R
<1>10. Numbers(t)[0] = 0
  BY <1>0, <1>9 DEF Body
<1>11. ASSUME NEW i \in 1..n
       PROVE  Numbers(t)[i] = 10 * Numbers(t)[i - 1] + Ascii(t[i]) - 48
  <2>1. i \in D /\ i # 0
    BY <1>0
  <2> QED BY <1>9, <2>1 DEF Body
<1>12. \A i \in 0..n : Numbers(t)[i] \in Int
  <2> DEFINE S == {k \in Nat : k <= n => Numbers(t)[k] \in Int}
  <2>1. 0 \in S
    BY <1>10
  <2>2. ASSUME NEW k \in Nat, k \in S PROVE k + 1 \in S
    <3> SUFFICES ASSUME k + 1 <= n PROVE Numbers(t)[k + 1] \in Int
      OBVIOUS
    <3>1. k + 1 \in 1..n /\ (k + 1) - 1 = k /\ Numbers(t)[k] \in Int
      BY <1>0, <2>2
    <3>2. Ascii(t[k + 1]) \in Int
      BY <1>a, <3>1
    <3>3. Numbers(t)[k + 1] = 10 * Numbers(t)[k] + Ascii(t[k + 1]) - 48
      BY <1>11, <3>1
    <3> QED BY <3>1, <3>2, <3>3
  <2> HIDE DEF S
  <2>3. \A k \in Nat : k \in S
    BY <2>1, <2>2, Induction
  <2> QED BY <1>0, <2>3 DEF S
<1> QED BY <1>10, <1>11, <1>12, <1>n

\* Numbers depend on the digits before them only.
LEMMA NumbersOfPrefix ==
  ASSUME NEW s \in Seq(Char), NEW t \in Seq(Char), Len(s) <= Len(t),
         \A i \in 1 .. Len(s) : t[i] = s[i]
  PROVE  \A i \in 0 .. Len(s) : Numbers(t)[i] = Numbers(s)[i]
<1> DEFINE S == {k \in Nat : k <= Len(s) => Numbers(t)[k] = Numbers(s)[k]}
<1>1. 0 \in S
  BY NumbersAre
<1>2. ASSUME NEW k \in Nat, k \in S PROVE k + 1 \in S
  <2> SUFFICES ASSUME k + 1 <= Len(s) PROVE Numbers(t)[k + 1] = Numbers(s)[k + 1]
    OBVIOUS
  <2>1. /\ k + 1 \in 1 .. Len(s) /\ k + 1 \in 1 .. Len(t) /\ (k + 1) - 1 = k
        /\ Numbers(t)[k] = Numbers(s)[k]
    BY <1>2
  <2>2. Numbers(t)[k + 1] = 10 * Numbers(t)[k] + Ascii(t[k + 1]) - 48
    BY <2>1, NumbersAre
  <2>3. Numbers(s)[k + 1] = 10 * Numbers(s)[k] + Ascii(s[k + 1]) - 48
    BY <2>1, NumbersAre
  <2> QED BY <2>1, <2>2, <2>3
<1> HIDE DEF S
<1>3. \A k \in Nat : k \in S
  BY <1>1, <1>2, Induction
<1> QED BY <1>3 DEF S

LEMMA RidCharIsChar == RidChar \subseteq Char /\ EValueChar \subseteq Char
BY RidCharIs, EValueCharIs, CharIs

\* The text of an id is read as that id.
LEMMA IdIsRead ==
  ASSUME NEW n \in 0..MaxReqId
  PROVE  IdOfText(TextOfId[n]) = n
<1> DEFINE V(t) == Numbers(t)[Len(t)]
           S == {k \in Nat : k <= MaxReqId => V(TextOfId[k]) = k}
<1>1. ASSUME NEW k \in Nat, \A m \in Nat : m < k => m \in S PROVE k \in S
  <2> SUFFICES ASSUME k <= MaxReqId PROVE V(TextOfId[k]) = k
    OBVIOUS
  <2>0. k \in 0..MaxReqId
    BY MaxReqIdType
  <2> DEFINE t == TextOfId[k]
  <2>1. t \in Seq(Char)
    BY <2>0, TextOfIdIs, RidCharIsChar
  <2>2. CASE k < 10
    <3>1. t = <<LastDigit(k)>>
      BY <2>0, <2>2, TextOfIdIs
    <3>2. Len(t) = 1 /\ t[1] = LastDigit(k)
      BY <3>1
    <3> HIDE DEF t
    <3>3. Numbers(t)[1] = 10 * Numbers(t)[0] + Ascii(t[1]) - 48 /\ Numbers(t)[0] = 0
      <4>1. 1 \in 1 .. Len(t) /\ 1 - 1 = 0
        BY <3>2
      <4>2. Numbers(t)[1] = 10 * Numbers(t)[1 - 1] + Ascii(t[1]) - 48
        BY <2>1, <4>1, NumbersAre
      <4> QED BY <2>1, <4>1, <4>2, NumbersAre
    <3>4. Ascii(LastDigit(k)) = 48 + k
      <4>1. k % 10 = k
        BY <2>2
      <4> QED BY <4>1, LastDigitIs
    <3>5. Numbers(t)[1] = k
      BY <3>2, <3>3, <3>4
    <3> QED BY <3>2, <3>5 DEF t
  <2>3. CASE k >= 10
    <3> DEFINE s == TextOfId[k \div 10]
    <3>1. k \div 10 \in 0..MaxReqId /\ k \div 10 < k /\ k \div 10 \in Nat
      BY <2>3, MaxReqIdType
    <3>2. s \in Seq(RidChar) /\ s \in Seq(Char)
      BY <3>1, TextOfIdIs, RidCharIsChar
    <3>3. V(s) = k \div 10
      <4>1. k \div 10 \in S
        BY <1>1, <3>1
      <4> QED BY <3>1, <4>1
    <3>4. t = Append(s, LastDigit(k))
      BY <2>0, <2>3, TextOfIdIs
    <3>5. LastDigit(k) \in RidChar
      BY LastDigitIs
    <3>6. /\ Len(t) = Len(s) + 1 /\ Len(s) \in Nat /\ t[Len(t)] = LastDigit(k)
          /\ \A i \in 1 .. Len(s) : t[i] = s[i]
      BY <3>2, <3>4, <3>5
    <3> HIDE DEF t, s
    <3>7. Numbers(t)[Len(s)] = Numbers(s)[Len(s)]
      <4>1. Len(s) <= Len(t) /\ Len(s) \in 0 .. Len(s)
        BY <3>6
      <4> QED BY <2>1, <3>2, <3>6, <4>1, NumbersOfPrefix
    <3>8. Numbers(t)[Len(t)] = 10 * Numbers(t)[Len(s)] + Ascii(t[Len(t)]) - 48
      <4>1. Len(t) \in 1 .. Len(t) /\ Len(t) - 1 = Len(s)
        BY <3>6
      <4>2. Numbers(t)[Len(t)] = 10 * Numbers(t)[Len(t) - 1] + Ascii(t[Len(t)]) - 48
        BY <2>1, <4>1, NumbersAre
      <4> QED BY <4>1, <4>2
    <3>9. Ascii(t[Len(t)]) = 48 + (k % 10)
      BY <3>6, LastDigitIs
    <3>10. Numbers(t)[Len(t)] = 10 * (k \div 10) + (48 + (k % 10)) - 48
      BY <3>3, <3>7, <3>8, <3>9
    <3>11. 10 * (k \div 10) + (48 + (k % 10)) - 48 = k
      OBVIOUS
    <3> QED BY <3>10, <3>11 DEF t
  <2> QED BY <2>2, <2>3
<1> HIDE DEF S
<1>2. \A k \in Nat : k \in S
  BY <1>1, StrongInduction
<1>3. n \in Nat /\ n <= MaxReqId
  BY MaxReqIdType
<1>4. Numbers(TextOfId[n])[Len(TextOfId[n])] = n
  BY <1>2, <1>3 DEF S
<1>5. n % (MaxReqId + 1) = n
  BY <1>3, MaxReqIdType
<1> QED BY <1>4, <1>5 DEF IdOfText

\* A larger id has no shorter text.
LEMMA IdSizes ==
  ASSUME NEW n \in 0..MaxReqId
  PROVE  Len(TextOfId[n]) \in 1..ReqIdSize
<1> DEFINE S == {k \in Nat : \A m \in 0..k : k <= MaxReqId =>
                               Len(TextOfId[m]) <= Len(TextOfId[k])}
<1>0. \A k \in 0..MaxReqId : Len(TextOfId[k]) \in Nat /\ Len(TextOfId[k]) > 0
  <2> SUFFICES ASSUME NEW k \in 0..MaxReqId
               PROVE  Len(TextOfId[k]) \in Nat /\ Len(TextOfId[k]) > 0
    OBVIOUS
  <2>1. TextOfId[k] \in Seq(RidChar) /\ Len(TextOfId[k]) > 0
    BY TextOfIdIs
  <2> QED BY <2>1
<1>1. ASSUME NEW k \in 0..MaxReqId
      PROVE  /\ k < 10 => Len(TextOfId[k]) = 1
             /\ k >= 10 => Len(TextOfId[k]) = Len(TextOfId[k \div 10]) + 1
  <2>1. CASE k < 10
    <3>1. TextOfId[k] = <<LastDigit(k)>>
      BY <2>1, TextOfIdIs
    <3>2. ~ (k >= 10)
      BY <2>1, MaxReqIdType
    <3> QED BY <3>1, <3>2
  <2>2. CASE k >= 10
    <3>1. k \div 10 \in 0..MaxReqId
      BY <2>2, MaxReqIdType
    <3>2. TextOfId[k] = Append(TextOfId[k \div 10], LastDigit(k))
      BY <2>2, TextOfIdIs
    <3>3. TextOfId[k \div 10] \in Seq(RidChar)
      BY <3>1, TextOfIdIs
    <3>4. ~ (k < 10)
      BY <2>2, MaxReqIdType
    <3> QED BY <3>2, <3>3, <3>4
  <2> QED BY <2>1, <2>2, MaxReqIdType
<1>2. ASSUME NEW k \in Nat, \A j \in Nat : j < k => j \in S PROVE k \in S
  <2> SUFFICES ASSUME NEW m \in 0..k, k <= MaxReqId
               PROVE  Len(TextOfId[m]) <= Len(TextOfId[k])
    OBVIOUS
  <2>0. k \in 0..MaxReqId /\ m \in 0..MaxReqId /\ m \in Nat
    BY MaxReqIdType
  <2>1. CASE m < 10
    <3>1. Len(TextOfId[m]) = 1
      BY <1>1, <2>0, <2>1
    <3> QED BY <1>0, <2>0, <3>1
  <2>2. CASE m >= 10
    <3>1. k >= 10 /\ k \div 10 \in Nat /\ k \div 10 < k /\ m \div 10 \in 0 .. k \div 10
      BY <2>0, <2>2
    <3>2. k \div 10 <= MaxReqId
      BY <2>0, <3>1, MaxReqIdType
    <3>3. Len(TextOfId[m \div 10]) <= Len(TextOfId[k \div 10])
      <4>1. k \div 10 \in S
        BY <1>2, <3>1
      <4> QED BY <3>1, <3>2, <4>1
    <3>4. /\ Len(TextOfId[m]) = Len(TextOfId[m \div 10]) + 1
          /\ Len(TextOfId[k]) = Len(TextOfId[k \div 10]) + 1
      BY <1>1, <2>0, <2>2, <3>1
    <3>5. Len(TextOfId[m \div 10]) \in Nat /\ Len(TextOfId[k \div 10]) \in Nat
      <4>1. k \div 10 \in 0..MaxReqId /\ m \div 10 \in 0..MaxReqId
        BY <3>1, <3>2, MaxReqIdType
      <4> QED BY <1>0, <4>1
    <3> QED BY <3>3, <3>4, <3>5
  <2> QED BY <2>0, <2>1, <2>2
<1> HIDE DEF S
<1>3. \A k \in Nat : k \in S
  BY <1>2, StrongInduction
<1>4. Len(TextOfId[n]) <= Len(TextOfId[MaxReqId])
  <2>1. MaxReqId \in S
    BY <1>3, MaxReqIdType
  <2> QED BY <2>1, MaxReqIdType DEF S
<1>5. Len(TextOfId[MaxReqId]) = ReqIdSize
  BY ReqIdSizeAssumption
<1> QED BY <1>0, <1>4, <1>5, MaxReqIdType
-----------------------------------------------------------------------------
(***************************************************************************)
(* Runs of characters.                                                     *)
(***************************************************************************)

LEMMA AtIs ==
  ASSUME NEW A, NEW t \in Seq(A), NEW i \in Int
  PROVE  /\ i \in 1 .. Len(t) => At(t, i) = t[i] /\ At(t, i) \in A
         /\ i \notin 1 .. Len(t) => At(t, i) = End
BY DEF At

\* A run of characters ends behind the last of them, at the latest at the end.
LEMMA RunEndIs ==
  ASSUME NEW A, NEW t \in Seq(A), NEW i \in 1 .. Len(t) + 1, NEW class, End \notin class
  PROVE  /\ RunEnd(t, i, class) \in i .. Len(t) + 1
         /\ At(t, RunEnd(t, i, class)) \notin class
         /\ \A j \in i .. RunEnd(t, i, class) - 1 : j \in 1 .. Len(t) /\ t[j] \in class
<1> DEFINE S == { j \in i .. Len(t) + 1 : At(t, j) \notin class }
<1>0. Len(t) \in Nat /\ i \in Nat
  OBVIOUS
<1>1. Len(t) + 1 \in S
  <2>1. At(t, Len(t) + 1) = End
    BY <1>0 DEF At
  <2> QED BY <1>0, <2>1
<1>2. S \subseteq Nat /\ S # {}
  BY <1>0, <1>1
<1>3. RunEnd(t, i, class) = Min(S)
  BY DEF RunEnd
<1>4. \A j \in i .. Len(t) : At(t, j) \notin class => j \in S
  BY <1>0
<1>5. \A j \in S : j \in i .. Len(t) + 1 /\ At(t, j) \notin class
  OBVIOUS
<1> HIDE DEF S
<1>6. Min(S) \in S /\ \A x \in S : Min(S) <= x
  BY <1>2, MinExists
<1> DEFINE m == Min(S)
<1>7. m \in i .. Len(t) + 1 /\ At(t, m) \notin class
  BY <1>5, <1>6
<1>8. \A x \in S : m <= x
  BY <1>6
<1> HIDE DEF m
<1>9. ASSUME NEW j \in i .. m - 1 PROVE j \in 1 .. Len(t) /\ t[j] \in class
  <2>1. j \in i .. Len(t) /\ j \in 1 .. Len(t) /\ ~ (m <= j)
    BY <1>0, <1>7
  <2>2. At(t, j) \in class
    BY <1>4, <1>8, <2>1
  <2>3. At(t, j) = t[j]
    BY <1>0, <2>1 DEF At
  <2> QED BY <2>1, <2>2, <2>3
<1> QED BY <1>3, <1>7, <1>9 DEF m

\* Where a word of characters of the class occurs, and another follows, it is the run.
LEMMA RunOfWord ==
  ASSUME NEW t \in Seq(Char), NEW p \in Nat \ {0}, NEW class, End \notin class,
         NEW s \in Seq(class), class \subseteq Char, Occurs(s, t, p),
         At(t, p + Len(s)) \notin class
  PROVE  RunEnd(t, p, class) = p + Len(s) /\ Run(t, p, class) = s
<1> DEFINE q == RunEnd(t, p, class)
           e == p + Len(s)
<1>1. Len(s) \in Nat /\ Len(t) \in Nat /\ e \in p .. Len(t) + 1 /\ p \in 1 .. Len(t) + 1
  BY DEF Occurs
<1>2. /\ q \in p .. Len(t) + 1 /\ At(t, q) \notin class
      /\ \A j \in p .. q - 1 : j \in 1 .. Len(t) /\ t[j] \in class
  BY <1>1, RunEndIs
<1>3. \A k \in 1 .. Len(s) : t[p + k - 1] = s[k] /\ s[k] \in class
  BY DEF Occurs
<1>4. e = p + Len(s)
  OBVIOUS
<1>5. At(t, e) \notin class
  OBVIOUS
<1> HIDE DEF q, e
<1>6. ~ (q < e)
  <2> SUFFICES ASSUME q < e PROVE FALSE
    OBVIOUS
  <2> DEFINE k == q - p + 1
  <2>1. k \in 1 .. Len(s) /\ p + k - 1 = q /\ q \in 1 .. Len(t)
    BY <1>1, <1>2, <1>4
  <2> HIDE DEF k
  <2>2. t[q] \in class
    BY <1>3, <2>1
  <2>3. At(t, q) = t[q]
    BY <2>1, AtIs
  <2> QED BY <1>2, <2>2, <2>3
<1>7. ~ (e < q)
  <2> SUFFICES ASSUME e < q PROVE FALSE
    OBVIOUS
  <2>1. e \in p .. q - 1
    BY <1>1, <1>2
  <2>2. e \in 1 .. Len(t) /\ t[e] \in class
    BY <1>2, <2>1
  <2>3. At(t, e) = t[e]
    BY <2>2, AtIs
  <2> QED BY <1>5, <2>2, <2>3
<1>8. q = e
  BY <1>1, <1>2, <1>6, <1>7
<1>9. s \in Seq(Char)
  OBVIOUS
<1>10. SubSeq(t, p, p + Len(s) - 1) = s
  BY <1>9, OccursSubSeq
<1>11. Run(t, p, class) = SubSeq(t, p, q - 1)
  BY DEF Run, q
<1> QED BY <1>4, <1>8, <1>10, <1>11 DEF q
-----------------------------------------------------------------------------
(***************************************************************************)
(* Encoded values.                                                         *)
(***************************************************************************)

LEMMA HexValueIs ==
  ASSUME NEW k \in 0..15
  PROVE  /\ HexDigits[k + 1] \in EValueChar /\ IsHex(HexDigits[k + 1])
         /\ HexValue(HexDigits[k + 1]) = k
<1> DEFINE m == k + 1
<1>1. m \in 1..16 /\ (m <= 10 => 47 + m - 48 = k) /\ (~ (m <= 10) => 54 + m - 55 = k)
  OBVIOUS
<1> HIDE DEF m
<1>2. HexDigits[m] \in EValueChar /\ (HexDigits[m] \in RidChar <=> m <= 10)
  BY <1>1, RidCharDigits
<1>3. IsHex(HexDigits[m])
  BY <1>2, EValueCharIs, HexLikeIs DEF IsHex, HexLike
<1>4. Ascii(HexDigits[m]) = IF m <= 10 THEN 47 + m ELSE 54 + m
  BY <1>1, AsciiOfDigit
<1>5. HexValue(HexDigits[m]) = k
  <2>1. CASE m <= 10
    BY <1>1, <1>2, <1>4, <2>1 DEF HexValue
  <2>2. CASE ~ (m <= 10)
    BY <1>1, <1>2, <1>4, <2>2 DEF HexValue
  <2> QED BY <2>1, <2>2
<1> QED BY <1>2, <1>3, <1>5 DEF m

\* The two digits of a byte.
TwoDigits(c) == <<HexDigits[(Ascii(c) \div 16) + 1], HexDigits[(Ascii(c) % 16) + 1]>>

LEMMA TwoDigitsAre ==
  ASSUME NEW c \in Char
  PROVE  /\ TwoDigits(c) \in Seq(EValueChar) /\ Len(TwoDigits(c)) = 2
         /\ IsHex(TwoDigits(c)[1])
         /\ OfAscii(Byte(TwoDigits(c)[1], TwoDigits(c)[2])) = c
<1> DEFINE a == Ascii(c)
           h == HexDigits[(a \div 16) + 1]
           l == HexDigits[(a % 16) + 1]
<1>1. a \in 0..127
  BY AsciiType
<1> HIDE DEF a
<1>2. a \div 16 \in 0..15 /\ a % 16 \in 0..15 /\ 16 * (a \div 16) + (a % 16) = a
  BY <1>1
<1>3. h \in EValueChar /\ IsHex(h) /\ HexValue(h) = a \div 16
  <2> DEFINE k == a \div 16
  <2>1. k \in 0..15
    BY <1>2
  <2> HIDE DEF k
  <2>2. HexDigits[k + 1] \in EValueChar /\ IsHex(HexDigits[k + 1]) /\ HexValue(HexDigits[k + 1]) = k
    BY <2>1, HexValueIs
  <2> QED BY <2>2 DEF k
<1>4. l \in EValueChar /\ IsHex(l) /\ HexValue(l) = a % 16
  <2> DEFINE k == a % 16
  <2>1. k \in 0..15
    BY <1>2
  <2> HIDE DEF k
  <2>2. HexDigits[k + 1] \in EValueChar /\ IsHex(HexDigits[k + 1]) /\ HexValue(HexDigits[k + 1]) = k
    BY <2>1, HexValueIs
  <2> QED BY <2>2 DEF k
<1>5. TwoDigits(c) = <<h, l>>
  BY DEF TwoDigits, a
<1> HIDE DEF h, l
<1>6. TwoDigits(c)[1] = h /\ TwoDigits(c)[2] = l /\ Len(TwoDigits(c)) = 2
  BY <1>5
<1>7. TwoDigits(c) \in Seq(EValueChar)
  BY <1>3, <1>4, <1>5
<1>8. Byte(h, l) = a
  BY <1>2, <1>3, <1>4 DEF Byte
<1>9. OfAscii(a) = c
  BY OfAsciiInverts DEF a
<1> QED BY <1>3, <1>6, <1>7, <1>8, <1>9

\* What is encoded is decoded to the same value.
Digits(v) == FlattenSeq([i \in DOMAIN v |-> TwoDigits(v[i])])

LEMMA EncodedDecodes ==
  ASSUME NEW v \in Seq(Char)
  PROVE  /\ nvp_value_encode(v) = <<"#">> \o Digits(v)
         /\ Digits(v) \in Seq(EValueChar) /\ Len(Digits(v)) = 2 * Len(v)
         /\ nvp_value_decode(Digits(v)) = Is(v)
<1> DEFINE n == Len(v)
           ss == [i \in 1..n |-> TwoDigits(v[i])]
           h == FlattenSeq(ss)
<1>0. n \in Nat /\ DOMAIN v = 1..n /\ \A i \in 1..n : v[i] \in Char
  OBVIOUS
<1>v. v = [i \in 1..n |-> v[i]]
  BY <1>0
<1>1. nvp_value_encode(v) = <<"#">> \o h /\ Digits(v) = h
  BY <1>0 DEF nvp_value_encode, TwoDigits, Digits
<1> HIDE DEF n
<1>2. ss \in Seq(Seq(EValueChar)) /\ Len(ss) = n
  <2>1. \A i \in 1..n : TwoDigits(v[i]) \in Seq(EValueChar)
    BY <1>0, TwoDigitsAre
  <2>2. ss \in [1..n -> Seq(EValueChar)]
    BY <2>1
  <2> HIDE DEF ss
  <2> QED BY <1>0, <2>2
<1>3. ASSUME NEW i \in 1..n
      PROVE  Len(ss[i]) = 2 /\ IsHex(ss[i][1]) /\ OfAscii(Byte(ss[i][1], ss[i][2])) = v[i]
  <2>1. ss[i] = TwoDigits(v[i]) /\ v[i] \in Char
    BY <1>0
  <2> HIDE DEF ss
  <2> QED BY <2>1, TwoDigitsAre
<1> HIDE DEF ss
<1>4. h \in Seq(EValueChar)
  BY <1>2, FlattenType
<1>5. Len(h) = 2 * n /\ \A i \in 1..n : h[2 * i - 1] = ss[i][1] /\ h[2 * i] = ss[i][2]
  BY <1>2, <1>3, FlattenTwos
<1> HIDE DEF h
<1>6. Len(h) % 2 = 0 /\ Len(h) \div 2 = n
  BY <1>0, <1>5
<1>7. \A i \in 1..n : IsHex(h[2 * i - 1]) /\ OfAscii(Byte(h[2 * i - 1], h[2 * i])) = v[i]
  BY <1>3, <1>5
<1>8. nvp_value_decode(h) = Is([i \in 1..n |-> OfAscii(Byte(h[2 * i - 1], h[2 * i]))])
  <2>1. nvp_value_decode(h) =
          IF Len(h) % 2 = 1 \/ \E i \in 1..n : ~IsHex(h[2 * i - 1]) THEN Fails
          ELSE Is([i \in 1..n |-> OfAscii(Byte(h[2 * i - 1], h[2 * i]))])
    BY <1>6, Zenon DEF nvp_value_decode
  <2>2. ~ (Len(h) % 2 = 1) /\ ~ \E i \in 1..n : ~IsHex(h[2 * i - 1])
    BY <1>6, <1>7
  <2> QED BY <2>1, <2>2, Zenon
<1>9. [i \in 1..n |-> OfAscii(Byte(h[2 * i - 1], h[2 * i]))] = v
  BY <1>7, <1>v
<1> QED BY <1>1, <1>4, <1>5, <1>8, <1>9 DEF n
-----------------------------------------------------------------------------
(***************************************************************************)
(* What a request is written as.                                           *)
(***************************************************************************)

LEMMA Classes ==
  /\ RidChar \subseteq EValueChar /\ EValueChar \subseteq ValueChar
  /\ RidChar \subseteq Char /\ ModChar \subseteq Char /\ NameChar \subseteq Char
  /\ CodeChar \subseteq Char /\ ValueChar \subseteq QValueChar /\ QValueChar \subseteq Char
  /\ "space" \in Char /\ "quote" \in Char /\ "=" \in Char /\ "#" \in Char /\ "R" \in Char
  /\ \A class \in {RidChar, ReplyChar, ModChar, CodeChar, NameChar, ValueChar} :
       "space" \notin class
  /\ "quote" \notin QValueChar /\ "=" \notin NameChar /\ "#" \notin ValueChar
  /\ End \notin Char /\ "R" \in ReplyChar /\ "R" \notin RidChar
<1>1. /\ ModChar = HexLike \cup {"R", "r"} /\ NameChar = HexLike \cup {"R", "r"}
      /\ CodeChar = HexLike \cup {"R", "r", ".", "under"}
      /\ ValueChar = HexLike \cup {"R", "r", ".", "under", ":"}
      /\ QValueChar = HexLike \cup {"R", "r", ".", "under", ":", "space"}
      /\ ReplyChar = {"R", "r"}
  BY AlnumIs DEF ModChar, NameChar, CodeChar, ValueChar, QValueChar, ReplyChar
<1>2. /\ RidChar \subseteq EValueChar /\ EValueChar \subseteq ValueChar
  BY <1>1, RidCharIs, EValueCharIs DEF HexLike
<1>3. HexLike \subseteq Char
  BY CharIs DEF HexLike
<1>4. {"space", "quote", "=", "#", "R", "r", ".", "under", ":"} \subseteq Char
  BY CharIs DEF Marks
<1>5. \A x \in HexLike : x \notin {"space", "quote", "=", "#", "R"}
  BY DEF HexLike, TenDigits, HexLetters, LowLetters
<1>6. End \notin Char
  BY CharIs DEF End, TenDigits, HexLetters, LowLetters, Marks
<1>7. "R" \notin RidChar /\ "space" \notin RidChar
  BY RidCharIs DEF TenDigits
<1> HIDE DEF HexLike
<1>8. \A class \in {RidChar, ReplyChar, ModChar, CodeChar, NameChar, ValueChar} :
        "space" \notin class
  BY <1>1, <1>5, <1>7
<1>9. "quote" \notin QValueChar /\ "=" \notin NameChar /\ "#" \notin ValueChar
  BY <1>1, <1>5
<1> QED BY <1>1, <1>2, <1>3, <1>4, <1>6, <1>7, <1>8, <1>9

LEMMA FormatOf ==
  ASSUME NEW v \in Seq(Char)
  PROVE  \/ nvp_value_format(v) = "unquoted" /\ v \in Seq(ValueChar)
         \/ nvp_value_format(v) = "quoted" /\ v \in Seq(QValueChar)
         \/ nvp_value_format(v) = "encoded"
<1>1. ASSUME NEW S, Range(v) \subseteq S PROVE v \in Seq(S)
  <2>1. v \in [1 .. Len(v) -> Char] /\ Len(v) \in Nat
    OBVIOUS
  <2>2. \A i \in 1 .. Len(v) : v[i] \in S
    BY <1>1 DEF Range
  <2>3. v \in [1 .. Len(v) -> S]
    BY <2>1, <2>2
  <2> QED BY <2>1, <2>3
<1>2. CASE Range(v) \subseteq ValueChar
  BY <1>1, <1>2 DEF nvp_value_format
<1>3. CASE ~ (Range(v) \subseteq ValueChar) /\ Range(v) \subseteq QValueChar
  BY <1>1, <1>3 DEF nvp_value_format
<1>4. CASE ~ (Range(v) \subseteq ValueChar) /\ ~ (Range(v) \subseteq QValueChar)
  BY <1>4 DEF nvp_value_format
<1> QED BY <1>2, <1>3, <1>4

LEMMA ValueTextIs ==
  ASSUME NEW v \in Seq(Char)
  PROVE  /\ nvp_value_format(v) = "unquoted" => ValueText(v) = v
         /\ nvp_value_format(v) = "quoted" => ValueText(v) = <<"quote">> \o v \o <<"quote">>
         /\ nvp_value_format(v) = "encoded" => ValueText(v) = <<"#">> \o Digits(v)
<1>1. nvp_value_encode(v) = <<"#">> \o Digits(v)
  BY EncodedDecodes
<1>2. nvp_value_format(v) = "unquoted" => ValueText(v) = v
  BY DEF ValueText
<1>3. nvp_value_format(v) = "quoted" => ValueText(v) = <<"quote">> \o v \o <<"quote">>
  BY DEF ValueText
<1>4. nvp_value_format(v) = "encoded" => ValueText(v) = nvp_value_encode(v)
  BY DEF ValueText
<1> QED BY <1>1, <1>2, <1>3, <1>4

\* What of a pair is written, and how many bytes were counted for it: one too
\* few for an encoded value.
PairsOfText == [name : Seq(NameChar) \ {<<>>}, value : Seq(Char)]

Missed(p) == IF nvp_value_format(p.value) = "encoded" THEN 1 ELSE 0

LEMMA PairText ==
  ASSUME NEW p \in PairsOfText
  PROVE  /\ ValueText(p.value) \in Seq(Char)
         /\ req_bin_nvl_insert(p) \in Seq(Char)
         /\ Len(req_bin_nvl_insert(p)) > 0 /\ req_bin_nvl_sum_length(p) \in Nat
         /\ Len(req_bin_nvl_insert(p)) = req_bin_nvl_sum_length(p) + Missed(p)
<1> DEFINE v == p.value
           n == p.name
           d == Digits(v)
           x == ValueText(v)
<1>1. v \in Seq(Char) /\ n \in Seq(Char) /\ n # <<>>
  BY Classes DEF PairsOfText
<1>2. d \in Seq(Char) /\ Len(d) = 2 * Len(v)
  <2>1. d \in Seq(EValueChar) /\ Len(d) = 2 * Len(v)
    BY <1>1, EncodedDecodes
  <2> QED BY <2>1, RidCharIsChar
<1>3. <<"quote">> \in Seq(Char) /\ <<"#">> \in Seq(Char) /\ <<"=">> \in Seq(Char)
      /\ <<"space">> \in Seq(Char)
  BY Classes
<1>v. \/ nvp_value_format(v) = "unquoted"
      \/ nvp_value_format(v) = "quoted"
      \/ nvp_value_format(v) = "encoded"
  BY <1>1, FormatOf
<1>x. /\ nvp_value_format(v) = "unquoted" => x = v
      /\ nvp_value_format(v) = "quoted" => x = <<"quote">> \o v \o <<"quote">>
      /\ nvp_value_format(v) = "encoded" => x = <<"#">> \o d
  BY <1>1, ValueTextIs
<1>t. req_bin_nvl_insert(p) = n \o (IF v = <<>> THEN <<>> ELSE <<"=">> \o x) \o <<"space">>
  BY DEF req_bin_nvl_insert
<1>s. /\ v = <<>> => req_bin_nvl_sum_length(p) = Len(n) + 1
      /\ v # <<>> /\ nvp_value_format(v) = "unquoted" =>
           req_bin_nvl_sum_length(p) = Len(n) + (Len(v) + 2)
      /\ v # <<>> /\ nvp_value_format(v) = "quoted" =>
           req_bin_nvl_sum_length(p) = Len(n) + (Len(v) + 4)
      /\ v # <<>> /\ nvp_value_format(v) = "encoded" =>
           req_bin_nvl_sum_length(p) = Len(n) + (2 * Len(v) + 2)
  <2> DEFINE z == CASE nvp_value_format(v) = "unquoted" -> Len(v) + 2
                    [] nvp_value_format(v) = "quoted" -> Len(v) + 4
                    [] OTHER -> 2 * Len(v) + 1 + 1
  <2>1. req_bin_nvl_sum_length(p) = Len(n) + (IF v = <<>> THEN 1 ELSE z)
    BY DEF req_bin_nvl_sum_length, nvp_value_encoded_size
  <2> HIDE DEF v, n
  <2>2. /\ nvp_value_format(v) = "unquoted" => z = Len(v) + 2
        /\ nvp_value_format(v) = "quoted" => z = Len(v) + 4
        /\ nvp_value_format(v) = "encoded" => z = 2 * Len(v) + 2
    <3>1. Len(v) \in Nat
      BY <1>1 DEF v
    <3>2. CASE nvp_value_format(v) = "unquoted"
      BY <3>2
    <3>3. CASE nvp_value_format(v) = "quoted"
      BY <3>3
    <3>4. CASE nvp_value_format(v) = "encoded"
      BY <3>1, <3>4
    <3> QED BY <1>v, <3>2, <3>3, <3>4 DEF v
  <2> HIDE DEF z
  <2> QED BY <2>1, <2>2
<1> HIDE DEF d, x, v, n
<1>4. /\ x \in Seq(Char)
      /\ nvp_value_format(v) = "unquoted" => Len(x) = Len(v)
      /\ nvp_value_format(v) = "quoted" => Len(x) = Len(v) + 2
      /\ nvp_value_format(v) = "encoded" => Len(x) = 2 * Len(v) + 1
  <2>1. CASE nvp_value_format(v) = "unquoted"
    BY <1>1, <1>x, <2>1
  <2>2. CASE nvp_value_format(v) = "quoted"
    BY <1>1, <1>3, <1>x, <2>2
  <2>3. CASE nvp_value_format(v) = "encoded"
    <3>1. Len(<<"#">> \o d) = 1 + Len(d) /\ <<"#">> \o d \in Seq(Char)
      BY <1>2, <1>3
    <3>2. x = <<"#">> \o d
      BY <1>x, <2>3
    <3>3. Len(v) \in Nat
      BY <1>1
    <3>4. x \in Seq(Char) /\ Len(x) = 2 * Len(v) + 1
      BY <1>2, <3>1, <3>2, <3>3
    <3> QED BY <2>3, <3>4
  <2> QED BY <1>v, <2>1, <2>2, <2>3
<1>5. Len(n) \in Nat /\ Len(v) \in Nat /\ Len(n) > 0
  BY <1>1
<1> DEFINE w == req_bin_nvl_insert(p)
           k == req_bin_nvl_sum_length(p)
<1>6. /\ v = <<>> => w = n \o <<>> \o <<"space">> /\ k = Len(n) + 1
      /\ v # <<>> => w = n \o (<<"=">> \o x) \o <<"space">>
  BY <1>t, <1>s
<1>7. w \in Seq(Char) /\ (v = <<>> => Len(w) = Len(n) + 1)
      /\ (v # <<>> => Len(w) = Len(n) + 1 + Len(x) + 1)
  <2> HIDE DEF w, k
  <2>1. CASE v = <<>>
    BY <1>1, <1>3, <1>6, <2>1
  <2>2. CASE v # <<>>
    <3>1. <<"=">> \o x \in Seq(Char) /\ Len(<<"=">> \o x) = 1 + Len(x)
      BY <1>3, <1>4
    <3> DEFINE y == <<"=">> \o x
    <3>2. w = n \o y \o <<"space">>
      BY <1>6, <2>2
    <3> HIDE DEF y
    <3>3. Len(n \o y) = Len(n) + Len(y) /\ n \o y \in Seq(Char)
      BY <1>1, <3>1 DEF y
    <3> DEFINE ny == n \o y
    <3> HIDE DEF ny
    <3>4. Len(ny \o <<"space">>) = Len(ny) + 1 /\ ny \o <<"space">> \in Seq(Char)
      BY <1>3, <3>3 DEF ny
    <3>5. Len(w) = Len(n) + 1 + Len(x) + 1 /\ w \in Seq(Char)
      BY <1>4, <1>5, <3>1, <3>2, <3>3, <3>4 DEF ny, y
    <3> QED BY <2>2, <3>5
  <2> QED BY <2>1, <2>2
<1> HIDE DEF w, k
<1>m. /\ nvp_value_format(v) = "encoded" => Missed(p) = 1 /\ v # <<>>
      /\ nvp_value_format(v) # "encoded" => Missed(p) = 0
  <2>1. Range(<<>>) \subseteq ValueChar
    BY DEF Range
  <2>2. nvp_value_format(<<>>) = "unquoted"
    BY <2>1 DEF nvp_value_format
  <2> QED BY <2>2 DEF Missed, v
<1>8. k \in Nat /\ Len(w) > 0 /\ Len(w) = k + Missed(p)
  <2>1. CASE v = <<>>
    BY <1>5, <1>6, <1>7, <1>m, <2>1
  <2>2. CASE v # <<>>
    <3>1. CASE nvp_value_format(v) = "unquoted"
      BY <1>4, <1>5, <1>7, <1>m, <1>s, <2>2, <3>1 DEF k
    <3>2. CASE nvp_value_format(v) = "quoted"
      BY <1>4, <1>5, <1>7, <1>m, <1>s, <2>2, <3>2 DEF k
    <3>3. CASE nvp_value_format(v) = "encoded"
      BY <1>4, <1>5, <1>7, <1>m, <1>s, <2>2, <3>3 DEF k
    <3> QED BY <1>v, <3>1, <3>2, <3>3
  <2> QED BY <2>1, <2>2
<1> QED BY <1>4, <1>7, <1>8 DEF w, k, x, v

\* The sums of the sizes of the first pairs.
LEMMA SizesAre ==
  ASSUME NEW nvl \in Seq(PairsOfText)
  PROVE  /\ Sizes(nvl)[0] = 0
         /\ \A i \in 1 .. Len(nvl) :
              Sizes(nvl)[i] = Sizes(nvl)[i - 1] + req_bin_nvl_sum_length(nvl[i])
         /\ \A i \in 0 .. Len(nvl) : Sizes(nvl)[i] \in Nat
<1> DEFINE n == Len(nvl)
           D == 0..n
           z(i) == req_bin_nvl_sum_length(nvl[i])
           first == [i \in D |-> 0]
           from  == [i \in D |-> i - 1]
           step  == [i \in D |-> [x \in Nat |-> IF i = 0 THEN 0 ELSE x + z(i)]]
<1>0. n \in Nat /\ n \in Int /\ 0 \in Int
  OBVIOUS
<1>a. ASSUME NEW i \in 1..n PROVE z(i) \in Nat
  <2>1. nvl[i] \in PairsOfText
    OBVIOUS
  <2> QED BY <2>1, PairText
<1>n. n = Len(nvl)
  OBVIOUS
<1>z. \A i : z(i) = req_bin_nvl_sum_length(nvl[i])
  OBVIOUS
<1> HIDE DEF n, z
<1>1. first \in [D -> Nat]
  OBVIOUS
<1>2. step \in [D -> [Nat -> Nat]]
  <2> SUFFICES ASSUME NEW i \in D, NEW x \in Nat
               PROVE  (IF i = 0 THEN 0 ELSE x + z(i)) \in Nat
    OBVIOUS
  <2>1. i # 0 => i \in 1..n
    BY <1>0
  <2> QED BY <1>a, <2>1
<1>3. \A i \in D : /\ first[i] = 0 /\ from[i] = i - 1
                   /\ \A x \in Nat : step[i][x] = IF i = 0 THEN 0 ELSE x + z(i)
  OBVIOUS
<1> HIDE DEF first, from, step
<1>4. PICK f \in [D -> Nat] : Ascends(f, 0, n, first, from, step)
  BY <1>0, <1>1, <1>2, RecursionUp
<1> DEFINE Body(g, i) == IF i = 0 THEN 0 ELSE g[i - 1] + req_bin_nvl_sum_length(nvl[i])
           R(g) == g = [i \in 0 .. Len(nvl) |-> Body(g, i)]
<1>5. ASSUME NEW i \in D PROVE f[i] = Body(f, i)
  <2>0. i \in Nat /\ f[i] = IF from[i] \in 0 .. i - 1 THEN step[i][f[from[i]]] ELSE first[i]
    BY <1>0, <1>4 DEF Ascends
  <2>1. CASE i = 0
    <3>1. from[i] = -1
      BY <1>3, <2>1
    <3>2. ~ (from[i] \in 0 .. i - 1)
      BY <3>1
    <3> QED BY <1>3, <2>0, <2>1, <3>2
  <2>2. CASE i # 0
    <3>1. from[i] = i - 1 /\ i - 1 \in 0 .. i - 1 /\ i - 1 \in D
      BY <1>0, <1>3, <2>0, <2>2
    <3>2. f[i - 1] \in Nat
      BY <3>1
    <3>3. f[i] = step[i][f[i - 1]]
      BY <2>0, <3>1
    <3> QED BY <1>3, <1>z, <2>2, <3>2, <3>3
  <2> QED BY <2>1, <2>2
<1>6. Sizes(nvl) = CHOOSE g : R(g)
  BY DEF Sizes
<1> HIDE DEF Body
<1>7. R(f)
  BY <1>5, <1>n
<1> HIDE DEF R
<1>8. R(Sizes(nvl))
  BY <1>6, <1>7, Zenon
<1>9. \A i \in D : Sizes(nvl)[i] = Body(Sizes(nvl), i)
  BY <1>8, <1>n DEF R
<1>10. Sizes(nvl)[0] = 0
  BY <1>0, <1>9 DEF Body
<1>11. ASSUME NEW i \in 1..n PROVE Sizes(nvl)[i] = Sizes(nvl)[i - 1] + z(i)
  <2>1. i \in D /\ i # 0
    BY <1>0
  <2> QED BY <1>9, <1>z, <2>1 DEF Body
<1>12. \A i \in 0..n : Sizes(nvl)[i] \in Nat
  <2> DEFINE S == {k \in Nat : k <= n => Sizes(nvl)[k] \in Nat}
  <2>1. 0 \in S
    BY <1>10
  <2>2. ASSUME NEW k \in Nat, k \in S PROVE k + 1 \in S
    <3> SUFFICES ASSUME k + 1 <= n PROVE Sizes(nvl)[k + 1] \in Nat
      OBVIOUS
    <3>1. k + 1 \in 1..n /\ (k + 1) - 1 = k /\ Sizes(nvl)[k] \in Nat
      BY <1>0, <2>2
    <3>2. z(k + 1) \in Nat
      BY <1>a, <3>1
    <3>3. Sizes(nvl)[k + 1] = Sizes(nvl)[k] + z(k + 1)
      BY <1>11, <3>1
    <3> QED BY <3>1, <3>2, <3>3
  <2> HIDE DEF S
  <2>3. \A k \in Nat : k \in S
    BY <2>1, <2>2, Induction
  <2> QED BY <1>0, <2>3 DEF S
<1> QED BY <1>10, <1>11, <1>12, <1>n, <1>z

\* The texts of the pairs of a request, and of all of them.
PairTexts(nvl) == [i \in DOMAIN nvl |-> req_bin_nvl_insert(nvl[i])]

LEMMA PairTextsAre ==
  ASSUME NEW nvl \in Seq(PairsOfText)
  PROVE  /\ PairTexts(nvl) \in Seq(Seq(Char)) /\ Len(PairTexts(nvl)) = Len(nvl)
         /\ \A i \in 1 .. Len(nvl) : PairTexts(nvl)[i] = req_bin_nvl_insert(nvl[i])
         /\ FlattenSeq(PairTexts(nvl)) \in Seq(Char)
<1> DEFINE n == Len(nvl)
           ss == [i \in 1..n |-> req_bin_nvl_insert(nvl[i])]
<1>1. n \in Nat /\ PairTexts(nvl) = ss
  BY DEF PairTexts
<1>2. \A i \in 1..n : req_bin_nvl_insert(nvl[i]) \in Seq(Char)
  <2> SUFFICES ASSUME NEW i \in 1..n PROVE req_bin_nvl_insert(nvl[i]) \in Seq(Char)
    OBVIOUS
  <2>1. nvl[i] \in PairsOfText
    OBVIOUS
  <2> QED BY <2>1, PairText
<1> HIDE DEF n
<1>3. ss \in [1..n -> Seq(Char)] /\ \A i \in 1..n : ss[i] = req_bin_nvl_insert(nvl[i])
  BY <1>2
<1> HIDE DEF ss
<1>4. ss \in Seq(Seq(Char)) /\ Len(ss) = n
  BY <1>1, <1>3
<1>5. FlattenSeq(ss) \in Seq(Char)
  BY <1>4, FlattenType
<1> QED BY <1>1, <1>3, <1>4, <1>5 DEF n

\* The encoded values among the first pairs are one more if the next is encoded.
LEMMA EncodedUpTo ==
  ASSUME NEW nvl \in Seq(PairsOfText)
  PROVE  LET e(k) == Cardinality({ i \in 1..k : nvp_value_format(nvl[i].value) = "encoded" })
         IN /\ e(0) = 0 /\ \A k \in Nat : e(k) \in Nat
            /\ \A k \in Nat : e(k + 1) = e(k) + Missed(nvl[k + 1])
<1> DEFINE Is1(i) == nvp_value_format(nvl[i].value) = "encoded"
           E(k) == { i \in 1..k : Is1(i) }
<1>m. \A i : Missed(nvl[i]) = IF Is1(i) THEN 1 ELSE 0
  BY DEF Missed
<1> HIDE DEF Is1
<1>1. ASSUME NEW k \in Nat PROVE IsFiniteSet(E(k)) /\ Cardinality(E(k)) \in Nat
  <2>1. IsFiniteSet(1..k)
    BY FS_Interval
  <2>2. E(k) \in SUBSET (1..k)
    OBVIOUS
  <2>3. IsFiniteSet(E(k))
    BY <2>1, <2>2, FS_Subset
  <2> QED BY <2>3, FS_CardinalityType
<1>2. Cardinality(E(0)) = 0
  <2>1. E(0) = {}
    OBVIOUS
  <2> QED BY <2>1, FS_EmptySet
<1>3. ASSUME NEW k \in Nat
      PROVE  Cardinality(E(k + 1)) = Cardinality(E(k)) + Missed(nvl[k + 1])
  <2>1. CASE Is1(k + 1)
    <3>1. E(k + 1) = E(k) \cup {k + 1} /\ k + 1 \notin E(k)
      BY <2>1
    <3>2. Missed(nvl[k + 1]) = 1
      BY <1>m, <2>1
    <3>3. Cardinality(E(k) \cup {k + 1}) = Cardinality(E(k)) + 1
      <4> HIDE DEF E
      <4> QED BY <1>1, <3>1, FS_AddElement
    <3> HIDE DEF E
    <3> QED BY <3>1, <3>2, <3>3
  <2>2. CASE ~ Is1(k + 1)
    <3>1. E(k + 1) = E(k)
      BY <2>2
    <3>2. Missed(nvl[k + 1]) = 0
      BY <1>m, <2>2
    <3> HIDE DEF E
    <3> QED BY <1>1, <3>1, <3>2
  <2> QED BY <2>1, <2>2
<1> QED BY <1>1, <1>2, <1>3 DEF Is1

\* The pairs take as many bytes as were counted, and one for each encoded value.
LEMMA PairsFit ==
  ASSUME NEW nvl \in Seq(PairsOfText)
  PROVE  /\ Cardinality(Encoded(nvl)) \in Nat
         /\ Len(FlattenSeq(PairTexts(nvl))) =
              Sizes(nvl)[Len(nvl)] + Cardinality(Encoded(nvl))
         /\ nvl = <<>> => Cardinality(Encoded(nvl)) = 0
<1> DEFINE n == Len(nvl)
           ss == PairTexts(nvl)
           t == FlattenSeq(ss)
           e(k) == Cardinality({ i \in 1..k : nvp_value_format(nvl[i].value) = "encoded" })
<1>0. n \in Nat
  OBVIOUS
<1>e. /\ e(0) = 0 /\ \A k \in Nat : e(k) \in Nat
      /\ \A k \in Nat : e(k + 1) = e(k) + Missed(nvl[k + 1])
  BY EncodedUpTo
<1>f. Cardinality(Encoded(nvl)) = e(n)
  <2>1. DOMAIN nvl = 1..n
    OBVIOUS
  <2> QED BY <2>1 DEF Encoded
<1>1. ss \in Seq(Seq(Char)) /\ Len(ss) = n /\ t \in Seq(Char)
      /\ \A i \in 1..n : ss[i] = req_bin_nvl_insert(nvl[i])
  BY PairTextsAre
<1> HIDE DEF e
<1>2. \A i \in 1..n : /\ Len(ss[i]) = req_bin_nvl_sum_length(nvl[i]) + Missed(nvl[i])
                      /\ req_bin_nvl_sum_length(nvl[i]) \in Nat /\ Missed(nvl[i]) \in Nat
  <2> SUFFICES ASSUME NEW i \in 1..n
               PROVE  /\ Len(ss[i]) = req_bin_nvl_sum_length(nvl[i]) + Missed(nvl[i])
                      /\ req_bin_nvl_sum_length(nvl[i]) \in Nat /\ Missed(nvl[i]) \in Nat
    OBVIOUS
  <2>1. nvl[i] \in PairsOfText /\ ss[i] = req_bin_nvl_insert(nvl[i])
    BY <1>1
  <2>2. Missed(nvl[i]) \in Nat
    BY DEF Missed
  <2> HIDE DEF ss
  <2> QED BY <2>1, <2>2, PairText
<1> HIDE DEF ss
<1>3. Len(t) \in Nat /\ Occurs(FlattenSeq(ss), t, 1)
  BY <1>1, OccursWhole
<1>4. PICK pos : IsLayout(pos, ss, t, 1) /\ pos[Len(ss) + 1] = 1 + Len(FlattenSeq(ss))
  <2> HIDE DEF t
  <2>1. 1 \in Nat
    OBVIOUS
  <2> QED BY <1>1, <1>3, <2>1, FlattenLayout
<1> HIDE DEF t
<1>5. /\ pos \in [1 .. n + 1 -> Nat] /\ pos[1] = 1 /\ pos[n + 1] = 1 + Len(t)
      /\ \A i \in 1..n : pos[i + 1] = pos[i] + Len(ss[i])
  BY <1>1, <1>4 DEF IsLayout, t
<1>6. /\ Sizes(nvl)[0] = 0
      /\ \A i \in 1..n : Sizes(nvl)[i] = Sizes(nvl)[i - 1] + req_bin_nvl_sum_length(nvl[i])
      /\ \A i \in 0..n : Sizes(nvl)[i] \in Nat
  BY SizesAre
<1> HIDE DEF n
<1> DEFINE S == {k \in Nat : k <= n => pos[k + 1] = 1 + Sizes(nvl)[k] + e(k)}
<1>7. 0 \in S
  <2>1. pos[0 + 1] = 1 /\ 1 + Sizes(nvl)[0] + e(0) = 1
    BY <1>5, <1>6, <1>e
  <2> QED BY <2>1
<1>8. ASSUME NEW k \in Nat, k \in S PROVE k + 1 \in S
  <2> SUFFICES ASSUME k + 1 <= n PROVE pos[(k + 1) + 1] = 1 + Sizes(nvl)[k + 1] + e(k + 1)
    OBVIOUS
  <2>1. pos[k + 1] = 1 + Sizes(nvl)[k] + e(k) /\ k + 1 \in 1..n /\ (k + 1) - 1 = k
        /\ k \in 0..n /\ k + 1 \in 1 .. n + 1
    BY <1>0, <1>8
  <2>2. pos[(k + 1) + 1] = pos[k + 1] + Len(ss[k + 1]) /\ pos[k + 1] \in Nat
    BY <1>5, <2>1
  <2>3. Sizes(nvl)[k + 1] = Sizes(nvl)[k] + req_bin_nvl_sum_length(nvl[k + 1])
        /\ Sizes(nvl)[k] \in Nat
    BY <1>6, <2>1
  <2>4. /\ req_bin_nvl_sum_length(nvl[k + 1]) \in Nat /\ Missed(nvl[k + 1]) \in Nat
        /\ Len(ss[k + 1]) = req_bin_nvl_sum_length(nvl[k + 1]) + Missed(nvl[k + 1])
    BY <1>2, <2>1
  <2>5. e(k + 1) = e(k) + Missed(nvl[k + 1]) /\ e(k) \in Nat
    BY <1>e
  <2> DEFINE x == pos[(k + 1) + 1]
             y == pos[k + 1]
             l == Len(ss[k + 1])
             u == Sizes(nvl)[k]
             w == Sizes(nvl)[k + 1]
             c == req_bin_nvl_sum_length(nvl[k + 1])
             m == Missed(nvl[k + 1])
             a == e(k)
             b == e(k + 1)
  <2>6. /\ y = 1 + u + a /\ x = y + l /\ w = u + c /\ l = c + m /\ b = a + m
        /\ y \in Nat /\ u \in Nat /\ m \in Nat /\ c \in Nat /\ a \in Nat
    BY <2>1, <2>2, <2>3, <2>4, <2>5
  <2> HIDE DEF x, y, l, u, w, c, m, a, b
  <2>7. x = 1 + w + b
    BY <2>6
  <2> QED BY <2>7 DEF x, w, b
<1> HIDE DEF S
<1>9. \A k \in Nat : k \in S
  BY <1>7, <1>8, Induction
<1>10. pos[n + 1] = 1 + Sizes(nvl)[n] + e(n)
  BY <1>0, <1>9 DEF S
<1>11. Len(t) \in Nat /\ Sizes(nvl)[n] \in Nat /\ e(n) \in Nat
  BY <1>0, <1>1, <1>6, <1>e
<1>12. Len(t) = Sizes(nvl)[n] + e(n)
  BY <1>5, <1>10, <1>11
<1>13. nvl = <<>> => e(n) = 0
  BY <1>e DEF n
<1> QED BY <1>f, <1>11, <1>12, <1>13 DEF t, ss, n

\* A request in binary form whose words are words.
Formed(r) ==
  /\ r \in [id : 0..MaxReqId, type : {"REQUEST", "REPLY"},
            src : Seq(ModChar), dst : Seq(ModChar), code : Seq(CodeChar),
            nvl : Seq(PairsOfText)]
  /\ Len(r.src) <= ReqModSize /\ Len(r.dst) <= ReqModSize /\ Len(r.code) <= ReqCodeSize

Separator(r) == IF r.type = "REPLY" THEN <<"R", "space">> ELSE <<"space">>

\* The parts of the header.
LEMMA HeaderParts ==
  ASSUME NEW r, Formed(r)
  PROVE  /\ TextOfId[r.id] \in Seq(Char) /\ Separator(r) \in Seq(Char)
         /\ r.src \in Seq(Char) /\ r.dst \in Seq(Char) /\ r.code \in Seq(Char)
         /\ <<"space">> \in Seq(Char)
         /\ HeaderText(r) = TextOfId[r.id] \o Separator(r) \o r.src \o <<"space">>
                              \o r.dst \o <<"space">> \o r.code
         /\ Len(Separator(r)) = IF r.type = "REPLY" THEN 2 ELSE 1
<1>1. TextOfId[r.id] \in Seq(Char)
  BY TextOfIdIs, Classes DEF Formed
<1>2. r.src \in Seq(Char) /\ r.dst \in Seq(Char) /\ r.code \in Seq(Char)
  BY Classes DEF Formed
<1>3. "space" \in Char /\ "R" \in Char
  BY Classes
<1>4. Separator(r) \in Seq(Char) /\ Len(Separator(r)) = IF r.type = "REPLY" THEN 2 ELSE 1
  BY <1>3 DEF Separator
<1>5. HeaderText(r) = TextOfId[r.id] \o Separator(r) \o r.src \o <<"space">>
                        \o r.dst \o <<"space">> \o r.code
  BY DEF HeaderText, Separator
<1> QED BY <1>1, <1>2, <1>3, <1>4, <1>5

LEMMA HeaderSize ==
  ASSUME NEW r, Formed(r)
  PROVE  /\ HeaderText(r) \in Seq(Char)
         /\ Len(HeaderText(r)) = Len(TextOfId[r.id]) + Len(Separator(r)) + Len(r.src)
                                   + Len(r.dst) + Len(r.code) + 2
<1> DEFINE b == <<"space">>
           w1 == TextOfId[r.id]
           w2 == Separator(r)
           w3 == r.src
           w4 == r.dst
           w5 == r.code
           s2 == w1 \o w2
           s3 == s2 \o w3
           s4 == s3 \o b
           s5 == s4 \o w4
           s6 == s5 \o b
           s7 == s6 \o w5
<1>1. HeaderText(r) = s7
  BY HeaderParts
<1>2. b \in Seq(Char) /\ w1 \in Seq(Char) /\ w2 \in Seq(Char) /\ w3 \in Seq(Char)
      /\ w4 \in Seq(Char) /\ w5 \in Seq(Char) /\ Len(b) = 1
  BY HeaderParts
<1> HIDE DEF b, w1, w2, w3, w4, w5
<1>3. s2 \in Seq(Char) /\ Len(s2) = Len(w1) + Len(w2)
  BY <1>2, ConcatParts
<1> HIDE DEF s2
<1>4. s3 \in Seq(Char) /\ Len(s3) = Len(s2) + Len(w3)
  BY <1>2, <1>3, ConcatParts
<1> HIDE DEF s3
<1>5. s4 \in Seq(Char) /\ Len(s4) = Len(s3) + Len(b)
  <2>1. s3 \in Seq(Char) /\ b \in Seq(Char)
    BY <1>2, <1>4
  <2>2. s3 \o b \in Seq(Char) /\ Len(s3 \o b) = Len(s3) + Len(b)
    BY <2>1, ConcatParts
  <2> QED BY <2>2
<1> HIDE DEF s4
<1>6. s5 \in Seq(Char) /\ Len(s5) = Len(s4) + Len(w4)
  BY <1>2, <1>5, ConcatParts
<1> HIDE DEF s5
<1>7. s6 \in Seq(Char) /\ Len(s6) = Len(s5) + Len(b)
  <2>1. s5 \in Seq(Char) /\ b \in Seq(Char)
    BY <1>2, <1>6
  <2>2. s5 \o b \in Seq(Char) /\ Len(s5 \o b) = Len(s5) + Len(b)
    BY <2>1, ConcatParts
  <2> QED BY <2>2
<1> HIDE DEF s6
<1>8. s7 \in Seq(Char) /\ Len(s7) = Len(s6) + Len(w5)
  BY <1>2, <1>7, ConcatParts
<1> HIDE DEF s7
<1>9. Len(w1) \in Nat /\ Len(w2) \in Nat /\ Len(w3) \in Nat /\ Len(w4) \in Nat
      /\ Len(w5) \in Nat
  BY <1>2
<1>10. Len(s7) = Len(w1) + Len(w2) + Len(w3) + Len(w4) + Len(w5) + 2
  BY <1>2, <1>3, <1>4, <1>5, <1>6, <1>7, <1>8, <1>9
<1> QED BY <1>1, <1>8, <1>10 DEF w1, w2, w3, w4, w5

\* What is written of a request.
LEMMA WrittenIs ==
  ASSUME NEW r, Formed(r)
  PROVE  /\ Written(r) \in Seq(Char)
         /\ r.nvl = <<>> => Written(r) = HeaderText(r)
         /\ r.nvl # <<>> =>
              /\ Written(r) = HeaderText(r) \o (<<"space">> \o FlattenSeq(PairTexts(r.nvl)))
              /\ Len(Written(r)) = Len(HeaderText(r)) + 1
                                     + Len(FlattenSeq(PairTexts(r.nvl)))
<1> DEFINE h == HeaderText(r)
           l == FlattenSeq(PairTexts(r.nvl))
           b == <<"space">>
<1>1. Written(r) = h \o (IF r.nvl = <<>> THEN <<>> ELSE b \o l)
  BY DEF Written, PairTexts
<1>2. h \in Seq(Char) /\ b \in Seq(Char) /\ Len(b) = 1
  BY HeaderSize, HeaderParts
<1>3. l \in Seq(Char)
  BY PairTextsAre DEF Formed
<1> HIDE DEF h, l, b
<1>4. b \o l \in Seq(Char) /\ Len(b \o l) = 1 + Len(l)
  <2>1. b \o l \in Seq(Char) /\ Len(b \o l) = Len(b) + Len(l)
    BY <1>2, <1>3, ConcatParts
  <2> QED BY <1>2, <2>1
<1>5. h \o (b \o l) \in Seq(Char) /\ Len(h \o (b \o l)) = Len(h) + 1 + Len(l)
  <2> DEFINE bl == b \o l
  <2>0. bl \in Seq(Char) /\ Len(bl) = 1 + Len(l)
    BY <1>4
  <2> HIDE DEF bl
  <2>1. h \o bl \in Seq(Char) /\ Len(h \o bl) = Len(h) + Len(bl)
    BY <1>2, <2>0, ConcatParts
  <2>2. Len(h) \in Nat /\ Len(l) \in Nat
    BY <1>2, <1>3
  <2> QED BY <2>0, <2>1, <2>2 DEF bl
<1>6. h \o <<>> = h
  BY <1>2
<1>7. CASE r.nvl = <<>>
  BY <1>1, <1>2, <1>6, <1>7 DEF h
<1>8. CASE r.nvl # <<>>
  <2>1. Written(r) = h \o (b \o l)
    BY <1>1, <1>8
  <2> QED BY <1>5, <1>8, <2>1 DEF h, b, l
<1> QED BY <1>7, <1>8

\* The text and its end character take what is allocated and one byte for each
\* encoded value; without pairs there is a byte to spare.
LEMMA WrittenFits ==
  ASSUME NEW r, Formed(r)
  PROVE  /\ Len(Written(r)) + 1 =
              IF r.nvl = <<>> THEN ReqSize(r) - 1
              ELSE ReqSize(r) + Cardinality(Encoded(r.nvl))
         /\ ReqSize(r) \in Nat /\ Cardinality(Encoded(r.nvl)) \in Nat
         /\ r.nvl = <<>> => Cardinality(Encoded(r.nvl)) = 0
<1> DEFINE i == Len(TextOfId[r.id])
           s == Len(r.src)
           d == Len(r.dst)
           c == Len(r.code)
           n == Len(r.nvl)
           z == Sizes(r.nvl)[n]
           x == IF r.type = "REPLY" THEN 1 ELSE 0
           l == Len(FlattenSeq(PairTexts(r.nvl)))
           h == Len(HeaderText(r))
           w == Len(Written(r))
           e == Cardinality(Encoded(r.nvl))
<1>1. i \in Nat /\ s \in Nat /\ d \in Nat /\ c \in Nat /\ n \in Nat /\ x \in {0, 1}
  BY HeaderParts DEF Formed
<1>2. /\ z \in Nat /\ l \in Nat /\ e \in Nat /\ l = z + e
      /\ r.nvl = <<>> => e = 0 /\ z = 0
  <2>1. r.nvl \in Seq(PairsOfText)
    BY DEF Formed
  <2>2. z \in Nat /\ Sizes(r.nvl)[0] = 0
    BY <2>1, SizesAre
  <2>3. l \in Nat
    BY <2>1, PairTextsAre
  <2>4. l = z + e /\ e \in Nat /\ (r.nvl = <<>> => e = 0)
    BY <2>1, PairsFit
  <2>5. r.nvl = <<>> => z = 0
    BY <2>2
  <2> QED BY <2>2, <2>3, <2>4, <2>5
<1>3. h = i + (1 + x) + s + d + c + 2
  <2>1. h = i + Len(Separator(r)) + s + d + c + 2
    BY HeaderSize
  <2>2. Len(Separator(r)) = 1 + x
    <3>1. Len(Separator(r)) = IF r.type = "REPLY" THEN 2 ELSE 1
      BY HeaderParts
    <3>2. CASE r.type = "REPLY"
      BY <3>1, <3>2
    <3>3. CASE r.type # "REPLY"
      BY <3>1, <3>3
    <3> QED BY <3>2, <3>3
  <2> QED BY <2>1, <2>2
<1>4. (r.nvl = <<>> => w = h) /\ (r.nvl # <<>> => w = h + 1 + l)
  BY WrittenIs
<1>5. ReqSize(r) = i + x + s + d + c + 3 + 2 + z
  BY DEF ReqSize
<1> HIDE DEF i, s, d, c, n, z, x, l, h, w, e
<1>6. i + x + s + d + c + 3 + 2 + z \in Nat
  BY <1>1, <1>2
<1>7. CASE r.nvl = <<>>
  <2>1. w + 1 = (i + x + s + d + c + 3 + 2 + z) - 1
    BY <1>1, <1>2, <1>3, <1>4, <1>7
  <2> QED BY <1>2, <1>5, <1>6, <1>7, <2>1 DEF w, e
<1>8. CASE r.nvl # <<>>
  <2>1. w + 1 = (i + x + s + d + c + 3 + 2 + z) + e
    BY <1>1, <1>2, <1>3, <1>4, <1>8
  <2> QED BY <1>2, <1>5, <1>6, <1>8, <2>1 DEF w, e
<1> QED BY <1>7, <1>8
-----------------------------------------------------------------------------
(***************************************************************************)
(* What a text is converted to.                                            *)
(***************************************************************************)

LEMMA SeekIs ==
  ASSUME NEW t \in Seq(Char), NEW tok
  PROVE  req_text_token_seek(t, tok) \in 0 .. Len(t) + 1
<1> DEFINE at == { i \in 1 .. Len(t) : Tokens(t)[i] = tok }
<1>1. Len(t) \in Nat /\ at \subseteq 1 .. Len(t)
  OBVIOUS
<1>2. req_text_token_seek(t, tok) =
        IF at # {} THEN Min(at)
        ELSE IF Tokens(t)[Len(t) + 1] = "CODE" THEN Len(t) + 1 ELSE 0
  BY DEF req_text_token_seek
<1> HIDE DEF at
<1>3. CASE at # {}
  <2>1. at \subseteq Nat
    BY <1>1
  <2>2. Min(at) \in at
    BY <1>3, <2>1, MinExists
  <2>3. req_text_token_seek(t, tok) = Min(at)
    BY <1>2, <1>3
  <2>4. req_text_token_seek(t, tok) \in 1 .. Len(t)
    BY <1>1, <2>2, <2>3
  <2> QED BY <1>1, <2>4
<1>4. CASE at = {}
  BY <1>1, <1>2, <1>4
<1> QED BY <1>3, <1>4

LEMMA WordIs ==
  ASSUME NEW t \in Seq(Char), NEW tok, NEW class, class \subseteq Char, NEW ends, NEW size
  PROVE  \/ Word(t, tok, class, ends, size) = Fails
         \/ \E s \in Seq(class) : Word(t, tok, class, ends, size) = Is(s)
<1> DEFINE p == req_text_token_seek(t, tok)
           q == RunEnd(t, p, class)
           x == SubSeq(t, p, q - 1)
<1>1. Word(t, tok, class, ends, size) =
        IF p # 0 /\ At(t, q) \in ends /\ q - p <= size THEN Is(x) ELSE Fails
  BY DEF Word
<1>2. p \in 0 .. Len(t) + 1 /\ Len(t) \in Nat /\ End \notin class
  BY SeekIs, Classes
<1> HIDE DEF p
<1>3. CASE p # 0
  <2>1. p \in 1 .. Len(t) + 1
    BY <1>2, <1>3
  <2>2. /\ q \in p .. Len(t) + 1
        /\ \A j \in p .. q - 1 : j \in 1 .. Len(t) /\ t[j] \in class
    BY <1>2, <2>1, RunEndIs
  <2> HIDE DEF q
  <2>3. x \in Seq(class)
    <3>1. /\ x = [i \in 1 .. q - p |-> t[i + p - 1]] /\ q - p \in Nat
      BY <1>2, <2>1, <2>2
    <3>2. \A i \in 1 .. q - p : t[i + p - 1] \in class
      <4> SUFFICES ASSUME NEW i \in 1 .. q - p PROVE t[i + p - 1] \in class
        OBVIOUS
      <4>1. i + p - 1 \in p .. q - 1
        BY <1>2, <2>1, <2>2
      <4> QED BY <2>2, <4>1
    <3> HIDE DEF x
    <3>3. x \in [1 .. q - p -> class]
      BY <3>1, <3>2
    <3> QED BY <3>1, <3>3
  <2> HIDE DEF x
  <2> QED BY <1>1, <2>3
<1>4. CASE p = 0
  BY <1>1, <1>4
<1> QED BY <1>3, <1>4

LEMMA RidIs ==
  ASSUME NEW t \in Seq(Char)
  PROVE  \/ req_text_rid(t) = Fails
         \/ \E n \in 0..MaxReqId : req_text_rid(t) = Is(n)
<1> DEFINE q == RunEnd(t, 1, RidChar)
           m == Min({q - 1, ReqIdSize})
           s == SubSeq(t, 1, m)
<1>1. Len(t) \in Nat /\ 1 \in 1 .. Len(t) + 1 /\ End \notin RidChar
  BY Classes
<1>2. q \in 1 .. Len(t) + 1
  BY <1>1, RunEndIs
<1>3. req_text_rid(t) =
        IF q = 1 \/ (q <= ReqIdSize /\ At(t, q) \notin ReplyChar \cup {"space"})
        THEN Fails ELSE Is(IdOfText(s))
  BY DEF req_text_rid
<1> HIDE DEF q
<1>4. m \in 0 .. Len(t)
  <2>1. {q - 1, ReqIdSize} \subseteq Nat /\ {q - 1, ReqIdSize} # {}
    BY <1>1, <1>2, MaxReqIdType
  <2>2. m \in {q - 1, ReqIdSize} /\ m <= q - 1
    BY <2>1, MinExists
  <2> HIDE DEF m
  <2> QED BY <1>1, <1>2, <2>1, <2>2
<1> HIDE DEF m
<1>5. s \in Seq(Char)
  BY <1>1, <1>4
<1> HIDE DEF s
<1>6. IdOfText(s) \in 0..MaxReqId
  <2> DEFINE v == Numbers(s)[Len(s)]
  <2>1. v \in Int
    <3>1. Len(s) \in 0 .. Len(s)
      BY <1>5
    <3> QED BY <1>5, <3>1, NumbersAre
  <2> HIDE DEF v
  <2>2. MaxReqId + 1 \in Nat /\ MaxReqId + 1 > 0 /\ MaxReqId \in Nat
    BY MaxReqIdType
  <2>3. v % (MaxReqId + 1) \in 0..MaxReqId
    BY <2>1, <2>2
  <2> QED BY <2>3 DEF IdOfText, v
<1> QED BY <1>3, <1>6

\* The outcomes of a conversion: at best a request with an id and a code.
LEMMA ConvertedIs ==
  ASSUME NEW t \in Seq(Char), NEW o \in req_from_text_to_bin(t)
  PROVE  \/ o \in {Fails, Corrupt}
         \/ o.is.id \in 0..MaxReqId /\ o.is.code \in Seq(CodeChar)
<1> DEFINE id    == req_text_rid(t)
           type  == req_text_type(t)
           src   == req_text_src(t)
           dst   == req_text_dst(t)
           code  == req_text_code(t)
           pairs == req_text_nv_list(t, req_text_token_seek(t, "NVL"))
           bin   == [id |-> id.is, type |-> type.is, src |-> src.is, dst |-> dst.is,
                     code |-> code.is,
                     nvl |-> [i \in DOMAIN pairs.is |-> nvp(pairs.is[i]).is]]
<1>1. id = Fails \/ \E n \in 0..MaxReqId : id = Is(n)
  BY RidIs
<1>2. code = Fails \/ \E s \in Seq(CodeChar) : code = Is(s)
  <2>1. CodeChar \subseteq Char
    BY Classes
  <2> DEFINE tok == "CODE"
             ends == {"space", End}
  <2>2. code = Word(t, tok, CodeChar, ends, ReqCodeSize)
    BY DEF req_text_code
  <2> HIDE DEF code, tok, ends
  <2>3. \/ Word(t, tok, CodeChar, ends, ReqCodeSize) = Fails
        \/ \E s \in Seq(CodeChar) : Word(t, tok, CodeChar, ends, ReqCodeSize) = Is(s)
    BY <2>1, WordIs
  <2> QED BY <2>2, <2>3
<1>3. \/ o \in {Fails, Corrupt}
      \/ ~ id.fails /\ ~ code.fails /\ o = Is(bin)
  BY DEF req_from_text_to_bin
<1> HIDE DEF id, type, src, dst, code, pairs
<1>4. CASE ~ id.fails /\ ~ code.fails /\ o = Is(bin)
  <2>1. o.is.id = id.is /\ o.is.code = code.is
    BY <1>4 DEF Is
  <2>2. id.is \in 0..MaxReqId
    BY <1>1, <1>4 DEF Is, Fails
  <2>3. code.is \in Seq(CodeChar)
    BY <1>2, <1>4 DEF Is, Fails
  <2> QED BY <2>1, <2>2, <2>3
<1> QED BY <1>3, <1>4
-----------------------------------------------------------------------------
(***************************************************************************)
(* Type correctness.                                                       *)
(***************************************************************************)

\* The text is a sequence: that its characters are ones is not enough to change one.
\* The request is a record.
TInv == TypeOK /\ wire \in Seq(Char) /\ Formed(req)

LEMMA PairsAreOfText == Nvp \subseteq PairsOfText
BY RequestAssumption DEF Nvp, PairsOfText

LEMMA MostPairs ==
  /\ Max({MaxPairs, 1}) \in Nat /\ MaxPairs \in Nat /\ MaxPairs <= Max({MaxPairs, 1})
  /\ 1 <= Max({MaxPairs, 1})
<1>1. {MaxPairs, 1} \subseteq Nat /\ {MaxPairs, 1} # {}
      /\ \A x \in {MaxPairs, 1} : x <= MaxPairs + 1
  BY RequestAssumption
<1>2. MaxPairs + 1 \in Nat /\ MaxPairs \in {MaxPairs, 1} /\ 1 \in {MaxPairs, 1}
  BY <1>1
<1>3. /\ Max({MaxPairs, 1}) \in {MaxPairs, 1}
      /\ \A x \in {MaxPairs, 1} : x <= Max({MaxPairs, 1})
  BY <1>1, <1>2, MaxExists
<1> QED BY <1>1, <1>2, <1>3

LEMMA TextType ==
  ASSUME NEW r, Formed(r)
  PROVE  req_from_bin_to_text(r) \in Seq(Char)
<1>1. Written(r) \in Seq(Char)
  BY WrittenIs
<1>2. CASE r.nvl = <<>>
  BY <1>1, <1>2 DEF req_from_bin_to_text
<1>3. CASE r.nvl # <<>>
  <2>1. Front(Written(r)) \in Seq(Char)
    <3>1. Len(Written(r)) > 0 /\ Len(Written(r)) - 1 \in 0 .. Len(Written(r))
      <4>1. /\ Len(HeaderText(r)) \in Nat /\ Len(FlattenSeq(PairTexts(r.nvl))) \in Nat
            /\ Len(Written(r)) = Len(HeaderText(r)) + 1 + Len(FlattenSeq(PairTexts(r.nvl)))
        <5>1. Len(HeaderText(r)) \in Nat
          BY HeaderSize
        <5>2. Len(FlattenSeq(PairTexts(r.nvl))) \in Nat
          BY PairTextsAre DEF Formed
        <5> QED BY <1>3, <5>1, <5>2, WrittenIs
      <4> QED BY <4>1
    <3> QED BY <1>1, <3>1 DEF Front
  <2> QED BY <1>3, <2>1 DEF req_from_bin_to_text
<1> QED BY <1>2, <1>3

LEMMA ChangedType ==
  ASSUME NEW t \in Seq(Char), NEW i \in DOMAIN t, NEW u \in Changed(t, i)
  PROVE  u \in Seq(Char)
<1>1. NewChars \subseteq Char
  BY RequestAssumption
<1>2. Len(t) \in Nat /\ i \in 1 .. Len(t)
  OBVIOUS
<1> DEFINE a == SubSeq(t, 1, i - 1)
           b == SubSeq(t, i + 1, Len(t))
           d == SubSeq(t, i, Len(t))
<1>3. a \in Seq(Char) /\ b \in Seq(Char) /\ d \in Seq(Char)
  BY <1>2
<1>4. CASE \E c \in NewChars : u = ReplaceAt(t, i, c)
  <2>1. PICK c \in NewChars : u = [t EXCEPT ![i] = c]
    BY <1>4 DEF ReplaceAt
  <2>2. c \in Char
    BY <1>1
  <2> QED BY <1>2, <2>1, <2>2
<1>5. CASE u = RemoveAt(t, i)
  <2>1. u = a \o b
    BY <1>5 DEF RemoveAt
  <2> HIDE DEF a, b
  <2> QED BY <1>3, <2>1
<1>6. CASE \E c \in NewChars : u = InsertAt(t, i, c)
  <2>1. PICK c \in NewChars : u = a \o <<c>> \o d
    BY <1>6 DEF InsertAt
  <2>2. c \in Char
    BY <1>1
  <2>3. <<c>> \in Seq(Char)
    BY <2>2
  <2> HIDE DEF a, d
  <2> QED BY <1>3, <2>1, <2>3
<1> QED BY <1>4, <1>5, <1>6 DEF Changed

LEMMA TInvInit == Init => TInv
<1> SUFFICES ASSUME Init PROVE TInv
  OBVIOUS
<1> USE DEF Init
<1>1. req.nvl \in UNION { [1..n -> Nvp] : n \in 0 .. Max({MaxPairs, 1}) }
  <2>1. PICK n \in 0..MaxPairs : req.nvl \in [1..n -> Nvp]
    BY DEF Requests
  <2>2. n \in 0 .. Max({MaxPairs, 1})
    BY MostPairs
  <2> QED BY <2>1, <2>2
<1>2. [req EXCEPT !.nvl = <<>>] \in Requests
  <2>1. <<>> \in [1..0 -> Nvp]
    OBVIOUS
  <2>2. 0 \in 0..MaxPairs
    BY MostPairs
  <2>3. <<>> \in UNION { [1..n -> Nvp] : n \in 0..MaxPairs }
    BY <2>1, <2>2
  <2> QED BY <2>3 DEF Requests
<1>3. Range(wire) \subseteq Char /\ wire \in Seq(Char)
  BY EmptySeq DEF Range
<1>4. changes \in 0..MaxChanges
  BY RequestAssumption
<1>5. Formed(req)
  <2>1. PICK n \in 0..MaxPairs : req.nvl \in [1..n -> Nvp]
    BY DEF Requests
  <2>2. req.nvl \in [1..n -> PairsOfText] /\ n \in Nat
    BY <2>1, PairsAreOfText, MostPairs
  <2>3. req.nvl \in Seq(PairsOfText)
    BY <2>2
  <2>4. req \in [id : Ids, type : {"REQUEST", "REPLY"}, src : Modules, dst : Modules,
                 code : Codes, nvl : Seq(PairsOfText)]
    BY <2>3 DEF Requests
  <2>5. /\ Ids \subseteq 0..MaxReqId
        /\ Modules \subseteq Seq(ModChar) /\ Codes \subseteq Seq(CodeChar)
        /\ \A m \in Modules : Len(m) <= ReqModSize
        /\ \A c \in Codes : Len(c) <= ReqCodeSize
    BY RequestAssumption
  <2> QED BY <2>4, <2>5 DEF Formed
<1> QED BY <1>1, <1>2, <1>3, <1>4, <1>5 DEF TInv, TypeOK

LEMMA TInvStep == TInv /\ [Next]_vars => TInv'
<1> SUFFICES ASSUME TInv, [Next]_vars PROVE TInv'
  OBVIOUS
<1> USE DEF TInv
<1>1. ASSUME NEW p \in Nvp, req_add_nvp_z(p) PROVE TInv'
  <2> USE <1>1 DEF req_add_nvp_z
  <2>1. CASE has_nvl
    BY <2>1 DEF TypeOK, Formed
  <2>2. CASE ~ has_nvl
    <3>1. req' = [req EXCEPT !.nvl = <<p>>] /\ has_nvl'
      BY <2>2
    <3>2. [req' EXCEPT !.nvl = <<>>] = [req EXCEPT !.nvl = <<>>]
      BY <3>1
    <3>3. [req EXCEPT !.nvl = <<>>] \in Requests
      BY DEF TypeOK
    <3>4. DOMAIN req = DOMAIN [req EXCEPT !.nvl = <<>>] /\ "nvl" \in DOMAIN req
      BY <3>3 DEF Requests
    <3>5. req'.nvl = <<p>>
      BY <3>1, <3>4
    <3>6. req'.nvl \in UNION { [1..n -> Nvp] : n \in 0 .. Max({MaxPairs, 1}) }
      <4>1. <<p>> \in [1..1 -> Nvp]
        OBVIOUS
      <4>2. 1 \in 0 .. Max({MaxPairs, 1})
        BY MostPairs
      <4> QED BY <3>5, <4>1, <4>2
    <3>7. Formed(req')
      <4>1. <<p>> \in Seq(PairsOfText)
        BY PairsAreOfText
      <4>2. /\ Formed(req)
            /\ req' = [req EXCEPT !.nvl = <<p>>]
        BY <3>1
      <4> QED BY <4>1, <4>2 DEF Formed
    <3>8. Formed(req)'
      BY <3>7 DEF Formed
    <3> QED BY <2>2, <3>1, <3>2, <3>3, <3>6, <3>8 DEF TypeOK
  <2> QED BY <2>1, <2>2
<1>2. CASE req_to_text
  <2> USE <1>2 DEF req_to_text
  <2>1. wire' \in Seq(Char)
    BY TextType
  <2>2. Range(wire') \subseteq Char
    BY <2>1 DEF Range
  <2> QED BY <2>1, <2>2 DEF TypeOK, Formed
<1>3. CASE ToTextFails
  BY <1>3 DEF ToTextFails, TypeOK, Formed
<1>4. CASE Change
  <2> USE <1>4 DEF Change
  <2>1. wire' \in Seq(Char)
    BY ChangedType
  <2>2. Range(wire') \subseteq Char
    BY <2>1 DEF Range
  <2>3. changes' \in 0..MaxChanges
    BY RequestAssumption DEF TypeOK
  <2> QED BY <2>1, <2>2, <2>3 DEF TypeOK, Formed
<1>5. CASE req_to_bin
  <2> USE <1>5 DEF req_to_bin
  <2>1. \/ copy' \in {Fails, Corrupt}
        \/ copy'.is.id \in 0..MaxReqId /\ copy'.is.code \in Seq(CodeChar)
    BY ConvertedIs
  <2>2. status' \in {"none", "success", "failure"}
    OBVIOUS
  <2>3. pc' \in {"building", "crashed", "sent", "converted"}
    OBVIOUS
  <2> QED BY <2>1, <2>2, <2>3 DEF TypeOK, Formed
<1>6. CASE UNCHANGED vars
  BY <1>6 DEF vars, TypeOK, Formed
<1> QED BY <1>1, <1>2, <1>3, <1>4, <1>5, <1>6 DEF Next

LEMMA TInvAlways == Spec => []TInv
BY TInvInit, TInvStep, PTL DEF Spec

\* The words and pairs of a request are the ones it was built from, a text has
\* characters only, and what is converted from it has an id and a code.
THEOREM RequestTypes == Spec => []TypeOK
BY TInvAlways, PTL DEF TInv

\* Whatever a request is made of, its text is written behind the memory that was
\* allocated exactly when more of its values are encoded than there are bytes
\* of slack: req.c counts every byte but the space behind an encoded value.
THEOREM OverrunAlwaysEncoded == Spec => []OverrunIsEncoded
<1>1. TInv => OverrunIsEncoded
  <2> SUFFICES ASSUME TInv
               PROVE  Overruns(req) <=> Cardinality(Encoded(req.nvl)) > Slack
    BY DEF OverrunIsEncoded
  <2> DEFINE w == Len(Written(req))
             z == ReqSize(req)
             e == Cardinality(Encoded(req.nvl))
  <2>1. Formed(req)
    BY DEF TInv
  <2>2. /\ w + 1 = IF req.nvl = <<>> THEN z - 1 ELSE z + e
        /\ z \in Nat /\ e \in Nat /\ (req.nvl = <<>> => e = 0)
    BY <2>1, WrittenFits
  <2>3. Slack \in Nat /\ w \in Nat
    BY <2>1, WrittenIs, RequestAssumption
  <2>4. Overruns(req) <=> w + 1 > z + Slack
    BY DEF Overruns
  <2> HIDE DEF w, z, e
  <2>5. w + 1 > z + Slack <=> e > Slack
    BY <2>2, <2>3
  <2> QED BY <2>4, <2>5 DEF e
<1> QED BY <1>1, TInvAlways, PTL
-----------------------------------------------------------------------------
(***************************************************************************)
(* Reading the header that was written.                                    *)
(***************************************************************************)

\* Where the words of a request's header begin, and where the last one ends.
SrcAt(r)  == Len(TextOfId[r.id]) + 2
DstAt(r)  == SrcAt(r) + Len(r.src) + 1
CodeAt(r) == DstAt(r) + Len(r.dst) + 1
CodeEnd(r) == CodeAt(r) + Len(r.code)

HeaderIn(r, t) ==
  /\ Occurs(TextOfId[r.id], t, 1) /\ t[SrcAt(r) - 1] = "space"
  /\ Occurs(r.src, t, SrcAt(r)) /\ t[DstAt(r) - 1] = "space"
  /\ Occurs(r.dst, t, DstAt(r)) /\ t[CodeAt(r) - 1] = "space"
  /\ Occurs(r.code, t, CodeAt(r))

\* The places are in this order.
LEMMA HeaderPlaces ==
  ASSUME NEW r, Formed(r)
  PROVE  /\ SrcAt(r) \in Nat /\ DstAt(r) \in Nat /\ CodeAt(r) \in Nat /\ CodeEnd(r) \in Nat
         /\ 2 < SrcAt(r) /\ SrcAt(r) < DstAt(r) /\ DstAt(r) < CodeAt(r) /\ CodeAt(r) <= CodeEnd(r)
         /\ Len(TextOfId[r.id]) \in 1..ReqIdSize
         /\ Len(TextOfId[r.id]) = SrcAt(r) - 2 /\ Len(r.src) = DstAt(r) - SrcAt(r) - 1
         /\ Len(r.dst) = CodeAt(r) - DstAt(r) - 1 /\ Len(r.code) = CodeEnd(r) - CodeAt(r)
         /\ (r.type = "REQUEST" => CodeEnd(r) = Len(HeaderText(r)) + 1)
<1> DEFINE i == Len(TextOfId[r.id])
           s == Len(r.src)
           d == Len(r.dst)
           c == Len(r.code)
<1>1. s \in Nat /\ d \in Nat /\ c \in Nat
  BY DEF Formed
<1>2. i \in 1..ReqIdSize /\ ReqIdSize \in Nat
  BY IdSizes, MaxReqIdType DEF Formed
<1>3. r.type = "REQUEST" => Len(HeaderText(r)) = i + 1 + s + d + c + 2
  BY HeaderSize, HeaderParts
<1>4. /\ SrcAt(r) = i + 2 /\ DstAt(r) = SrcAt(r) + s + 1 /\ CodeAt(r) = DstAt(r) + d + 1
      /\ CodeEnd(r) = CodeAt(r) + c
  BY DEF SrcAt, DstAt, CodeAt, CodeEnd
<1> HIDE DEF i, s, d, c
<1>5. CodeEnd(r) = i + s + d + c + 4
  BY <1>1, <1>2, <1>4
<1>6. /\ SrcAt(r) \in Nat /\ DstAt(r) \in Nat /\ CodeAt(r) \in Nat /\ CodeEnd(r) \in Nat
      /\ 2 < SrcAt(r) /\ SrcAt(r) < DstAt(r) /\ DstAt(r) < CodeAt(r) /\ CodeAt(r) <= CodeEnd(r)
      /\ i = SrcAt(r) - 2 /\ s = DstAt(r) - SrcAt(r) - 1
      /\ d = CodeAt(r) - DstAt(r) - 1 /\ c = CodeEnd(r) - CodeAt(r)
  BY <1>1, <1>2, <1>4
<1>7. r.type = "REQUEST" => CodeEnd(r) = Len(HeaderText(r)) + 1
  BY <1>1, <1>2, <1>3, <1>5
<1> QED BY <1>2, <1>6, <1>7 DEF i, s, d, c

LEMMA HeaderOccurs ==
  ASSUME NEW r, Formed(r), r.type = "REQUEST", NEW t \in Seq(Char),
         Occurs(HeaderText(r), t, 1)
  PROVE  HeaderIn(r, t)
<1> DEFINE b == <<"space">>
           w1 == TextOfId[r.id]
           w3 == r.src
           w4 == r.dst
           w5 == r.code
           s2 == w1 \o b
           s3 == s2 \o w3
           s4 == s3 \o b
           s5 == s4 \o w4
           s6 == s5 \o b
           s7 == s6 \o w5
<1>0. Separator(r) = b
  BY DEF Separator
<1>1. HeaderText(r) = s7
  BY <1>0, HeaderParts
<1>2. b \in Seq(Char) /\ w1 \in Seq(Char) /\ w3 \in Seq(Char)
      /\ w4 \in Seq(Char) /\ w5 \in Seq(Char) /\ Len(b) = 1 /\ b[1] = "space"
  BY HeaderParts
<1>t. Len(t) \in Nat /\ 1 \in Nat
  OBVIOUS
<1>p. /\ SrcAt(r) = Len(w1) + 2 /\ DstAt(r) = SrcAt(r) + Len(w3) + 1
      /\ CodeAt(r) = DstAt(r) + Len(w4) + 1
  BY DEF SrcAt, DstAt, CodeAt
<1>l. Len(w1) \in Nat /\ Len(w3) \in Nat /\ Len(w4) \in Nat /\ Len(w5) \in Nat
  BY <1>2
<1>c. Occurs(s7, t, 1)
  BY <1>1
<1> HIDE DEF b, w1, w3, w4, w5
<1>3. s2 \in Seq(Char) /\ Len(s2) = Len(w1) + Len(b)
  BY <1>2, <1>l, ConcatParts
<1> HIDE DEF s2
<1>4. s3 \in Seq(Char) /\ Len(s3) = Len(s2) + Len(w3)
  BY <1>2, <1>3, ConcatParts
<1> HIDE DEF s3
<1>5. s4 \in Seq(Char) /\ Len(s4) = Len(s3) + Len(b)
  <2>1. s3 \in Seq(Char) /\ b \in Seq(Char)
    BY <1>2, <1>4
  <2>2. s3 \o b \in Seq(Char) /\ Len(s3 \o b) = Len(s3) + Len(b)
    BY <2>1, ConcatParts
  <2> QED BY <2>2
<1> HIDE DEF s4
<1>6. s5 \in Seq(Char) /\ Len(s5) = Len(s4) + Len(w4)
  BY <1>2, <1>5, ConcatParts
<1> HIDE DEF s5
<1>7. s6 \in Seq(Char) /\ Len(s6) = Len(s5) + Len(b)
  <2>1. s5 \in Seq(Char) /\ b \in Seq(Char)
    BY <1>2, <1>6
  <2>2. s5 \o b \in Seq(Char) /\ Len(s5 \o b) = Len(s5) + Len(b)
    BY <2>1, ConcatParts
  <2> QED BY <2>2
<1>8. Occurs(s6, t, 1) /\ Occurs(w5, t, 1 + Len(s6))
  <2> HIDE DEF s6
  <2> QED BY <1>2, <1>7, <1>c, <1>t, OccursConcat
<1>9. Occurs(s5, t, 1) /\ Occurs(b, t, 1 + Len(s5))
  BY <1>2, <1>6, <1>8, <1>t, OccursConcat
<1> HIDE DEF s6, s7
<1>10. Occurs(s4, t, 1) /\ Occurs(w4, t, 1 + Len(s4))
  BY <1>2, <1>5, <1>9, <1>t, OccursConcat DEF s5
<1>11. Occurs(s3, t, 1) /\ Occurs(b, t, 1 + Len(s3))
  BY <1>2, <1>4, <1>10, <1>t, OccursConcat DEF s4
<1>12. Occurs(s2, t, 1) /\ Occurs(w3, t, 1 + Len(s2))
  BY <1>2, <1>3, <1>11, <1>t, OccursConcat DEF s3
<1>13. Occurs(w1, t, 1) /\ Occurs(b, t, 1 + Len(w1))
  BY <1>2, <1>12, <1>t, OccursConcat DEF s2
<1>14. ASSUME NEW k \in Nat, Occurs(b, t, k) PROVE t[k] = "space"
  <2>1. 1 \in 1 .. Len(b) /\ k + 1 - 1 = k
    BY <1>2
  <2>2. t[k + 1 - 1] = b[1]
    BY <1>14, <2>1 DEF Occurs
  <2> QED BY <1>2, <2>1, <2>2
<1>15. /\ 1 + Len(w1) = SrcAt(r) - 1 /\ 1 + Len(s2) = SrcAt(r) /\ 1 + Len(s3) = DstAt(r) - 1
       /\ 1 + Len(s4) = DstAt(r) /\ 1 + Len(s5) = CodeAt(r) - 1 /\ 1 + Len(s6) = CodeAt(r)
  BY <1>2, <1>3, <1>4, <1>5, <1>6, <1>7, <1>l, <1>p
<1>16. SrcAt(r) - 1 \in Nat /\ DstAt(r) - 1 \in Nat /\ CodeAt(r) - 1 \in Nat
  BY <1>l, <1>p
<1>17. t[SrcAt(r) - 1] = "space" /\ t[DstAt(r) - 1] = "space" /\ t[CodeAt(r) - 1] = "space"
  BY <1>9, <1>11, <1>13, <1>14, <1>15, <1>16
<1> QED BY <1>8, <1>10, <1>12, <1>13, <1>15, <1>17 DEF HeaderIn, w1, w3, w4, w5

TokenNames == {"ID", "MODSRC", "MODDST", "CODE", "NVL", "invalid"}

LEMMA AfterCharIs ==
  ASSUME NEW c
  PROVE  /\ \A tok \in TokenNames : AfterChar(tok, c) \in TokenNames
         /\ c \in RidChar => AfterChar("ID", c) = "ID"
         /\ c \in ModChar => AfterChar("MODSRC", c) = "MODSRC" /\ AfterChar("MODDST", c) = "MODDST"
         /\ c \in CodeChar => AfterChar("CODE", c) = "CODE"
         /\ c = "space" => /\ AfterChar("ID", c) = "MODSRC" /\ AfterChar("MODSRC", c) = "MODDST"
                           /\ AfterChar("MODDST", c) = "CODE" /\ AfterChar("CODE", c) = "NVL"
         /\ AfterChar("NVL", c) = "NVL"
<1>1. "space" \notin RidChar /\ "space" \notin ModChar /\ "space" \notin CodeChar
      /\ "space" \notin ReplyChar
  BY Classes
<1>2. RidChar \cap ReplyChar = {}
  BY RidCharIs DEF ReplyChar, TenDigits
<1>3. AfterChar("ID", c) = IF c \in RidChar THEN "ID"
                           ELSE IF c \in ReplyChar \cup {"space"} THEN "MODSRC" ELSE "invalid"
  BY <1>1, <1>2 DEF AfterChar
<1>4. AfterChar("MODSRC", c) = IF c \in ModChar THEN "MODSRC"
                               ELSE IF c = "space" THEN "MODDST" ELSE "invalid"
  BY <1>1 DEF AfterChar
<1>5. AfterChar("MODDST", c) = IF c \in ModChar THEN "MODDST"
                               ELSE IF c = "space" THEN "CODE" ELSE "invalid"
  BY <1>1 DEF AfterChar
<1>6. AfterChar("CODE", c) = IF c \in CodeChar THEN "CODE"
                             ELSE IF c = "space" THEN "NVL" ELSE "invalid"
  BY <1>1 DEF AfterChar
<1>7. AfterChar("NVL", c) = "NVL"
  BY DEF AfterChar
<1>8. AfterChar("invalid", c) = "invalid"
  BY DEF AfterChar
<1>9. ASSUME NEW tok \in TokenNames PROVE AfterChar(tok, c) \in TokenNames
  <2>1. CASE tok = "ID"
    BY <1>3, <2>1 DEF TokenNames
  <2>2. CASE tok = "MODSRC"
    BY <1>4, <2>2 DEF TokenNames
  <2>3. CASE tok = "MODDST"
    BY <1>5, <2>3 DEF TokenNames
  <2>4. CASE tok = "CODE"
    BY <1>6, <2>4 DEF TokenNames
  <2>5. CASE tok = "NVL"
    BY <1>7, <2>5 DEF TokenNames
  <2>6. CASE tok = "invalid"
    BY <1>8, <2>6 DEF TokenNames
  <2> QED BY <2>1, <2>2, <2>3, <2>4, <2>5, <2>6 DEF TokenNames
<1> QED BY <1>1, <1>3, <1>4, <1>5, <1>6, <1>7, <1>9

\* Each character belongs to the token that goes on after the one before it.
LEMMA TokensAre ==
  ASSUME NEW t \in Seq(Char)
  PROVE  /\ Tokens(t)[1] = "ID"
         /\ \A i \in 1 .. Len(t) : Tokens(t)[i + 1] = AfterChar(Tokens(t)[i], t[i])
<1> DEFINE n == Len(t) + 1
           D == 1..n
           A == TokenNames
           first == [i \in D |-> "ID"]
           from  == [i \in D |-> i - 1]
           step  == [i \in D |-> [x \in A |-> AfterChar(x, t[i - 1])]]
<1>0. n \in Nat /\ n \in Int /\ 1 \in Int /\ Len(t) \in Nat
  OBVIOUS
<1>n. n = Len(t) + 1
  OBVIOUS
<1> HIDE DEF n
<1>1. first \in [D -> A]
  BY DEF TokenNames
<1>2. step \in [D -> [A -> A]]
  <2> SUFFICES ASSUME NEW i \in D, NEW x \in A PROVE AfterChar(x, t[i - 1]) \in A
    OBVIOUS
  <2> QED BY AfterCharIs
<1>3. \A i \in D : /\ first[i] = "ID" /\ from[i] = i - 1
                   /\ \A x \in A : step[i][x] = AfterChar(x, t[i - 1])
  OBVIOUS
<1> HIDE DEF first, from, step, A
<1>4. PICK f \in [D -> A] : Ascends(f, 1, n, first, from, step)
  BY <1>0, <1>1, <1>2, RecursionUp
<1> DEFINE Body(g, i) == IF i = 1 THEN "ID" ELSE AfterChar(g[i - 1], t[i - 1])
           R(g) == g = [i \in 1 .. Len(t) + 1 |-> Body(g, i)]
<1>5. ASSUME NEW i \in D PROVE f[i] = Body(f, i)
  <2>0. i \in Nat /\ i > 0
        /\ f[i] = IF from[i] \in 1 .. i - 1 THEN step[i][f[from[i]]] ELSE first[i]
    BY <1>0, <1>4 DEF Ascends
  <2>1. CASE i = 1
    <3>1. from[i] = 0
      BY <1>3, <2>1
    <3>2. ~ (from[i] \in 1 .. i - 1)
      BY <3>1
    <3>3. f[i] = first[i]
      BY <2>0, <3>2
    <3> QED BY <1>3, <2>1, <3>3
  <2>2. CASE i # 1
    <3>1. from[i] = i - 1 /\ i - 1 \in 1 .. i - 1 /\ i - 1 \in D
      BY <1>0, <1>3, <2>0, <2>2
    <3>2. f[i - 1] \in A
      BY <3>1
    <3>3. f[i] = step[i][f[i - 1]]
      BY <2>0, <3>1
    <3> QED BY <1>3, <2>2, <3>2, <3>3
  <2> QED BY <2>1, <2>2
<1>6. Tokens(t) = CHOOSE g : R(g)
  BY DEF Tokens
<1> HIDE DEF Body
<1>7. R(f)
  BY <1>5, <1>n
<1> HIDE DEF R
<1>8. R(Tokens(t))
  BY <1>6, <1>7, Zenon
<1>9. \A i \in D : Tokens(t)[i] = Body(Tokens(t), i)
  BY <1>8, <1>n DEF R
<1>10. Tokens(t)[1] = "ID"
  BY <1>0, <1>9, <1>n DEF Body
<1>11. ASSUME NEW i \in 1 .. Len(t)
       PROVE  Tokens(t)[i + 1] = AfterChar(Tokens(t)[i], t[i])
  <2>1. i + 1 \in D /\ i + 1 # 1 /\ (i + 1) - 1 = i
    BY <1>0, <1>n
  <2>2. Tokens(t)[i + 1] = Body(Tokens(t), i + 1)
    BY <1>9, <2>1
  <2> QED BY <2>1, <2>2 DEF Body
<1> QED BY <1>10, <1>11

\* A token goes on through the characters that keep it.
LEMMA TokenRun ==
  ASSUME NEW t \in Seq(Char), NEW p \in Nat \ {0}, NEW e \in Nat, p <= e, e <= Len(t) + 1,
         NEW tok, Tokens(t)[p] = tok,
         \A i \in p .. e - 1 : AfterChar(tok, t[i]) = tok
  PROVE  \A i \in p..e : Tokens(t)[i] = tok
<1> DEFINE S == {k \in Nat : p + k <= e => Tokens(t)[p + k] = tok}
<1>1. 0 \in S
  OBVIOUS
<1>2. ASSUME NEW k \in Nat, k \in S PROVE k + 1 \in S
  <2> SUFFICES ASSUME p + (k + 1) <= e PROVE Tokens(t)[p + (k + 1)] = tok
    OBVIOUS
  <2> DEFINE j == p + k
  <2>1. j \in p .. e - 1 /\ j \in 1 .. Len(t) /\ p + (k + 1) = j + 1 /\ Tokens(t)[j] = tok
    BY <1>2
  <2> HIDE DEF j
  <2>2. Tokens(t)[j + 1] = AfterChar(Tokens(t)[j], t[j])
    BY <2>1, TokensAre
  <2> QED BY <2>1, <2>2
<1> HIDE DEF S
<1>3. \A k \in Nat : k \in S
  BY <1>1, <1>2, Induction
<1>4. ASSUME NEW i \in p..e PROVE Tokens(t)[i] = tok
  <2>1. i - p \in Nat /\ p + (i - p) = i /\ i <= e
    OBVIOUS
  <2>2. i - p \in S
    BY <1>3, <2>1
  <2>3. p + (i - p) <= e => Tokens(t)[p + (i - p)] = tok
    BY <2>2 DEF S
  <2> QED BY <2>1, <2>3
<1> QED BY <1>4

LEMMA WordTokens ==
  ASSUME NEW t \in Seq(Char), NEW p \in Nat \ {0}, NEW e \in Nat, NEW tok,
         Tokens(t)[p] = tok, NEW class, NEW s \in Seq(class), e = p + Len(s),
         \A c \in class : AfterChar(tok, c) = tok, Occurs(s, t, p)
  PROVE  /\ \A i \in p..e : Tokens(t)[i] = tok
         /\ e <= Len(t) /\ t[e] = "space" => Tokens(t)[e + 1] = AfterChar(tok, "space")
<1>1. Len(s) \in Nat /\ Len(t) \in Nat /\ p <= e /\ e <= Len(t) + 1
  BY DEF Occurs
<1>2. ASSUME NEW i \in p .. e - 1 PROVE AfterChar(tok, t[i]) = tok
  <2> DEFINE k == i - p + 1
  <2>1. k \in 1 .. Len(s) /\ p + k - 1 = i
    BY <1>1
  <2> HIDE DEF k
  <2>2. t[p + k - 1] = s[k] /\ s[k] \in class
    BY <2>1 DEF Occurs
  <2> QED BY <2>1, <2>2
<1>3. \A i \in p..e : Tokens(t)[i] = tok
  BY <1>1, <1>2, TokenRun
<1>4. ASSUME e <= Len(t), t[e] = "space" PROVE Tokens(t)[e + 1] = AfterChar(tok, "space")
  <2>1. e \in 1 .. Len(t) /\ e \in p..e
    BY <1>1, <1>4
  <2>2. Tokens(t)[e + 1] = AfterChar(Tokens(t)[e], t[e])
    BY <2>1, TokensAre
  <2> QED BY <1>3, <1>4, <2>1, <2>2
<1> QED BY <1>3, <1>4

\* The token of each character of a header.
LEMMA HeaderTokens ==
  ASSUME NEW r, Formed(r), NEW t \in Seq(Char), HeaderIn(r, t)
  PROVE  /\ \A i \in 1 .. SrcAt(r) - 1 : Tokens(t)[i] = "ID"
         /\ \A i \in SrcAt(r) .. DstAt(r) - 1 : Tokens(t)[i] = "MODSRC"
         /\ \A i \in DstAt(r) .. CodeAt(r) - 1 : Tokens(t)[i] = "MODDST"
         /\ \A i \in CodeAt(r) .. CodeEnd(r) : Tokens(t)[i] = "CODE"
         /\ CodeEnd(r) <= Len(t) /\ t[CodeEnd(r)] = "space" =>
              \A i \in CodeEnd(r) + 1 .. Len(t) + 1 : Tokens(t)[i] = "NVL"
         /\ CodeEnd(r) <= Len(t) + 1
<1> DEFINE T == Tokens(t)
           ps == SrcAt(r)
           pd == DstAt(r)
           pc1 == CodeAt(r)
           pe == CodeEnd(r)
           n == Len(t)
<1>1. /\ ps \in Nat /\ pd \in Nat /\ pc1 \in Nat /\ pe \in Nat
      /\ 2 < ps /\ ps < pd /\ pd < pc1 /\ pc1 <= pe
      /\ Len(TextOfId[r.id]) = ps - 2 /\ Len(r.src) = pd - ps - 1
      /\ Len(r.dst) = pc1 - pd - 1 /\ Len(r.code) = pe - pc1
  BY HeaderPlaces
<1>2. /\ TextOfId[r.id] \in Seq(RidChar) /\ r.src \in Seq(ModChar) /\ r.dst \in Seq(ModChar)
      /\ r.code \in Seq(CodeChar)
  BY TextOfIdIs DEF Formed
<1>3. /\ Occurs(TextOfId[r.id], t, 1) /\ t[ps - 1] = "space"
      /\ Occurs(r.src, t, ps) /\ t[pd - 1] = "space"
      /\ Occurs(r.dst, t, pd) /\ t[pc1 - 1] = "space"
      /\ Occurs(r.code, t, pc1)
  BY DEF HeaderIn
<1>n. n \in Nat /\ n = Len(t)
  OBVIOUS
<1> HIDE DEF ps, pd, pc1, pe, n
<1>4. pe <= n + 1
  BY <1>1, <1>3, <1>n DEF Occurs
<1>5. (\A i \in 1 .. ps - 1 : T[i] = "ID") /\ T[ps] = "MODSRC"
  <2> DEFINE e == ps - 1
             tok == "ID"
             w == TextOfId[r.id]
             class == RidChar
  <2>1. e \in Nat /\ e = 1 + Len(w) /\ e <= n + 1 /\ 1 \in Nat \ {0}
    BY <1>1, <1>4, <1>n
  <2>2. e <= n /\ e + 1 = ps /\ t[e] = "space"
    BY <1>1, <1>3, <1>4, <1>n
  <2>3. T[1] = tok /\ w \in Seq(class) /\ Occurs(w, t, 1)
    BY <1>2, <1>3, TokensAre
  <2>4. \A c \in class : AfterChar(tok, c) = tok
    BY AfterCharIs
  <2>5. AfterChar(tok, "space") = "MODSRC"
    BY AfterCharIs
  <2>6. tok = "ID"
    OBVIOUS
  <2>e. e = ps - 1
    OBVIOUS
  <2> HIDE DEF e, tok, w, class
  <2>7. /\ \A i \in 1..e : T[i] = tok
        /\ e <= Len(t) /\ t[e] = "space" => T[e + 1] = AfterChar(tok, "space")
    BY <2>1, <2>3, <2>4, WordTokens
  <2> QED BY <1>n, <2>2, <2>5, <2>6, <2>7, <2>e
<1>6. (\A i \in ps .. pd - 1 : T[i] = "MODSRC") /\ T[pd] = "MODDST"
  <2> DEFINE e == pd - 1
             tok == "MODSRC"
             w == r.src
             class == ModChar
  <2>1. e \in Nat /\ e = ps + Len(w) /\ e <= n + 1 /\ ps \in Nat \ {0}
    BY <1>1, <1>4, <1>n
  <2>2. e <= n /\ e + 1 = pd /\ t[e] = "space"
    BY <1>1, <1>3, <1>4, <1>n
  <2>3. T[ps] = tok /\ w \in Seq(class) /\ Occurs(w, t, ps)
    BY <1>2, <1>3, <1>5
  <2>4. \A c \in class : AfterChar(tok, c) = tok
    BY AfterCharIs
  <2>5. AfterChar(tok, "space") = "MODDST"
    BY AfterCharIs
  <2>6. tok = "MODSRC"
    OBVIOUS
  <2>e. e = pd - 1
    OBVIOUS
  <2> HIDE DEF e, tok, w, class
  <2>7. /\ \A i \in ps..e : T[i] = tok
        /\ e <= Len(t) /\ t[e] = "space" => T[e + 1] = AfterChar(tok, "space")
    BY <2>1, <2>3, <2>4, WordTokens
  <2> QED BY <1>n, <2>2, <2>5, <2>6, <2>7, <2>e
<1>7. (\A i \in pd .. pc1 - 1 : T[i] = "MODDST") /\ T[pc1] = "CODE"
  <2> DEFINE e == pc1 - 1
             tok == "MODDST"
             w == r.dst
             class == ModChar
  <2>1. e \in Nat /\ e = pd + Len(w) /\ e <= n + 1 /\ pd \in Nat \ {0}
    BY <1>1, <1>4, <1>n
  <2>2. e <= n /\ e + 1 = pc1 /\ t[e] = "space"
    BY <1>1, <1>3, <1>4, <1>n
  <2>3. T[pd] = tok /\ w \in Seq(class) /\ Occurs(w, t, pd)
    BY <1>2, <1>3, <1>6
  <2>4. \A c \in class : AfterChar(tok, c) = tok
    BY AfterCharIs
  <2>5. AfterChar(tok, "space") = "CODE"
    BY AfterCharIs
  <2>6. tok = "MODDST"
    OBVIOUS
  <2>e. e = pc1 - 1
    OBVIOUS
  <2> HIDE DEF e, tok, w, class
  <2>7. /\ \A i \in pd..e : T[i] = tok
        /\ e <= Len(t) /\ t[e] = "space" => T[e + 1] = AfterChar(tok, "space")
    BY <2>1, <2>3, <2>4, WordTokens
  <2> QED BY <1>n, <2>2, <2>5, <2>6, <2>7, <2>e
<1>8. /\ \A i \in pc1..pe : T[i] = "CODE"
      /\ pe <= n /\ t[pe] = "space" => T[pe + 1] = "NVL"
  <2> DEFINE e == pe
             tok == "CODE"
             w == r.code
             class == CodeChar
  <2>1. e \in Nat /\ e = pc1 + Len(w) /\ e <= n + 1 /\ pc1 \in Nat \ {0}
    BY <1>1, <1>4, <1>n
  <2>3. T[pc1] = tok /\ w \in Seq(class) /\ Occurs(w, t, pc1)
    BY <1>2, <1>3, <1>7
  <2>4. \A c \in class : AfterChar(tok, c) = tok
    BY AfterCharIs
  <2>5. AfterChar(tok, "space") = "NVL"
    BY AfterCharIs
  <2>6. tok = "CODE"
    OBVIOUS
  <2>e. e = pe
    OBVIOUS
  <2> HIDE DEF e, tok, w, class
  <2>7. /\ \A i \in pc1..e : T[i] = tok
        /\ e <= Len(t) /\ t[e] = "space" => T[e + 1] = AfterChar(tok, "space")
    BY <2>1, <2>3, <2>4, WordTokens
  <2> QED BY <1>n, <2>5, <2>6, <2>7, <2>e
<1>9. ASSUME pe <= n, t[pe] = "space"
      PROVE  \A i \in pe + 1 .. n + 1 : T[i] = "NVL"
  <2>1. pe + 1 \in Nat \ {0} /\ n + 1 \in Nat /\ pe + 1 <= n + 1 /\ n + 1 <= Len(t) + 1
    BY <1>1, <1>9, <1>n
  <2>2. T[pe + 1] = "NVL"
    BY <1>8, <1>9
  <2>3. \A i \in pe + 1 .. (n + 1) - 1 : AfterChar("NVL", t[i]) = "NVL"
    BY AfterCharIs
  <2> QED BY <2>1, <2>2, <2>3, TokenRun
<1> QED BY <1>4, <1>5, <1>6, <1>7, <1>8, <1>9 DEF ps, pd, pc1, pe, n

\* A token is found where its first character is; the code may be empty at the end.
LEMMA SeekFinds ==
  ASSUME NEW t \in Seq(Char), NEW tok, NEW p \in 1 .. Len(t) + 1, Tokens(t)[p] = tok,
         \A i \in 1 .. p - 1 : Tokens(t)[i] # tok, p = Len(t) + 1 => tok = "CODE"
  PROVE  req_text_token_seek(t, tok) = p
<1> DEFINE at == { i \in 1 .. Len(t) : Tokens(t)[i] = tok }
<1>1. Len(t) \in Nat /\ at \subseteq Nat /\ p \in Nat
  OBVIOUS
<1>2. req_text_token_seek(t, tok) =
        IF at # {} THEN Min(at)
        ELSE IF Tokens(t)[Len(t) + 1] = "CODE" THEN Len(t) + 1 ELSE 0
  BY DEF req_text_token_seek
<1>3. \A i \in at : i >= p
  <2> SUFFICES ASSUME NEW i \in 1 .. Len(t), Tokens(t)[i] = tok, ~ (i >= p) PROVE FALSE
    OBVIOUS
  <2>1. i \in 1 .. p - 1
    BY <1>1
  <2> QED BY <2>1
<1>4. p <= Len(t) => p \in at
  BY <1>1
<1>5. \A i \in at : i <= Len(t)
  OBVIOUS
<1> HIDE DEF at
<1>6. CASE p <= Len(t)
  <2>1. at # {} /\ p \in at
    BY <1>4, <1>6
  <2>2. Min(at) \in at /\ \A x \in at : Min(at) <= x
    BY <1>1, <2>1, MinExists
  <2> DEFINE m == Min(at)
  <2>3. m \in Nat /\ m <= p /\ p <= m
    <3>1. m \in Nat
      BY <1>1, <2>2
    <3>2. m <= p
      BY <2>1, <2>2
    <3>3. m >= p
      BY <1>3, <2>2
    <3> QED BY <1>1, <3>1, <3>2, <3>3
  <2>4. req_text_token_seek(t, tok) = m
    BY <1>2, <2>1
  <2> HIDE DEF m
  <2> QED BY <1>1, <2>3, <2>4
<1>7. CASE ~ (p <= Len(t))
  <2>1. p = Len(t) + 1
    BY <1>1, <1>7
  <2>2. at = {}
    <3> SUFFICES ASSUME NEW i \in at PROVE FALSE
      OBVIOUS
    <3>1. i \in Nat /\ i >= p /\ i <= Len(t)
      BY <1>1, <1>3, <1>5
    <3> QED BY <1>1, <2>1, <3>1
  <2> QED BY <1>2, <2>1, <2>2
<1> QED BY <1>6, <1>7

LEMMA WordRead ==
  ASSUME NEW t \in Seq(Char), NEW tok, NEW p \in Nat \ {0}, req_text_token_seek(t, tok) = p,
         NEW class, class \subseteq Char, NEW w \in Seq(class), Occurs(w, t, p),
         NEW ends, NEW size, At(t, p + Len(w)) \in ends, At(t, p + Len(w)) \notin class,
         Len(w) <= size
  PROVE  Word(t, tok, class, ends, size) = Is(w)
<1>1. End \notin class
  BY Classes
<1>2. RunEnd(t, p, class) = p + Len(w)
  BY <1>1, RunOfWord
<1>3. w \in Seq(Char) /\ Len(w) \in Nat
  OBVIOUS
<1>4. SubSeq(t, p, p + Len(w) - 1) = w
  BY <1>3, OccursSubSeq
<1>5. (p + Len(w)) - p = Len(w) /\ p # 0
  BY <1>3
<1> DEFINE q == RunEnd(t, p, class)
<1>6. Word(t, tok, class, ends, size) =
        IF p # 0 /\ At(t, q) \in ends /\ q - p <= size THEN Is(SubSeq(t, p, q - 1)) ELSE Fails
  BY DEF Word
<1>7. q = p + Len(w)
  BY <1>2
<1> HIDE DEF q
<1>8. p # 0 /\ At(t, q) \in ends /\ q - p <= size
  BY <1>5, <1>7
<1>9. SubSeq(t, p, q - 1) = w
  BY <1>4, <1>7
<1> QED BY <1>6, <1>8, <1>9

\* A header that was written is read as the request's.  It is at the start of a text
\* that ends behind the code or goes on with a space.
HeaderEnds(r, t) ==
  \/ CodeEnd(r) = Len(t) + 1
  \/ CodeEnd(r) <= Len(t) /\ t[CodeEnd(r)] = "space"

LEMMA HeaderRead ==
  ASSUME NEW r, Formed(r), r.type = "REQUEST", NEW t \in Seq(Char),
         HeaderIn(r, t), HeaderEnds(r, t)
  PROVE  /\ req_text_rid(t) = Is(r.id) /\ req_text_type(t) = Is("REQUEST")
         /\ req_text_src(t) = Is(r.src) /\ req_text_dst(t) = Is(r.dst)
         /\ req_text_code(t) = Is(r.code)
<1> DEFINE ps == SrcAt(r)
           pd == DstAt(r)
           pc1 == CodeAt(r)
           pe == CodeEnd(r)
           n == Len(t)
           id == TextOfId[r.id]
<1>1. /\ ps \in Nat /\ pd \in Nat /\ pc1 \in Nat /\ pe \in Nat
      /\ 2 < ps /\ ps < pd /\ pd < pc1 /\ pc1 <= pe
      /\ Len(id) = ps - 2 /\ Len(r.src) = pd - ps - 1 /\ Len(id) \in 1..ReqIdSize
      /\ Len(r.dst) = pc1 - pd - 1 /\ Len(r.code) = pe - pc1
  BY HeaderPlaces
<1>2. /\ id \in Seq(RidChar) /\ r.src \in Seq(ModChar) /\ r.dst \in Seq(ModChar)
      /\ r.code \in Seq(CodeChar) /\ r.id \in 0..MaxReqId
  BY TextOfIdIs DEF Formed
<1>3. /\ Occurs(id, t, 1) /\ t[ps - 1] = "space"
      /\ Occurs(r.src, t, ps) /\ t[pd - 1] = "space"
      /\ Occurs(r.dst, t, pd) /\ t[pc1 - 1] = "space"
      /\ Occurs(r.code, t, pc1)
  BY DEF HeaderIn
<1>4. /\ \A i \in 1 .. ps - 1 : Tokens(t)[i] = "ID"
      /\ \A i \in ps .. pd - 1 : Tokens(t)[i] = "MODSRC"
      /\ \A i \in pd .. pc1 - 1 : Tokens(t)[i] = "MODDST"
      /\ \A i \in pc1 .. pe : Tokens(t)[i] = "CODE"
      /\ pe <= n + 1
  BY HeaderTokens
<1>5. pe = n + 1 \/ (pe <= n /\ t[pe] = "space")
  BY DEF HeaderEnds
<1>6. Len(r.src) <= ReqModSize /\ Len(r.dst) <= ReqModSize /\ Len(r.code) <= ReqCodeSize
  BY DEF Formed
<1>n. n \in Nat /\ n = Len(t) /\ DOMAIN t = 1..n
  OBVIOUS
<1>c. /\ RidChar \subseteq Char /\ ModChar \subseteq Char /\ CodeChar \subseteq Char
      /\ \A class \in {RidChar, ReplyChar, ModChar, CodeChar} : "space" \notin class
      /\ End \notin Char
  BY Classes
<1> HIDE DEF ps, pd, pc1, pe, n, id
<1>7. At(t, ps - 1) = "space" /\ At(t, pd - 1) = "space" /\ At(t, pc1 - 1) = "space"
  <2>1. ps - 1 \in 1..n /\ pd - 1 \in 1..n /\ pc1 - 1 \in 1..n
    BY <1>1, <1>4, <1>n
  <2> QED BY <1>3, <1>n, <2>1 DEF At
<1>8. At(t, pe) \in {"space", End}
  BY <1>1, <1>5, <1>n DEF At
<1>9. req_text_rid(t) = Is(r.id) /\ req_text_type(t) = Is("REQUEST")
  <2> DEFINE q == RunEnd(t, 1, RidChar)
             d == Len(id)
  <2>1. d \in Nat /\ 1 + d = ps - 1 /\ d >= 1 /\ d <= ReqIdSize /\ 1 \in Nat \ {0}
    BY <1>1, MaxReqIdType
  <2>2. At(t, 1 + Len(id)) \notin RidChar
    BY <1>7, <1>c, <2>1
  <2>3. q = 1 + d
    BY <1>2, <1>3, <1>c, <2>1, <2>2, RunOfWord
  <2>4. SubSeq(t, 1, d) = id
    <3>1. id \in Seq(Char)
      BY <1>2, <1>c
    <3>2. SubSeq(t, 1, 1 + d - 1) = id
      BY <1>3, <2>1, <3>1, OccursSubSeq
    <3> QED BY <2>1, <3>2
  <2>5. At(t, q) = "space" /\ q - 1 = d /\ q # 1
    BY <1>7, <2>1, <2>3
  <2>6. Min({q - 1, ReqIdSize}) = d
    <3>1. {q - 1, ReqIdSize} \subseteq Nat /\ {q - 1, ReqIdSize} # {} /\ q - 1 \in {q - 1, ReqIdSize}
      BY <2>1, <2>5, MaxReqIdType
    <3>2. /\ Min({q - 1, ReqIdSize}) \in {q - 1, ReqIdSize}
          /\ Min({q - 1, ReqIdSize}) <= q - 1
      BY <3>1, MinExists
    <3> HIDE DEF q, d
    <3> QED BY <2>1, <2>5, <3>2, MaxReqIdType
  <2>7. IdOfText(id) = r.id
    BY <1>2, IdIsRead DEF id
  <2>8. req_text_rid(t) =
          IF q = 1 \/ (q <= ReqIdSize /\ At(t, q) \notin ReplyChar \cup {"space"})
          THEN Fails ELSE Is(IdOfText(SubSeq(t, 1, Min({q - 1, ReqIdSize}))))
    BY DEF req_text_rid
  <2>9. req_text_type(t) = CASE At(t, q) \in ReplyChar -> Is("REPLY")
                             [] At(t, q) = "space"     -> Is("REQUEST")
                             [] OTHER                  -> Fails
    BY DEF req_text_type
  <2> HIDE DEF q, d
  <2>10. req_text_rid(t) = Is(r.id)
    BY <2>4, <2>5, <2>6, <2>7, <2>8
  <2>11. req_text_type(t) = Is("REQUEST")
    BY <1>c, <2>5, <2>9
  <2> QED BY <2>10, <2>11
<1>10. req_text_src(t) = Is(r.src)
  <2> DEFINE tok == "MODSRC"
             w == r.src
  <2>1. ps \in 1 .. Len(t) + 1 /\ ps \in Nat \ {0} /\ ps # Len(t) + 1 /\ ps \in ps .. pd - 1
        /\ ps + Len(w) = pd - 1
    BY <1>1, <1>4, <1>n
  <2>2. Tokens(t)[ps] = tok /\ \A i \in 1 .. ps - 1 : Tokens(t)[i] # tok
    BY <1>4, <2>1
  <2>3. w \in Seq(ModChar) /\ Occurs(w, t, ps) /\ Len(w) <= ReqModSize
    BY <1>2, <1>3, <1>6
  <2>4. At(t, ps + Len(w)) \in {"space"} /\ At(t, ps + Len(w)) \notin ModChar
    BY <1>7, <1>c, <2>1
  <2> HIDE DEF tok, w
  <2>5. req_text_token_seek(t, tok) = ps
    BY <2>1, <2>2, SeekFinds
  <2>6. Word(t, tok, ModChar, {"space"}, ReqModSize) = Is(w)
    BY <1>c, <2>1, <2>3, <2>4, <2>5, WordRead
  <2> QED BY <2>6 DEF req_text_src, tok, w
<1>11. req_text_dst(t) = Is(r.dst)
  <2> DEFINE tok == "MODDST"
             w == r.dst
  <2>1. pd \in 1 .. Len(t) + 1 /\ pd \in Nat \ {0} /\ pd # Len(t) + 1 /\ pd \in pd .. pc1 - 1
        /\ pd + Len(w) = pc1 - 1
    BY <1>1, <1>4, <1>n
  <2>2. Tokens(t)[pd] = tok /\ \A i \in 1 .. pd - 1 : Tokens(t)[i] # tok
    <3>1. \A i \in 1 .. pd - 1 : i \in 1 .. ps - 1 \/ i \in ps .. pd - 1
      BY <1>1
    <3> QED BY <1>4, <2>1, <3>1
  <2>3. w \in Seq(ModChar) /\ Occurs(w, t, pd) /\ Len(w) <= ReqModSize
    BY <1>2, <1>3, <1>6
  <2>4. At(t, pd + Len(w)) \in {"space"} /\ At(t, pd + Len(w)) \notin ModChar
    BY <1>7, <1>c, <2>1
  <2> HIDE DEF tok, w
  <2>5. req_text_token_seek(t, tok) = pd
    BY <2>1, <2>2, SeekFinds
  <2>6. Word(t, tok, ModChar, {"space"}, ReqModSize) = Is(w)
    BY <1>c, <2>1, <2>3, <2>4, <2>5, WordRead
  <2> QED BY <2>6 DEF req_text_dst, tok, w
<1>12. req_text_code(t) = Is(r.code)
  <2> DEFINE tok == "CODE"
             w == r.code
             ends == {"space", End}
  <2>1. pc1 \in 1 .. Len(t) + 1 /\ pc1 \in Nat \ {0} /\ pc1 \in pc1..pe /\ pc1 + Len(w) = pe
    BY <1>1, <1>4, <1>n
  <2>2. Tokens(t)[pc1] = tok /\ \A i \in 1 .. pc1 - 1 : Tokens(t)[i] # tok
    <3>1. \A i \in 1 .. pc1 - 1 : i \in 1 .. ps - 1 \/ i \in ps .. pd - 1 \/ i \in pd .. pc1 - 1
      BY <1>1
    <3> QED BY <1>4, <2>1, <3>1
  <2>3. w \in Seq(CodeChar) /\ Occurs(w, t, pc1) /\ Len(w) <= ReqCodeSize
    BY <1>2, <1>3, <1>6
  <2>4. At(t, pc1 + Len(w)) \in ends /\ At(t, pc1 + Len(w)) \notin CodeChar
    BY <1>8, <1>c, <2>1
  <2>t. tok = "CODE"
    OBVIOUS
  <2> HIDE DEF tok, w, ends
  <2>5. req_text_token_seek(t, tok) = pc1
    BY <2>1, <2>2, <2>t, SeekFinds
  <2>6. Word(t, tok, CodeChar, ends, ReqCodeSize) = Is(w)
    BY <1>c, <2>1, <2>3, <2>4, <2>5, WordRead
  <2> QED BY <2>6 DEF req_text_code, tok, w, ends
<1> QED BY <1>9, <1>10, <1>11, <1>12
-----------------------------------------------------------------------------
(***************************************************************************)
(* Reading the pairs that were written.                                    *)
(***************************************************************************)

\* A pair without the space behind it, and what it is read as when it ends at e.
Core(p) == p.name \o (IF p.value = <<>> THEN <<>> ELSE <<"=">> \o ValueText(p.value))

FormatRead(p) == IF p.value = <<>> THEN "unset" ELSE nvp_value_format(p.value)

ReadAs(p, e) ==
  [name |-> p.name, format |-> FormatRead(p),
   value |-> IF FormatRead(p) = "encoded" THEN Digits(p.value) ELSE p.value, next |-> e]

\* The arms of req_text_nv_parse, for the place v behind the name and a "=".
LEMMA ParseArms ==
  ASSUME NEW t, NEW p \in Nat, NEW v, v = RunEnd(t, p, NameChar) + 1, v - 1 \in Int,
         NEW name, name = Run(t, p, NameChar), NEW next \in Int
  PROVE  /\ At(t, v - 1) \in {End, "space"} =>
              req_text_nv_parse(t, p) = Pair(name, "unset", <<>>, v - 1)
         /\ /\ At(t, v - 1) = "=" /\ At(t, v) = "quote"
            /\ RunEnd(t, v + 1, QValueChar) = next /\ At(t, next) = "quote"
            => req_text_nv_parse(t, p) =
                 Pair(name, "quoted", SubSeq(t, v + 1, next - 1), next + 1)
         /\ /\ At(t, v - 1) = "=" /\ At(t, v) = "#"
            /\ RunEnd(t, v + 1, ValueChar) = next /\ At(t, next) \in {End, "space"}
            => req_text_nv_parse(t, p) =
                 Pair(name, "encoded", SubSeq(t, v + 1, next - 1), next)
         /\ /\ At(t, v - 1) = "=" /\ At(t, v) \in ValueChar
            /\ RunEnd(t, v, ValueChar) = next /\ At(t, next) \in {End, "space"}
            => req_text_nv_parse(t, p) =
                 Pair(name, "unquoted", SubSeq(t, v, next - 1), next)
<1> DEFINE first == At(t, v)
           close == RunEnd(t, v + 1, QValueChar)
           blank == RunEnd(t, IF first = "#" THEN v + 1 ELSE v, ValueChar)
           c1 == At(t, v - 1) \in {End, "space"}
           c2 == At(t, v - 1) = "=" /\ first = "quote" /\ At(t, close) = "quote"
           c3 == At(t, v - 1) = "=" /\ first = "#" /\ At(t, blank) \in {End, "space"}
           c4 == At(t, v - 1) = "=" /\ first \in ValueChar /\ At(t, blank) \in {End, "space"}
           r1 == Pair(name, "unset", <<>>, v - 1)
           r2 == Pair(name, "quoted", SubSeq(t, v + 1, close - 1), close + 1)
           r3 == Pair(name, "encoded", SubSeq(t, v + 1, blank - 1), blank)
           r4 == Pair(name, "unquoted", SubSeq(t, v, blank - 1), blank)
<1>1. req_text_nv_parse(t, p) = CASE c1 -> r1 [] c2 -> r2 [] c3 -> r3 [] c4 -> r4
                                  [] OTHER -> Fails
  BY DEF req_text_nv_parse
<1>2. "quote" \notin ValueChar /\ "#" \notin ValueChar
  BY Classes
<1>3. "=" \notin {End, "space"} /\ "quote" # "#"
  BY DEF End
<1>b. (first = "#" => blank = RunEnd(t, v + 1, ValueChar))
      /\ (first # "#" => blank = RunEnd(t, v, ValueChar))
  OBVIOUS
<1> HIDE DEF first, close, blank
<1>4. /\ c1 => ~c2 /\ ~c3 /\ ~c4
      /\ c2 => ~c1 /\ ~c3 /\ ~c4
      /\ c3 => ~c1 /\ ~c2 /\ ~c4
      /\ c4 => ~c1 /\ ~c2 /\ ~c3
  BY <1>2, <1>3
<1>c. /\ c1 <=> At(t, v - 1) \in {End, "space"}
      /\ At(t, v - 1) = "=" /\ first = "quote" /\ At(t, close) = "quote" => c2
      /\ At(t, v - 1) = "=" /\ first = "#" /\ At(t, blank) \in {End, "space"} => c3
      /\ At(t, v - 1) = "=" /\ first \in ValueChar /\ At(t, blank) \in {End, "space"} => c4
  OBVIOUS
<1> HIDE DEF c1, c2, c3, c4
<1>5. /\ c1 => req_text_nv_parse(t, p) = r1
      /\ c2 => req_text_nv_parse(t, p) = r2
      /\ c3 => req_text_nv_parse(t, p) = r3
      /\ c4 => req_text_nv_parse(t, p) = r4
  BY <1>1, <1>4
<1>6. ASSUME At(t, v - 1) = "=", At(t, v) = "quote",
             RunEnd(t, v + 1, QValueChar) = next, At(t, next) = "quote"
      PROVE  req_text_nv_parse(t, p) =
               Pair(name, "quoted", SubSeq(t, v + 1, next - 1), next + 1)
  <2>1. c2 /\ close = next
    BY <1>6, <1>c DEF first, close
  <2> QED BY <1>5, <2>1
<1>7. ASSUME At(t, v - 1) = "=", At(t, v) = "#",
             RunEnd(t, v + 1, ValueChar) = next, At(t, next) \in {End, "space"}
      PROVE  req_text_nv_parse(t, p) =
               Pair(name, "encoded", SubSeq(t, v + 1, next - 1), next)
  <2>1. first = "#" /\ blank = next
    BY <1>7, <1>b DEF first
  <2>2. c3
    BY <1>7, <1>c, <2>1
  <2> QED BY <1>5, <2>1, <2>2
<1>8. ASSUME At(t, v - 1) = "=", At(t, v) \in ValueChar,
             RunEnd(t, v, ValueChar) = next, At(t, next) \in {End, "space"}
      PROVE  req_text_nv_parse(t, p) =
               Pair(name, "unquoted", SubSeq(t, v, next - 1), next)
  <2>1. first # "#" /\ first \in ValueChar
    BY <1>2, <1>8 DEF first
  <2>2. blank = next
    BY <1>8, <1>b, <2>1
  <2>3. c4
    BY <1>8, <1>c, <2>1, <2>2
  <2> QED BY <1>5, <2>2, <2>3
<1>9. At(t, v - 1) \in {End, "space"} => req_text_nv_parse(t, p) = r1
  BY <1>5, <1>c
<1> HIDE DEF r2, r3, r4
<1> QED BY <1>6, <1>7, <1>8, <1>9

\* A pair that was written is read as such.
LEMMA ParseWritten ==
  ASSUME NEW p \in PairsOfText, NEW t \in Seq(Char), NEW i \in Nat \ {0}, NEW e \in Nat,
         e = i + Len(Core(p)), Occurs(Core(p), t, i), At(t, e) \in {End, "space"}
  PROVE  req_text_nv_parse(t, i) = Is(ReadAs(p, e))
<1> DEFINE n == p.name
           v == p.value
           x == ValueText(v)
           d == Digits(v)
           m == i + Len(n) + 1
<1>1. n \in Seq(NameChar) /\ n \in Seq(Char) /\ v \in Seq(Char) /\ x \in Seq(Char)
  BY PairText, Classes DEF PairsOfText
<1>2. d \in Seq(EValueChar) /\ Len(d) = 2 * Len(v)
  BY <1>1, EncodedDecodes
<1>3. v # <<>> => Core(p) = n \o (<<"=">> \o x)
  BY DEF Core
<1>4. v = <<>> => Core(p) = n
  BY <1>1 DEF Core
<1>5. /\ FormatRead(p) = (IF v = <<>> THEN "unset" ELSE nvp_value_format(v))
      /\ ReadAs(p, e) = [name |-> n, format |-> FormatRead(p),
                         value |-> IF FormatRead(p) = "encoded" THEN d ELSE v, next |-> e]
  BY DEF FormatRead, ReadAs
<1>6. /\ nvp_value_format(v) = "unquoted" => x = v
      /\ nvp_value_format(v) = "quoted" => x = <<"quote">> \o v \o <<"quote">>
      /\ nvp_value_format(v) = "encoded" => x = <<"#">> \o d
  BY <1>1, ValueTextIs
<1>7. \/ nvp_value_format(v) = "unquoted" /\ v \in Seq(ValueChar)
      \/ nvp_value_format(v) = "quoted" /\ v \in Seq(QValueChar)
      \/ nvp_value_format(v) = "encoded"
  BY <1>1, FormatOf
<1>c. /\ NameChar \subseteq Char /\ QValueChar \subseteq Char /\ ValueChar \subseteq QValueChar
      /\ EValueChar \subseteq ValueChar /\ End \notin Char
      /\ "space" \notin NameChar /\ "space" \notin ValueChar /\ "=" \notin NameChar
      /\ "quote" \notin QValueChar /\ "=" \in Char /\ "quote" \in Char /\ "#" \in Char
  BY Classes
<1>m. m \in Nat /\ Len(n) \in Nat /\ m = i + Len(n) + 1 /\ Len(t) \in Nat
      /\ m - 1 = i + Len(n) /\ m - 1 \in Int /\ m \in Int
  BY <1>1
<1> HIDE DEF n, v, x, d, m
<1>8. ASSUME NEW w \in Seq(Char), NEW k \in Nat \ {0}, Occurs(w, t, k), NEW j \in 1 .. Len(w)
      PROVE  At(t, k + j - 1) = w[j]
  <2>1. t[k + j - 1] = w[j] /\ k + Len(w) <= Len(t) + 1 /\ Len(w) \in Nat
    BY <1>8 DEF Occurs
  <2>2. k + j - 1 \in 1 .. Len(t)
    BY <1>m, <2>1
  <2> QED BY <2>1, <2>2, AtIs
<1>9. ASSUME Occurs(n, t, i), At(t, m - 1) \notin NameChar
      PROVE  RunEnd(t, i, NameChar) = m - 1 /\ Run(t, i, NameChar) = n
  <2>1. End \notin NameChar /\ At(t, i + Len(n)) \notin NameChar
    BY <1>9, <1>c, <1>m
  <2> QED BY <1>1, <1>9, <1>c, <1>m, <2>1, RunOfWord
<1>10. CASE v = <<>>
  <2>1. Occurs(n, t, i) /\ e = m - 1
    BY <1>4, <1>10, <1>m
  <2>2. At(t, m - 1) \notin NameChar
    BY <1>c, <2>1
  <2>3. RunEnd(t, i, NameChar) = m - 1 /\ Run(t, i, NameChar) = n
    BY <1>9, <2>1, <2>2
  <2>4. m = RunEnd(t, i, NameChar) + 1 /\ n = Run(t, i, NameChar) /\ At(t, m - 1) \in {End, "space"}
    BY <1>m, <2>1, <2>3
  <2>5. req_text_nv_parse(t, i) = Pair(n, "unset", <<>>, m - 1)
    BY <1>m, <2>4, ParseArms
  <2>6. FormatRead(p) = "unset" /\ ReadAs(p, e) = [name |-> n, format |-> "unset",
                                                   value |-> <<>>, next |-> m - 1]
    BY <1>5, <1>10, <2>1
  <2> QED BY <2>5, <2>6 DEF Pair
<1>11. CASE v # <<>>
  <2> DEFINE q == <<"=">>
             y == q \o x
  <2>0. Core(p) = n \o y
    BY <1>3, <1>11
  <2>q. q \in Seq(Char) /\ Len(q) = 1 /\ q[1] = "="
    BY <1>c
  <2> HIDE DEF q
  <2>1. y \in Seq(Char) /\ Len(y) = Len(q) + Len(x)
    <3>1. q \in Seq(Char) /\ x \in Seq(Char)
      BY <1>1, <2>q
    <3>2. q \o x \in Seq(Char) /\ Len(q \o x) = Len(q) + Len(x)
      BY <3>1, ConcatParts
    <3> QED BY <3>2
  <2>2. Occurs(n, t, i) /\ Occurs(y, t, i + Len(n)) /\ Len(Core(p)) = Len(n) + Len(y)
    <3>1. Occurs(n \o y, t, i)
      BY <2>0
    <3>2. i \in Nat
      OBVIOUS
    <3> HIDE DEF y
    <3>3. Occurs(n, t, i) /\ Occurs(y, t, i + Len(n))
      BY <1>1, <1>m, <2>1, <3>1, <3>2, OccursConcat
    <3>4. Len(n \o y) = Len(n) + Len(y)
      BY <1>1, <2>1, ConcatParts
    <3> QED BY <2>0, <3>3, <3>4 DEF y
  <2>3. Occurs(q, t, m - 1) /\ Occurs(x, t, m)
    <3>1. Occurs(q \o x, t, m - 1) /\ m - 1 \in Nat
      BY <1>m, <2>2
    <3>2. Occurs(q, t, m - 1) /\ Occurs(x, t, (m - 1) + Len(q))
      BY <1>1, <1>m, <2>q, <3>1, OccursConcat
    <3>3. (m - 1) + Len(q) = m
      BY <1>m, <2>q
    <3> QED BY <3>2, <3>3
  <2> HIDE DEF y
  <2>l. Len(x) \in Nat /\ e = m + Len(x) /\ m - 1 \in Nat \ {0}
    BY <1>1, <1>m, <2>q, <2>1, <2>2
  <2>4. At(t, m - 1) = "="
    <3>1. 1 \in 1 .. Len(q) /\ (m - 1) + 1 - 1 = m - 1
      BY <1>m, <2>q
    <3>2. At(t, (m - 1) + 1 - 1) = q[1]
      BY <1>8, <2>q, <2>3, <2>l, <3>1
    <3> QED BY <2>q, <3>1, <3>2
  <2>5. RunEnd(t, i, NameChar) = m - 1 /\ Run(t, i, NameChar) = n
    BY <1>9, <1>c, <2>2, <2>4
  <2>6. m = RunEnd(t, i, NameChar) + 1 /\ n = Run(t, i, NameChar)
    BY <1>m, <2>5
  <2>m. m \in Nat \ {0} /\ m + 1 \in Nat \ {0} /\ i \in Nat /\ e \in Int
    BY <1>m, <2>l
  <2>7. CASE nvp_value_format(v) = "unquoted" /\ v \in Seq(ValueChar)
    <3>1. x = v /\ Len(v) \in Nat /\ Len(v) > 0 /\ v[1] \in ValueChar
      BY <1>6, <1>11, <2>7
    <3>2. At(t, m) \in ValueChar
      <4>1. 1 \in 1 .. Len(x) /\ m + 1 - 1 = m
        BY <1>m, <3>1
      <4>2. At(t, m + 1 - 1) = x[1]
        BY <1>1, <1>8, <2>3, <2>m, <4>1
      <4> QED BY <3>1, <4>1, <4>2
    <3>3. RunEnd(t, m, ValueChar) = e
      <4>1. End \notin ValueChar /\ ValueChar \subseteq Char
        BY <1>c
      <4>2. At(t, m + Len(v)) \notin ValueChar
        BY <1>c, <2>l, <3>1
      <4>3. RunEnd(t, m, ValueChar) = m + Len(v)
        BY <2>3, <2>7, <2>m, <3>1, <4>1, <4>2, RunOfWord
      <4> QED BY <2>l, <3>1, <4>3
    <3>4. SubSeq(t, m, e - 1) = v
      <4>1. SubSeq(t, m, m + Len(v) - 1) = v
        BY <1>1, <2>3, <2>m, <3>1, OccursSubSeq
      <4>2. e - 1 = m + Len(v) - 1
        BY <2>l, <2>m, <3>1
      <4> QED BY <4>1, <4>2, Zenon
    <3>5. req_text_nv_parse(t, i) = Pair(n, "unquoted", SubSeq(t, m, e - 1), e)
      BY <1>m, <2>4, <2>6, <2>m, <3>2, <3>3, ParseArms
    <3>6. FormatRead(p) = "unquoted"
      BY <1>5, <1>11, <2>7
    <3>7. ReadAs(p, e) = [name |-> n, format |-> "unquoted", value |-> v, next |-> e]
      BY <1>5, <3>6
    <3> QED BY <3>4, <3>5, <3>7 DEF Pair
  <2>8. CASE nvp_value_format(v) = "quoted" /\ v \in Seq(QValueChar)
    <3> DEFINE b == <<"quote">>
               bv == b \o v
    <3>1. x = bv \o b
      BY <1>6, <2>8
    <3>2. b \in Seq(Char) /\ Len(b) = 1 /\ b[1] = "quote" /\ Len(v) \in Nat
      BY <1>1, <1>c
    <3> HIDE DEF b
    <3>3. bv \in Seq(Char) /\ Len(bv) = Len(b) + Len(v)
      BY <1>1, <3>2, ConcatParts
    <3>4. Occurs(bv, t, m) /\ Occurs(b, t, m + Len(bv)) /\ Len(x) = Len(bv) + Len(b)
      <4> HIDE DEF bv
      <4>1. Occurs(bv \o b, t, m)
        BY <2>3, <3>1
      <4>2. Occurs(bv, t, m) /\ Occurs(b, t, m + Len(bv))
        BY <1>m, <3>2, <3>3, <4>1, OccursConcat
      <4>3. Len(bv \o b) = Len(bv) + Len(b)
        BY <3>2, <3>3, ConcatParts
      <4> QED BY <3>1, <4>2, <4>3
    <3>5. Occurs(b, t, m) /\ Occurs(v, t, m + Len(b))
      <4>1. Occurs(b \o v, t, m)
        BY <3>4
      <4>2. b \in Seq(Char) /\ v \in Seq(Char) /\ m \in Nat
        BY <1>1, <1>m, <3>2
      <4> QED BY <4>1, <4>2, OccursConcat
    <3> HIDE DEF bv
    <3>6. /\ m + Len(b) = m + 1 /\ m + Len(bv) = (m + 1) + Len(v)
          /\ e - 1 = (m + 1) + Len(v) /\ e - 1 \in Nat \ {0}
      BY <1>m, <2>l, <3>2, <3>3, <3>4
    <3>7. At(t, m) = "quote" /\ At(t, e - 1) = "quote"
      <4>1. 1 \in 1 .. Len(b) /\ m + 1 - 1 = m /\ (e - 1) + 1 - 1 = e - 1
        BY <1>m, <3>2, <3>6
      <4>2. At(t, m + 1 - 1) = b[1]
        BY <1>8, <2>m, <3>2, <3>5, <4>1
      <4>3. Occurs(b, t, e - 1)
        BY <3>4, <3>6
      <4>4. At(t, (e - 1) + 1 - 1) = b[1]
        BY <1>8, <3>2, <3>6, <4>1, <4>3
      <4> QED BY <3>2, <4>1, <4>2, <4>4
    <3>8. RunEnd(t, m + 1, QValueChar) = e - 1
      <4>1. End \notin QValueChar
        BY <1>c
      <4>2. At(t, (m + 1) + Len(v)) \notin QValueChar
        BY <1>c, <3>6, <3>7
      <4>3. Occurs(v, t, m + 1)
        BY <3>5, <3>6
      <4>4. RunEnd(t, m + 1, QValueChar) = (m + 1) + Len(v)
        BY <1>c, <2>8, <2>m, <4>1, <4>2, <4>3, RunOfWord
      <4> QED BY <3>6, <4>4
    <3>9. SubSeq(t, m + 1, (e - 1) - 1) = v
      <4>1. SubSeq(t, m + 1, (m + 1) + Len(v) - 1) = v
        BY <1>1, <2>m, <3>5, <3>6, OccursSubSeq
      <4>2. (e - 1) - 1 = (m + 1) + Len(v) - 1
        BY <2>m, <3>2, <3>6
      <4> QED BY <4>1, <4>2, Zenon
    <3>10. e - 1 \in Int /\ (e - 1) + 1 = e
      BY <2>m
    <3>11. req_text_nv_parse(t, i) = Pair(n, "quoted", SubSeq(t, m + 1, (e - 1) - 1), (e - 1) + 1)
      BY <1>m, <2>4, <2>6, <2>m, <3>7, <3>8, <3>10, ParseArms
    <3>12. FormatRead(p) = "quoted"
      BY <1>5, <1>11, <2>8
    <3>13. ReadAs(p, e) = [name |-> n, format |-> "quoted", value |-> v, next |-> e]
      BY <1>5, <3>12
    <3> QED BY <3>9, <3>10, <3>11, <3>13 DEF Pair
  <2>9. CASE nvp_value_format(v) = "encoded"
    <3> DEFINE b == <<"#">>
    <3>1. x = b \o d
      BY <1>6, <2>9
    <3>2. b \in Seq(Char) /\ Len(b) = 1 /\ b[1] = "#" /\ d \in Seq(Char) /\ d \in Seq(ValueChar)
          /\ Len(d) \in Nat
      BY <1>2, <1>c
    <3> HIDE DEF b
    <3>3. Occurs(b, t, m) /\ Occurs(d, t, m + Len(b)) /\ Len(x) = Len(b) + Len(d)
      <4>1. Occurs(b \o d, t, m)
        BY <2>3, <3>1
      <4>2. Occurs(b, t, m) /\ Occurs(d, t, m + Len(b))
        BY <1>m, <3>2, <4>1, OccursConcat
      <4>3. Len(b \o d) = Len(b) + Len(d)
        BY <3>2, ConcatParts
      <4> QED BY <3>1, <4>2, <4>3
    <3>4. m + Len(b) = m + 1 /\ e = (m + 1) + Len(d)
      BY <1>m, <2>l, <3>2, <3>3
    <3>5. At(t, m) = "#"
      <4>1. 1 \in 1 .. Len(b) /\ m + 1 - 1 = m
        BY <1>m, <3>2
      <4>2. At(t, m + 1 - 1) = b[1]
        BY <1>8, <2>m, <3>2, <3>3, <4>1
      <4> QED BY <3>2, <4>1, <4>2
    <3>6. Occurs(d, t, m + 1)
      BY <3>3, <3>4
    <3>7. RunEnd(t, m + 1, ValueChar) = e
      <4>1. End \notin ValueChar /\ ValueChar \subseteq Char
        BY <1>c
      <4>2. At(t, (m + 1) + Len(d)) \notin ValueChar
        BY <1>c, <3>4
      <4>3. RunEnd(t, m + 1, ValueChar) = (m + 1) + Len(d)
        BY <2>m, <3>2, <3>6, <4>1, <4>2, RunOfWord
      <4> QED BY <3>4, <4>3
    <3>8. SubSeq(t, m + 1, e - 1) = d
      <4>1. SubSeq(t, m + 1, (m + 1) + Len(d) - 1) = d
        BY <2>m, <3>2, <3>6, OccursSubSeq
      <4>2. e - 1 = (m + 1) + Len(d) - 1
        BY <2>m, <3>2, <3>4
      <4> QED BY <4>1, <4>2, Zenon
    <3>9. req_text_nv_parse(t, i) = Pair(n, "encoded", SubSeq(t, m + 1, e - 1), e)
      BY <1>m, <2>4, <2>6, <2>m, <3>5, <3>7, ParseArms
    <3>10. FormatRead(p) = "encoded"
      BY <1>5, <1>11, <2>9
    <3>11. ReadAs(p, e) = [name |-> n, format |-> "encoded", value |-> d, next |-> e]
      BY <1>5, <3>10
    <3> QED BY <3>8, <3>9, <3>11 DEF Pair
  <2> QED BY <1>7, <2>7, <2>8, <2>9
<1> QED BY <1>10, <1>11

\* The pair that is made of what was read is the one that was written.
LEMMA PairIsBack ==
  ASSUME NEW p \in PairsOfText, NEW e
  PROVE  nvp(ReadAs(p, e)) = Is(p)
<1>1. /\ ReadAs(p, e).name = p.name /\ ReadAs(p, e).format = FormatRead(p)
      /\ ReadAs(p, e).value = IF FormatRead(p) = "encoded" THEN Digits(p.value) ELSE p.value
  BY DEF ReadAs
<1>2. p.value \in Seq(Char) /\ p.name # <<>> /\ p = [name |-> p.name, value |-> p.value]
  BY DEF PairsOfText
<1>3. nvp_value_decode(Digits(p.value)) = Is(p.value)
  BY <1>2, EncodedDecodes
<1> DEFINE value == IF ReadAs(p, e).format = "encoded" THEN nvp_value_decode(ReadAs(p, e).value)
                    ELSE Is(ReadAs(p, e).value)
<1>4. value = Is(p.value)
  BY <1>1, <1>3
<1>5. nvp(ReadAs(p, e)) =
        IF ReadAs(p, e).name = <<>> \/ value.fails THEN Fails
        ELSE Is([name |-> ReadAs(p, e).name, value |-> value.is])
  BY DEF nvp
<1> HIDE DEF value
<1>6. ~ value.fails /\ value.is = p.value
  BY <1>4 DEF Is
<1> QED BY <1>1, <1>2, <1>5, <1>6

\* How a pair whose name ends at q is read: what its value is, and where it ends.
IsRead(t, q, format, value, next) ==
  \/ /\ format = "unset" /\ At(t, q) \in {End, "space"}
     /\ value = <<>> /\ next = q
  \/ /\ format = "quoted" /\ At(t, q) = "=" /\ At(t, q + 1) = "quote"
     /\ next = RunEnd(t, q + 2, QValueChar) + 1 /\ At(t, next - 1) = "quote"
     /\ value = SubSeq(t, q + 2, next - 2)
  \/ /\ format = "encoded" /\ At(t, q) = "=" /\ At(t, q + 1) = "#"
     /\ next = RunEnd(t, q + 2, ValueChar) /\ At(t, next) \in {End, "space"}
     /\ value = SubSeq(t, q + 2, next - 1)
  \/ /\ format = "unquoted" /\ At(t, q) = "=" /\ At(t, q + 1) \in ValueChar
     /\ next = RunEnd(t, q + 1, ValueChar) /\ At(t, next) \in {End, "space"}
     /\ value = SubSeq(t, q + 1, next - 1)

\* A pair that is read ends behind where it begins.
LEMMA ParseIs ==
  ASSUME NEW t \in Seq(Char), NEW p \in 1 .. Len(t) + 1, NEW q, q = RunEnd(t, p, NameChar)
  PROVE  /\ q \in p .. Len(t) + 1
         /\ \/ req_text_nv_parse(t, p) = Fails
            \/ \E format, value : \E next \in q .. Len(t) + 1 :
                 /\ IsRead(t, q, format, value, next)
                 /\ req_text_nv_parse(t, p) = Pair(SubSeq(t, p, q - 1), format, value, next)
<1> DEFINE v == RunEnd(t, p, NameChar) + 1
           first == At(t, v)
           name == SubSeq(t, p, q - 1)
           close == RunEnd(t, v + 1, QValueChar)
           blank == RunEnd(t, IF first = "#" THEN v + 1 ELSE v, ValueChar)
           c1 == At(t, v - 1) \in {End, "space"}
           c2 == At(t, v - 1) = "=" /\ first = "quote" /\ At(t, close) = "quote"
           c3 == At(t, v - 1) = "=" /\ first = "#" /\ At(t, blank) \in {End, "space"}
           c4 == At(t, v - 1) = "=" /\ first \in ValueChar /\ At(t, blank) \in {End, "space"}
           r1 == Pair(name, "unset", <<>>, v - 1)
           r2 == Pair(name, "quoted", SubSeq(t, v + 1, close - 1), close + 1)
           r3 == Pair(name, "encoded", SubSeq(t, v + 1, blank - 1), blank)
           r4 == Pair(name, "unquoted", SubSeq(t, v, blank - 1), blank)
           o == req_text_nv_parse(t, p)
<1>1. o = CASE c1 -> r1 [] c2 -> r2 [] c3 -> r3 [] c4 -> r4 [] OTHER -> Fails
  BY DEF req_text_nv_parse, Run
<1>2. "quote" \notin ValueChar /\ "#" \notin ValueChar /\ End \notin NameChar
      /\ End \notin ValueChar /\ End \notin QValueChar
  BY Classes
<1>3. "=" \notin {End, "space"} /\ "quote" # "#" /\ "quote" # End /\ "#" # End
  BY DEF End
<1>4. /\ Len(t) \in Nat /\ p \in Nat /\ v - 1 \in p .. Len(t) + 1 /\ v \in Nat
      /\ v - 1 = q /\ v = q + 1 /\ v + 1 = q + 2 /\ q \in p .. Len(t) + 1
  <2> DEFINE m == RunEnd(t, p, NameChar)
  <2>1. m \in p .. Len(t) + 1
    BY <1>2, RunEndIs
  <2>2. v = m + 1 /\ q = m
    OBVIOUS
  <2> HIDE DEF m, v
  <2> QED BY <2>1, <2>2
<1>5. first # End => v \in 1 .. Len(t)
  <2>1. v \notin 1 .. Len(t) => At(t, v) = End
    BY <1>4, AtIs
  <2> QED BY <2>1
<1> HIDE DEF v
<1>6. c2 => close \in v + 1 .. Len(t) + 1 /\ close \in 1 .. Len(t)
  <2> SUFFICES ASSUME c2 PROVE close \in v + 1 .. Len(t) + 1 /\ close \in 1 .. Len(t)
    OBVIOUS
  <2>1. v + 1 \in 1 .. Len(t) + 1
    BY <1>3, <1>4, <1>5
  <2>2. close \in v + 1 .. Len(t) + 1
    BY <1>2, <2>1, RunEndIs
  <2>3. At(t, close) # End
    BY <1>3
  <2> HIDE DEF close
  <2>4. close \in Int
    BY <2>1, <2>2
  <2>5. close \in 1 .. Len(t)
    BY <2>3, <2>4, AtIs
  <2> QED BY <2>2, <2>5
<1>7. c3 => /\ blank \in v + 1 .. Len(t) + 1 /\ blank = RunEnd(t, v + 1, ValueChar)
  <2> SUFFICES ASSUME c3 PROVE blank \in v + 1 .. Len(t) + 1 /\ blank = RunEnd(t, v + 1, ValueChar)
    OBVIOUS
  <2>1. v + 1 \in 1 .. Len(t) + 1
    BY <1>3, <1>4, <1>5
  <2>2. RunEnd(t, v + 1, ValueChar) \in v + 1 .. Len(t) + 1
    BY <1>2, <2>1, RunEndIs
  <2>3. blank = RunEnd(t, v + 1, ValueChar)
    OBVIOUS
  <2> QED BY <2>2, <2>3
<1>8. c4 => blank \in v .. Len(t) + 1 /\ blank = RunEnd(t, v, ValueChar)
  <2> SUFFICES ASSUME c4 PROVE blank \in v .. Len(t) + 1 /\ blank = RunEnd(t, v, ValueChar)
    OBVIOUS
  <2>0. first # End /\ first # "#"
    BY <1>2
  <2>1. v \in 1 .. Len(t) + 1
    BY <1>4, <1>5, <2>0
  <2>2. RunEnd(t, v, ValueChar) \in v .. Len(t) + 1
    BY <1>2, <2>1, RunEndIs
  <2>3. blank = RunEnd(t, v, ValueChar)
    BY <2>0
  <2> QED BY <2>2, <2>3
<1> DEFINE Good ==
             \E format, value : \E next \in q .. Len(t) + 1 :
               IsRead(t, q, format, value, next) /\ o = Pair(name, format, value, next)
<1> HIDE DEF close, blank, first
<1>9. /\ c1 => ~c2 /\ ~c3 /\ ~c4
      /\ c2 => ~c1 /\ ~c3 /\ ~c4
      /\ c3 => ~c1 /\ ~c2 /\ ~c4
      /\ c4 => ~c1 /\ ~c2 /\ ~c3
  BY <1>2, <1>3
<1> HIDE DEF o, c1, c2, c3, c4, name
<1>10. ASSUME c1 PROVE Good
  <2>1. o = Pair(name, "unset", <<>>, q)
    <3>1. o = r1
      BY <1>1, <1>9, <1>10
    <3> QED BY <1>4, <3>1, Zenon
  <2>2. q \in q .. Len(t) + 1
    BY <1>4
  <2>3. IsRead(t, q, "unset", <<>>, q)
    BY <1>4, <1>10 DEF IsRead, c1
  <2> QED BY <2>1, <2>2, <2>3
<1>11. ASSUME c2 PROVE Good
  <2> DEFINE next == close + 1
  <2>1. o = Pair(name, "quoted", SubSeq(t, q + 2, close - 1), next)
    <3>1. o = r2
      BY <1>1, <1>9, <1>11
    <3> QED BY <1>4, <3>1, Zenon
  <2>2. next \in q .. Len(t) + 1 /\ next - 1 = close /\ next - 2 = close - 1
    BY <1>4, <1>6, <1>11
  <2>3. close = RunEnd(t, q + 2, QValueChar)
    BY <1>4 DEF close
  <2>4. At(t, q) = "=" /\ At(t, q + 1) = "quote" /\ At(t, close) = "quote"
    BY <1>4, <1>11 DEF c2, first
  <2>5. next = RunEnd(t, q + 2, QValueChar) + 1
    BY <2>3
  <2> HIDE DEF next
  <2>6. SubSeq(t, q + 2, close - 1) = SubSeq(t, q + 2, next - 2)
    BY <2>2
  <2>7. IsRead(t, q, "quoted", SubSeq(t, q + 2, close - 1), next)
    BY <2>2, <2>4, <2>5, <2>6 DEF IsRead
  <2> QED BY <2>1, <2>2, <2>7
<1>12. ASSUME c3 PROVE Good
  <2>1. o = Pair(name, "encoded", SubSeq(t, q + 2, blank - 1), blank)
    <3>1. o = r3
      BY <1>1, <1>9, <1>12
    <3> QED BY <1>4, <3>1, Zenon
  <2>2. blank \in q .. Len(t) + 1
    BY <1>4, <1>7, <1>12
  <2>3. /\ At(t, q) = "=" /\ At(t, q + 1) = "#" /\ At(t, blank) \in {End, "space"}
        /\ blank = RunEnd(t, q + 2, ValueChar)
    BY <1>4, <1>7, <1>12 DEF c3, first
  <2>4. IsRead(t, q, "encoded", SubSeq(t, q + 2, blank - 1), blank)
    BY <2>3 DEF IsRead
  <2> QED BY <2>1, <2>2, <2>4
<1>13. ASSUME c4 PROVE Good
  <2>1. o = Pair(name, "unquoted", SubSeq(t, q + 1, blank - 1), blank)
    <3>1. o = r4
      BY <1>1, <1>9, <1>13
    <3> QED BY <1>4, <3>1, Zenon
  <2>2. blank \in q .. Len(t) + 1
    BY <1>4, <1>8, <1>13
  <2>3. /\ At(t, q) = "=" /\ At(t, q + 1) \in ValueChar /\ At(t, blank) \in {End, "space"}
        /\ blank = RunEnd(t, q + 1, ValueChar)
    BY <1>4, <1>8, <1>13 DEF c4, first
  <2>4. IsRead(t, q, "unquoted", SubSeq(t, q + 1, blank - 1), blank)
    BY <2>3 DEF IsRead
  <2> QED BY <2>1, <2>2, <2>4
<1>14. ASSUME ~c1, ~c2, ~c3, ~c4 PROVE o = Fails
  BY <1>1, <1>14
<1>15. o = Fails \/ Good
  BY <1>10, <1>11, <1>12, <1>13, <1>14
<1> QED BY <1>4, <1>15 DEF o, name

LEMMA ParseEnds ==
  ASSUME NEW t \in Seq(Char), NEW p \in 1 .. Len(t) + 1
  PROVE  \/ req_text_nv_parse(t, p) = Fails
         \/ /\ ~ req_text_nv_parse(t, p).fails
            /\ req_text_nv_parse(t, p).is.next \in Nat
            /\ req_text_nv_parse(t, p).is.next >= p
<1> DEFINE q == RunEnd(t, p, NameChar)
           o == req_text_nv_parse(t, p)
<1>0. q = RunEnd(t, p, NameChar)
  OBVIOUS
<1> HIDE DEF q
<1>1. /\ q \in p .. Len(t) + 1
      /\ \/ o = Fails
         \/ \E format, value : \E next \in q .. Len(t) + 1 :
              o = Pair(SubSeq(t, p, q - 1), format, value, next)
  BY <1>0, ParseIs
<1> SUFFICES ASSUME NEW format, NEW value, NEW next \in q .. Len(t) + 1,
                    o = Pair(SubSeq(t, p, q - 1), format, value, next)
             PROVE  ~ o.fails /\ o.is.next \in Nat /\ o.is.next >= p
  BY <1>1
<1> HIDE DEF o
<1>2. ~ o.fails /\ o.is.next = next
  BY DEF Pair, Is
<1>3. next \in Nat /\ next >= p
  BY <1>1
<1> QED BY <1>2, <1>3

\* The value that is read.
LEMMA ParsedValue ==
  ASSUME NEW t \in Seq(Char), NEW p \in 1 .. Len(t) + 1, ~ req_text_nv_parse(t, p).fails
  PROVE  req_text_nv_parse(t, p).is.value \in Seq(Char)
<1> DEFINE q == RunEnd(t, p, NameChar)
           o == req_text_nv_parse(t, p)
<1>0. q = RunEnd(t, p, NameChar)
  OBVIOUS
<1> HIDE DEF q
<1>1. o # Fails
  BY DEF Fails
<1>2. PICK format, value : \E next \in q .. Len(t) + 1 :
        /\ IsRead(t, q, format, value, next)
        /\ o = Pair(SubSeq(t, p, q - 1), format, value, next)
  BY <1>0, <1>1, ParseIs
<1>3. PICK next \in q .. Len(t) + 1 : IsRead(t, q, format, value, next)
  BY <1>2
<1>4. q \in p .. Len(t) + 1 /\ Len(t) \in Nat /\ p \in Nat /\ p > 0
  BY <1>0, ParseIs
<1> HIDE DEF o
<1>5. o.is.value = value
  BY <1>2 DEF Pair, Is
<1>6. ASSUME NEW a \in {q + 1, q + 2}, NEW b \in {next - 1, next - 2} PROVE SubSeq(t, a, b) \in Seq(Char)
  <2>1. a \in Nat /\ a > 0 /\ b \in Int /\ b <= Len(t)
    BY <1>4
  <2> QED BY <2>1
<1>7. <<>> \in Seq(Char)
  OBVIOUS
<1>8. value \in Seq(Char)
  BY <1>3, <1>6, <1>7 DEF IsRead
<1> QED BY <1>5, <1>8 DEF o

\* A pair without a value is read with an empty one.
LEMMA UnsetIsEmpty ==
  ASSUME NEW t \in Seq(Char), NEW p \in 1 .. Len(t) + 1, ~ req_text_nv_parse(t, p).fails,
         req_text_nv_parse(t, p).is.format = "unset"
  PROVE  req_text_nv_parse(t, p).is.value = <<>>
<1> DEFINE q == RunEnd(t, p, NameChar)
           o == req_text_nv_parse(t, p)
<1>0. q = RunEnd(t, p, NameChar)
  OBVIOUS
<1> HIDE DEF q
<1>1. o # Fails
  BY DEF Fails
<1>2. PICK format, value : \E next \in q .. Len(t) + 1 :
        /\ IsRead(t, q, format, value, next)
        /\ o = Pair(SubSeq(t, p, q - 1), format, value, next)
  BY <1>0, <1>1, ParseIs
<1> HIDE DEF o
<1>3. o.is.format = format /\ o.is.value = value
  BY <1>2 DEF Pair, Is
<1>4. format = "unset"
  BY <1>3 DEF o
<1>5. value = <<>>
  BY <1>2, <1>4 DEF IsRead
<1> QED BY <1>3, <1>5 DEF o

\* The pairs from each place on, by the place behind the first of them.
LEMMA PairsFromIs ==
  ASSUME NEW t \in Seq(Char)
  PROVE  \A i \in 1 .. Len(t) + 1 : PairsFrom(t)[i] = PairsAt(t, PairsFrom(t), i)
<1> DEFINE n == Len(t) + 1
           D == 1..n
           parse(i) == req_text_nv_parse(t, i)
           next(i) == parse(i).is.next
           P == { parse(i).is : i \in D }
           A == {Fails} \cup { Is(s) : s \in Seq(P) }
           goes(i) == ~ parse(i).fails /\ At(t, next(i)) = "space"
           first == [i \in D |-> IF ~ parse(i).fails /\ At(t, next(i)) = End
                                 THEN Is(<<parse(i).is>>) ELSE Fails]
           from  == [i \in D |-> IF goes(i) THEN next(i) + 1 ELSE 0]
           step  == [i \in D |-> [x \in A |-> IF x.fails THEN Fails
                                              ELSE Is(<<parse(i).is>> \o x.is)]]
<1>0. n \in Nat /\ n \in Int /\ 1 \in Int /\ Len(t) \in Nat /\ n = Len(t) + 1
  OBVIOUS
<1>1. ASSUME NEW i \in D PROVE <<parse(i).is>> \in Seq(P)
  <2>1. parse(i).is \in P
    OBVIOUS
  <2> HIDE DEF P
  <2> QED BY <2>1
<1>p. ASSUME NEW i \in D, goes(i) PROVE next(i) + 1 \in i + 1 .. n /\ next(i) \in Int
  <2>1. next(i) \in Nat /\ next(i) >= i
    <3>1. ~ (parse(i) = Fails)
      BY <1>p DEF Fails
    <3> HIDE DEF n
    <3> QED BY <1>0, <3>1, ParseEnds
  <2>2. next(i) \in 1 .. Len(t)
    <3>1. At(t, next(i)) # End
      BY <1>p DEF End
    <3>2. next(i) \in Int
      BY <2>1
    <3> QED BY <3>1, <3>2, AtIs
  <2> DEFINE x == next(i)
  <2>3. i \in Nat
    BY <1>0
  <2>4. x \in Nat /\ x >= i /\ x \in 1 .. Len(t)
    BY <2>1, <2>2
  <2> HIDE DEF x
  <2>5. x + 1 \in i + 1 .. n /\ x \in Int
    BY <1>0, <2>3, <2>4
  <2> QED BY <2>5 DEF x
<1> HIDE DEF n, P
<1>2. first \in [D -> A]
  <2> SUFFICES ASSUME NEW i \in D
               PROVE  (IF ~ parse(i).fails /\ At(t, next(i)) = End
                       THEN Is(<<parse(i).is>>) ELSE Fails) \in A
    BY Zenon
  <2> QED BY <1>1
<1>3. step \in [D -> [A -> A]]
  <2> SUFFICES ASSUME NEW i \in D, NEW x \in A
               PROVE  (IF x.fails THEN Fails ELSE Is(<<parse(i).is>> \o x.is)) \in A
    BY Zenon
  <2>1. CASE x = Fails
    BY <2>1 DEF Fails
  <2>2. ASSUME NEW s \in Seq(P), x = Is(s)
        PROVE  (IF x.fails THEN Fails ELSE Is(<<parse(i).is>> \o x.is)) \in A
    <3>1. ~ x.fails /\ x.is = s
      BY <2>2 DEF Is
    <3> DEFINE y == <<parse(i).is>>
    <3>2. y \in Seq(P)
      BY <1>1
    <3> HIDE DEF y
    <3>3. y \o s \in Seq(P)
      BY <3>2
    <3>4. Is(y \o s) \in A
      BY <3>3
    <3> QED BY <3>1, <3>4 DEF y
  <2> QED BY <2>1, <2>2
<1>4. from \in [D -> Int]
  <2> SUFFICES ASSUME NEW i \in D PROVE (IF goes(i) THEN next(i) + 1 ELSE 0) \in Int
    BY Zenon
  <2> HIDE DEF goes, next
  <2>1. CASE goes(i)
    BY <1>p, <2>1
  <2>2. CASE ~ goes(i)
    BY <2>2
  <2> QED BY <2>1, <2>2
<1>5. \A i \in D : /\ first[i] = IF ~ parse(i).fails /\ At(t, next(i)) = End
                                 THEN Is(<<parse(i).is>>) ELSE Fails
                   /\ from[i] = IF goes(i) THEN next(i) + 1 ELSE 0
                   /\ \A x \in A : step[i][x] = IF x.fails THEN Fails
                                                ELSE Is(<<parse(i).is>> \o x.is)
  BY Zenon
<1> HIDE DEF first, from, step, A
<1>6. PICK f \in [D -> A] : Descends(f, 1, n, first, from, step)
  BY <1>0, <1>2, <1>3, <1>4, RecursionDown
<1>7. ASSUME NEW i \in D PROVE f[i] = PairsAt(t, f, i)
  <2>0. i \in Nat /\ f[i] = IF from[i] \in i + 1 .. n THEN step[i][f[from[i]]] ELSE first[i]
    BY <1>0, <1>6 DEF Descends
  <2>1. PairsAt(t, f, i) =
          IF parse(i).fails THEN Fails
          ELSE CASE At(t, next(i)) = End     -> Is(<<parse(i).is>>)
                 [] At(t, next(i)) = "space" ->
                      (IF f[next(i) + 1].fails THEN Fails ELSE Is(<<parse(i).is>> \o f[next(i) + 1].is))
                 [] OTHER                    -> Fails
    BY DEF PairsAt
  <2>e. End # "space"
    BY DEF End
  <2>2. CASE goes(i)
    <3>1. from[i] = next(i) + 1 /\ next(i) + 1 \in i + 1 .. n
      BY <1>5, <1>p, <2>2
    <3>2. next(i) + 1 \in D /\ f[next(i) + 1] \in A
      <4> DEFINE x == next(i) + 1
      <4>1. x \in i + 1 .. n
        BY <3>1
      <4> HIDE DEF x, next
      <4>2. x \in D
        BY <1>0, <2>0, <4>1
      <4>3. f[x] \in A
        BY <1>6, <4>2
      <4> QED BY <4>2, <4>3 DEF x
    <3>3. f[i] = step[i][f[next(i) + 1]]
      BY <2>0, <3>1
    <3>4. f[i] = IF f[next(i) + 1].fails THEN Fails ELSE Is(<<parse(i).is>> \o f[next(i) + 1].is)
      BY <1>5, <3>2, <3>3, Zenon
    <3>5. ~ parse(i).fails /\ At(t, next(i)) = "space" /\ At(t, next(i)) # End
      BY <2>2, <2>e
    <3> HIDE DEF parse, next
    <3> QED BY <2>1, <3>4, <3>5
  <2>3. CASE ~ goes(i)
    <3>1. from[i] = 0
      BY <1>5, <2>3
    <3>2. ~ (from[i] \in i + 1 .. n)
      BY <2>0, <3>1
    <3>3. f[i] = IF ~ parse(i).fails /\ At(t, next(i)) = End THEN Is(<<parse(i).is>>) ELSE Fails
      <4>1. f[i] = first[i]
        BY <2>0, <3>2
      <4> QED BY <1>5, <4>1, Zenon
    <3>4. parse(i).fails \/ At(t, next(i)) # "space"
      BY <2>3
    <3> HIDE DEF parse, next
    <3>5. CASE parse(i).fails
      BY <2>1, <3>3, <3>5
    <3>6. CASE ~ parse(i).fails /\ At(t, next(i)) = End
      BY <2>1, <2>e, <3>3, <3>6
    <3>7. CASE ~ parse(i).fails /\ At(t, next(i)) # End
      BY <2>1, <3>3, <3>4, <3>7
    <3> QED BY <3>5, <3>6, <3>7
  <2> QED BY <2>2, <2>3
<1> DEFINE R(g) == g = [i \in 1 .. Len(t) + 1 |-> PairsAt(t, g, i)]
<1>8. PairsFrom(t) = CHOOSE g : R(g)
  BY DEF PairsFrom
<1>9. R(f)
  BY <1>0, <1>6, <1>7
<1> HIDE DEF R
<1>10. R(PairsFrom(t))
  BY <1>8, <1>9, Zenon
<1> QED BY <1>10 DEF R

LEMMA CoreIs ==
  ASSUME NEW p \in PairsOfText
  PROVE  /\ Core(p) \in Seq(Char) /\ Len(Core(p)) \in Nat /\ Len(Core(p)) > 0
         /\ req_bin_nvl_insert(p) = Core(p) \o <<"space">>
         /\ Len(req_bin_nvl_insert(p)) = Len(Core(p)) + 1
<1> DEFINE x == ValueText(p.value)
           n == p.name
           q == <<"=">>
           b == <<"space">>
           c == Core(p)
<1>1. n \in Seq(Char) /\ x \in Seq(Char) /\ q \in Seq(Char) /\ b \in Seq(Char) /\ Len(b) = 1
      /\ n # <<>>
  BY PairText, Classes DEF PairsOfText
<1>2. /\ p.value = <<>> => c = n \o <<>>
      /\ p.value # <<>> => c = n \o (q \o x)
  BY DEF Core
<1>3. req_bin_nvl_insert(p) = c \o b
  BY DEF req_bin_nvl_insert, Core
<1> HIDE DEF x, n, q, b, c
<1>4. q \o x \in Seq(Char)
  BY <1>1
<1> DEFINE y == q \o x
<1>5. y \in Seq(Char)
  BY <1>4
<1> HIDE DEF y
<1>6. c \in Seq(Char)
  <2>1. n \o y \in Seq(Char) /\ n \o <<>> \in Seq(Char)
    BY <1>1, <1>5
  <2> QED BY <1>2, <2>1 DEF y
<1>7. Len(c \o b) = Len(c) + Len(b)
  BY <1>1, <1>6, ConcatParts
<1>8. Len(c) \in Nat /\ Len(c) > 0
  <2>1. Len(n \o y) = Len(n) + Len(y) /\ n \o <<>> = n
    BY <1>1, <1>5
  <2>2. Len(n) \in Nat /\ Len(n) > 0 /\ Len(y) \in Nat
    BY <1>1, <1>5
  <2>3. c = n \/ c = n \o y
    BY <1>2, <2>1 DEF y
  <2>4. Len(c) = Len(n) \/ Len(c) = Len(n) + Len(y)
    BY <2>1, <2>3
  <2> QED BY <2>2, <2>4
<1> QED BY <1>1, <1>3, <1>6, <1>7, <1>8 DEF b, c

\* The places of pairs in a text, with a space between them and its end behind the
\* last one.
PairsIn(nvl, t, pos) ==
  /\ pos \in [1 .. Len(nvl) + 1 -> Nat \ {0}]
  /\ \A i \in 1 .. Len(nvl) :
       /\ pos[i + 1] = pos[i] + Len(Core(nvl[i])) + 1
       /\ Occurs(Core(nvl[i]), t, pos[i])
       /\ At(t, pos[i + 1] - 1) = IF i < Len(nvl) THEN "space" ELSE End

PairsReadAs(nvl, pos) == [j \in 1 .. Len(nvl) |-> ReadAs(nvl[j], pos[j + 1] - 1)]

\* The pairs of a text are read, from the last to the first.
LEMMA PairsRead ==
  ASSUME NEW t \in Seq(Char), NEW nvl \in Seq(PairsOfText), nvl # <<>>, NEW pos,
         PairsIn(nvl, t, pos)
  PROVE  PairsFrom(t)[pos[1]] = Is(PairsReadAs(nvl, pos))
<1> DEFINE n == Len(nvl)
           Read(k) == ReadAs(nvl[k], pos[k + 1] - 1)
           Rest(m) == [j \in 1 .. m + 1 |-> Read((n - m) + j - 1)]
<1>1. n \in Nat /\ n > 0 /\ Len(t) \in Nat
  OBVIOUS
<1>2. /\ pos \in [1 .. n + 1 -> Nat \ {0}]
      /\ \A i \in 1..n :
           /\ pos[i + 1] = pos[i] + Len(Core(nvl[i])) + 1
           /\ Occurs(Core(nvl[i]), t, pos[i])
           /\ At(t, pos[i + 1] - 1) = IF i < n THEN "space" ELSE End
  BY DEF PairsIn
<1>3. \A i \in 1..n : nvl[i] \in PairsOfText
  OBVIOUS
<1>4. PairsReadAs(nvl, pos) = [j \in 1..n |-> Read(j)]
  BY DEF PairsReadAs
<1>r. \A k : Read(k) = ReadAs(nvl[k], pos[k + 1] - 1)
  OBVIOUS
<1> HIDE DEF n, Read
<1>5. ASSUME NEW k \in 1..n
      PROVE  /\ req_text_nv_parse(t, pos[k]) = Is(Read(k)) /\ Read(k).next = pos[k + 1] - 1
             /\ pos[k] \in 1 .. Len(t) + 1 /\ pos[k + 1] \in Nat \ {0}
  <2> DEFINE p == nvl[k]
             i == pos[k]
             e == pos[k + 1] - 1
  <2>1. p \in PairsOfText /\ i \in Nat \ {0} /\ pos[k + 1] \in Nat \ {0}
    <3>1. k \in 1 .. n + 1 /\ k + 1 \in 1 .. n + 1
      BY <1>1
    <3> QED BY <1>2, <1>3, <3>1
  <2>2. pos[k + 1] = pos[k] + Len(Core(p)) + 1 /\ Occurs(Core(p), t, i)
    BY <1>2
  <2>3. Len(Core(p)) \in Nat
    BY <2>1, CoreIs
  <2>4. At(t, e) \in {End, "space"}
    BY <1>2
  <2>5. Read(k) = ReadAs(p, e)
    BY <1>r
  <2>6. e \in Nat /\ e = i + Len(Core(p)) /\ e = pos[k + 1] - 1
    BY <2>1, <2>2, <2>3
  <2>i. i = pos[k]
    OBVIOUS
  <2> HIDE DEF p, i, e
  <2>7. req_text_nv_parse(t, i) = Is(ReadAs(p, e))
    BY <2>1, <2>2, <2>4, <2>6, ParseWritten
  <2>8. i \in 1 .. Len(t) + 1
    BY <1>1, <2>1, <2>2, <2>3 DEF Occurs
  <2>9. ReadAs(p, e).next = e
    BY DEF ReadAs
  <2> QED BY <2>1, <2>5, <2>6, <2>7, <2>8, <2>9, <2>i
<1>6. ASSUME NEW k \in 1..n
      PROVE  PairsFrom(t)[pos[k]] =
               CASE At(t, pos[k + 1] - 1) = End     -> Is(<<Read(k)>>)
                 [] At(t, pos[k + 1] - 1) = "space" ->
                      (IF PairsFrom(t)[(pos[k + 1] - 1) + 1].fails THEN Fails
                       ELSE Is(<<Read(k)>> \o PairsFrom(t)[(pos[k + 1] - 1) + 1].is))
                 [] OTHER                           -> Fails
  <2> DEFINE o == req_text_nv_parse(t, pos[k])
  <2>1. PairsFrom(t)[pos[k]] = PairsAt(t, PairsFrom(t), pos[k])
    BY <1>5, PairsFromIs
  <2>2. ~ o.fails /\ o.is = Read(k) /\ o.is.next = pos[k + 1] - 1
    <3>1. o = Is(Read(k)) /\ Read(k).next = pos[k + 1] - 1
      BY <1>5
    <3> HIDE DEF o
    <3>2. ~ o.fails /\ o.is = Read(k)
      BY <3>1 DEF Is
    <3> QED BY <3>1, <3>2
  <2>3. PairsAt(t, PairsFrom(t), pos[k]) =
          IF o.fails THEN Fails
          ELSE CASE At(t, o.is.next) = End     -> Is(<<o.is>>)
                 [] At(t, o.is.next) = "space" ->
                      (IF PairsFrom(t)[o.is.next + 1].fails THEN Fails
                       ELSE Is(<<o.is>> \o PairsFrom(t)[o.is.next + 1].is))
                 [] OTHER                      -> Fails
    BY DEF PairsAt
  <2> HIDE DEF o
  <2> QED BY <2>1, <2>2, <2>3
<1>e. End # "space"
  BY DEF End
<1> DEFINE S == {m \in Nat : m < n => PairsFrom(t)[pos[n - m]] = Is(Rest(m))}
<1>7. 0 \in S
  <2>1. n \in 1..n /\ n - 0 = n /\ ~ (n < n)
    BY <1>1
  <2>2. At(t, pos[n + 1] - 1) = End
    BY <1>2, <2>1
  <2>3. PairsFrom(t)[pos[n]] = Is(<<Read(n)>>)
    BY <1>6, <1>e, <2>1, <2>2
  <2>4. Rest(0) = <<Read(n)>>
    <3>1. 0 + 1 = 1 /\ (n - 0) + 1 - 1 = n
      BY <1>1
    <3>2. Rest(0) = [j \in 1..1 |-> Read(n)]
      <4>1. \A j \in 1..1 : (n - 0) + j - 1 = n
        BY <1>1
      <4> QED BY <3>1, <4>1
    <3> QED BY <3>2
  <2> HIDE DEF Rest
  <2> QED BY <2>1, <2>3, <2>4
<1>8. ASSUME NEW m \in Nat, m \in S PROVE m + 1 \in S
  <2> SUFFICES ASSUME m + 1 < n PROVE PairsFrom(t)[pos[n - (m + 1)]] = Is(Rest(m + 1))
    OBVIOUS
  <2> DEFINE k == n - (m + 1)
  <2>1. k \in 1..n /\ k < n /\ n - m = k + 1 /\ m < n /\ k = n - (m + 1)
    BY <1>1
  <2> HIDE DEF k
  <2>2. PairsFrom(t)[pos[k + 1]] = Is(Rest(m))
    BY <1>8, <2>1
  <2> HIDE DEF S
  <2>3. At(t, pos[k + 1] - 1) = "space"
    BY <1>2, <2>1
  <2>4. (pos[k + 1] - 1) + 1 = pos[k + 1]
    BY <1>5, <2>1
  <2>5. ~ PairsFrom(t)[pos[k + 1]].fails /\ PairsFrom(t)[pos[k + 1]].is = Rest(m)
    BY <2>2 DEF Is
  <2>6. PairsFrom(t)[pos[k]] = Is(<<Read(k)>> \o Rest(m))
    <3> HIDE DEF Rest
    <3> QED BY <1>6, <1>e, <2>1, <2>3, <2>4, <2>5
  <2>7. Rest(m + 1) = <<Read(k)>> \o Rest(m)
    <3> DEFINE a == <<Read(k)>>
               z == Rest(m)
               A == { Read(j) : j \in Int }
    <3>1. a \in Seq(A) /\ Len(a) = 1 /\ a[1] = Read(k)
      BY <2>1
    <3>2. z \in Seq(A) /\ Len(z) = m + 1 /\ \A j \in 1 .. m + 1 : z[j] = Read((n - m) + j - 1)
      <4>1. \A j \in 1 .. m + 1 : Read((n - m) + j - 1) \in A
        BY <1>1
      <4> HIDE DEF A
      <4>2. z \in [1 .. m + 1 -> A] /\ m + 1 \in Nat
        BY <4>1
      <4> QED BY <4>2
    <3> HIDE DEF a, z, A
    <3>3. a \o z \in Seq(A) /\ Len(a \o z) = Len(a) + Len(z)
          /\ (\A j \in 1 .. Len(a) : (a \o z)[j] = a[j])
          /\ \A j \in 1 .. Len(z) : (a \o z)[Len(a) + j] = z[j]
      <4>1. a \in Seq(A) /\ z \in Seq(A)
        BY <3>1, <3>2
      <4> QED BY <4>1, ConcatParts
    <3> DEFINE y == a \o z
    <3>4. /\ y \in Seq(A) /\ Len(y) = m + 2 /\ y[1] = Read(k)
          /\ \A j \in 1 .. m + 1 : y[1 + j] = Read((n - m) + j - 1)
      BY <3>1, <3>2, <3>3
    <3> HIDE DEF y
    <3>5. ASSUME NEW j \in 1 .. (m + 1) + 1 PROVE y[j] = Read((n - (m + 1)) + j - 1)
      <4>1. CASE j = 1
        <5>1. (n - (m + 1)) + j - 1 = k
          BY <1>1, <2>1, <4>1
        <5> QED BY <3>4, <4>1, <5>1
      <4>2. CASE j # 1
        <5>1. j - 1 \in 1 .. m + 1 /\ 1 + (j - 1) = j
          BY <4>2
        <5>2. (n - m) + (j - 1) - 1 = (n - (m + 1)) + j - 1
          BY <1>1, <4>2
        <5>3. y[1 + (j - 1)] = Read((n - m) + (j - 1) - 1)
          BY <3>4, <5>1
        <5> QED BY <5>1, <5>2, <5>3
      <4> QED BY <4>1, <4>2
    <3>6. y = [j \in 1 .. (m + 1) + 1 |-> y[j]]
      BY <3>4
    <3>7. [j \in 1 .. (m + 1) + 1 |-> y[j]] = Rest(m + 1)
      BY <3>5
    <3> QED BY <3>6, <3>7 DEF y, a, z
  <2> HIDE DEF Rest
  <2> QED BY <2>1, <2>6, <2>7
<1> HIDE DEF S
<1>9. \A m \in Nat : m \in S
  BY <1>7, <1>8, Induction
<1>10. n - 1 \in Nat /\ n - 1 < n /\ n - (n - 1) = 1 /\ (n - 1) + 1 = n
  BY <1>1
<1>11. PairsFrom(t)[pos[n - (n - 1)]] = Is(Rest(n - 1))
  BY <1>9, <1>10 DEF S
<1>12. Rest(n - 1) = [j \in 1..n |-> Read(j)]
  <2>1. \A j \in 1..n : (n - (n - 1)) + j - 1 = j
    BY <1>1
  <2> QED BY <1>10, <2>1
<1> HIDE DEF Rest
<1> QED BY <1>4, <1>10, <1>11, <1>12

\* Where the parts of the text of a request are.
LEMMA TextLayout ==
  ASSUME NEW r, Formed(r), r.type = "REQUEST", NEW t, t = req_from_bin_to_text(r)
  PROVE  /\ t \in Seq(Char) /\ HeaderIn(r, t) /\ HeaderEnds(r, t)
         /\ r.nvl = <<>> => CodeEnd(r) = Len(t) + 1
         /\ r.nvl # <<>> =>
              /\ CodeEnd(r) + 1 <= Len(t) /\ t[CodeEnd(r)] = "space"
              /\ \E pos : PairsIn(r.nvl, t, pos) /\ pos[1] = CodeEnd(r) + 1
<1> DEFINE H == HeaderText(r)
           W == Written(r)
           ss == PairTexts(r.nvl)
           l == FlattenSeq(ss)
           n == Len(r.nvl)
           pe == CodeEnd(r)
           b == <<"space">>
<1>1. t \in Seq(Char) /\ H \in Seq(Char) /\ W \in Seq(Char)
  BY TextType, HeaderSize, WrittenIs
<1>2. r.nvl \in Seq(PairsOfText)
  BY DEF Formed
<1>3. /\ ss \in Seq(Seq(Char)) /\ Len(ss) = n /\ l \in Seq(Char) /\ n \in Nat
      /\ \A i \in 1..n : ss[i] = req_bin_nvl_insert(r.nvl[i])
  BY <1>2, PairTextsAre
<1>4. pe = Len(H) + 1 /\ pe \in Nat
  BY HeaderPlaces
<1>b. b \in Seq(Char) /\ Len(b) = 1 /\ b[1] = "space"
  BY Classes
<1>5. CASE r.nvl = <<>>
  <2>1. t = H
    BY <1>5, WrittenIs DEF req_from_bin_to_text
  <2>2. Occurs(H, t, 1)
    BY <1>1, <2>1, OccursWhole
  <2>3. HeaderIn(r, t)
    BY <1>1, <2>2, HeaderOccurs
  <2>4. CodeEnd(r) = Len(t) + 1
    BY <1>4, <2>1
  <2> QED BY <1>1, <1>5, <2>3, <2>4 DEF HeaderEnds
<1>6. CASE r.nvl # <<>>
  <2>1. /\ W = H \o (b \o l) /\ Len(W) = Len(H) + 1 + Len(l) /\ t = Front(W)
    BY <1>6, WrittenIs DEF req_from_bin_to_text
  <2> HIDE DEF W, H, b, l, ss, n
  <2>n. n \in Nat /\ n > 0 /\ \A i \in 1..n : r.nvl[i] \in PairsOfText
    BY <1>2, <1>6 DEF n
  <2>l. Len(H) \in Nat /\ Len(l) \in Nat /\ Len(W) \in Nat /\ Len(W) > 0 /\ Len(t) \in Nat
    <3>1. Len(H) \in Nat
      BY <1>1
    <3>2. Len(l) \in Nat
      BY <1>3
    <3>3. Len(t) \in Nat
      BY <1>1
    <3> QED BY <2>1, <3>1, <3>2, <3>3
  <2>2. Len(t) = Len(W) - 1 /\ \A i \in 1 .. Len(W) - 1 : t[i] = W[i]
    <3>1. t = SubSeq(W, 1, Len(W) - 1)
      BY <2>1 DEF Front
    <3> DEFINE m == Len(W) - 1
    <3>2. m \in Nat /\ m \in 0 .. Len(W) /\ m = Len(W) - 1
      BY <2>l
    <3> HIDE DEF m
    <3>3. Len(SubSeq(W, 1, m)) = m
      BY <1>1, <2>l, <3>2
    <3>4. ASSUME NEW i \in 1 .. m PROVE SubSeq(W, 1, m)[i] = W[i]
      BY <1>1, <2>l, <3>2
    <3>5. t = SubSeq(W, 1, m)
      BY <3>1, <3>2
    <3>6. Len(t) = m /\ \A i \in 1 .. m : t[i] = W[i]
      BY <3>3, <3>4, <3>5
    <3> QED BY <3>2, <3>6
  <2>3. Occurs(H, W, 1) /\ Occurs(l, W, Len(H) + 2) /\ W[Len(H) + 1] = "space"
    <3> DEFINE bl == b \o l
    <3>1. bl \in Seq(Char)
      BY <1>3, <1>b
    <3>2. Occurs(H \o bl, W, 1)
      BY <1>1, <2>1, OccursWhole
    <3> HIDE DEF bl
    <3>3. 1 \in Nat
      OBVIOUS
    <3>4. Occurs(H, W, 1) /\ Occurs(bl, W, 1 + Len(H))
      BY <1>1, <2>l, <3>1, <3>2, <3>3, OccursConcat
    <3>5. 1 + Len(H) \in Nat /\ (1 + Len(H)) + Len(b) = Len(H) + 2
      BY <1>b, <2>l
    <3>6. Occurs(b, W, 1 + Len(H)) /\ Occurs(l, W, (1 + Len(H)) + Len(b))
      BY <1>3, <1>b, <2>l, <3>4, <3>5, OccursConcat DEF bl
    <3>7. W[(1 + Len(H)) + 1 - 1] = b[1]
      <4>1. 1 \in 1 .. Len(b)
        BY <1>b
      <4> QED BY <3>6, <4>1 DEF Occurs
    <3>8. (1 + Len(H)) + 1 - 1 = Len(H) + 1
      BY <2>l
    <3> QED BY <1>b, <3>4, <3>5, <3>6, <3>7, <3>8
  <2>4. Occurs(H, t, 1)
    <3>1. 1 + Len(H) <= Len(t) + 1
      BY <2>1, <2>2, <2>l
    <3>2. ASSUME NEW k \in 1 .. Len(H) PROVE t[1 + k - 1] = H[k]
      <4>1. 1 + k - 1 = k /\ k \in 1 .. Len(W) - 1
        BY <2>1, <2>l
      <4>2. W[1 + k - 1] = H[k]
        BY <2>3 DEF Occurs
      <4> QED BY <2>2, <4>1, <4>2
    <3> QED BY <3>1, <3>2 DEF Occurs
  <2>5. HeaderIn(r, t)
    BY <1>1, <2>4, HeaderOccurs DEF H
  <2>6. PICK pos : /\ IsLayout(pos, ss, W, Len(H) + 2)
                   /\ pos[Len(ss) + 1] = (Len(H) + 2) + Len(FlattenSeq(ss))
    <3>1. Len(H) + 2 \in Nat /\ Occurs(FlattenSeq(ss), W, Len(H) + 2)
      BY <2>3, <2>l DEF l
    <3> QED BY <1>3, <2>l, <3>1, FlattenLayout
  <2>7. /\ pos \in [1 .. n + 1 -> Nat] /\ pos[1] = Len(H) + 2 /\ pos[n + 1] = Len(W) + 1
        /\ \A i \in 1..n : pos[i + 1] = pos[i] + Len(ss[i]) /\ Occurs(ss[i], W, pos[i])
    <3>1. (Len(H) + 2) + Len(l) = Len(W) + 1
      BY <2>1, <2>l
    <3> QED BY <1>3, <2>6, <3>1 DEF IsLayout, l
  <2>8. ASSUME NEW i \in 1..n
        PROVE  /\ Core(r.nvl[i]) \in Seq(Char) /\ ss[i] = Core(r.nvl[i]) \o b
               /\ Len(ss[i]) = Len(Core(r.nvl[i])) + 1
               /\ Len(Core(r.nvl[i])) \in Nat /\ Len(Core(r.nvl[i])) > 0
    BY <1>3, <2>n, CoreIs DEF b
  <2>p. ASSUME NEW i \in 1 .. n + 1 PROVE pos[i] \in Nat \ {0}
    <3>1. CASE i = 1
      BY <2>7, <2>l, <3>1
    <3>2. CASE i # 1
      <4> DEFINE j == i - 1
      <4>1. j \in 1..n /\ j + 1 = i /\ j \in 1 .. n + 1
        BY <2>n, <3>2
      <4> HIDE DEF j
      <4>2. pos[i] = pos[j] + Len(ss[j]) /\ pos[j] \in Nat
        BY <2>7, <4>1
      <4>3. Len(ss[j]) \in Nat /\ Len(ss[j]) > 0
        BY <2>8, <4>1
      <4> QED BY <4>2, <4>3
    <3> QED BY <3>1, <3>2
  <2>9. ASSUME NEW i \in 1..n
        PROVE  /\ pos[i + 1] = pos[i] + Len(Core(r.nvl[i])) + 1
               /\ Occurs(Core(r.nvl[i]), t, pos[i])
               /\ At(t, pos[i + 1] - 1) = IF i < n THEN "space" ELSE End
               /\ pos[i] <= Len(t)
    <3> DEFINE c == Core(r.nvl[i])
               p == pos[i]
               q == pos[i + 1]
    <3>1. i \in 1 .. n + 1 /\ i + 1 \in 1 .. n + 1
      BY <2>n
    <3>2. p \in Nat \ {0} /\ q \in Nat \ {0}
      BY <2>p, <3>1
    <3>3. c \in Seq(Char) /\ Len(c) \in Nat /\ Len(c) > 0 /\ Len(ss[i]) = Len(c) + 1
          /\ ss[i] = c \o b
      BY <2>8
    <3>4. q = p + Len(ss[i]) /\ Occurs(c \o b, W, p)
      BY <2>7, <3>3
    <3>i. q = pos[i + 1] /\ p = pos[i]
      OBVIOUS
    <3> HIDE DEF c, p, q
    <3>5. Occurs(c, W, p) /\ Occurs(b, W, p + Len(c))
      BY <1>b, <2>l, <3>2, <3>3, <3>4, OccursConcat
    <3>6. q = p + Len(c) + 1 /\ p + Len(c) = q - 1 /\ q - 1 \in Nat \ {0} /\ q <= Len(W) + 1
      <4> DEFINE x == Len(c)
                 y == Len(ss[i])
                 w == Len(W)
      <4>1. (p + x) + Len(b) <= w + 1
        BY <3>5 DEF Occurs
      <4>2. x \in Nat /\ x > 0 /\ y = x + 1 /\ q = p + y /\ w \in Nat /\ Len(b) = 1
        BY <1>b, <2>l, <3>3, <3>4
      <4> HIDE DEF x, y, w
      <4>3. q = p + x + 1 /\ p + x = q - 1 /\ q - 1 \in Nat \ {0} /\ q <= w + 1
        BY <3>2, <4>1, <4>2
      <4> QED BY <4>3 DEF x, w
    <3>7. W[q - 1] = "space"
      <4>1. 1 \in 1 .. Len(b)
        BY <1>b
      <4>2. W[(p + Len(c)) + 1 - 1] = b[1]
        BY <3>5, <4>1 DEF Occurs
      <4>3. (p + Len(c)) + 1 - 1 = q - 1
        BY <3>2, <3>3, <3>6
      <4> QED BY <1>b, <4>2, <4>3
    <3>8. Occurs(c, t, p)
      <4>1. p + Len(c) <= Len(t) + 1
        BY <2>2, <2>l, <3>2, <3>3, <3>6
      <4>2. ASSUME NEW k \in 1 .. Len(c) PROVE t[p + k - 1] = c[k]
        <5>1. p + k - 1 \in 1 .. Len(W) - 1
          BY <2>l, <3>2, <3>3, <3>6
        <5>2. W[p + k - 1] = c[k]
          BY <3>5 DEF Occurs
        <5> QED BY <2>2, <5>1, <5>2
      <4> QED BY <4>1, <4>2 DEF Occurs
    <3>9. CASE i < n
      <4> DEFINE j == i + 1
      <4>1. j \in 1..n
        BY <2>n, <3>9
      <4>2. Occurs(ss[j], W, pos[j]) /\ Len(ss[j]) \in Nat /\ Len(ss[j]) > 0
        <5>1. Occurs(ss[j], W, pos[j])
          BY <2>7, <4>1
        <5> HIDE DEF j
        <5>2. Len(Core(r.nvl[j])) \in Nat /\ Len(ss[j]) = Len(Core(r.nvl[j])) + 1
          BY <2>8, <4>1
        <5> QED BY <5>1, <5>2
      <4>3. q + Len(ss[j]) <= Len(W) + 1
        BY <3>i, <4>2 DEF Occurs
      <4> HIDE DEF j
      <4>4. q - 1 \in 1 .. Len(W) - 1
        <5> DEFINE y == Len(ss[j])
                   w == Len(W)
        <5>1. y \in Nat /\ y > 0 /\ w \in Nat /\ q + y <= w + 1
          BY <2>l, <4>2, <4>3
        <5> HIDE DEF y, w
        <5>2. q - 1 \in 1 .. w - 1
          BY <3>2, <3>6, <5>1
        <5> QED BY <5>2 DEF w
      <4>5. t[q - 1] = "space" /\ q - 1 \in 1 .. Len(t)
        BY <2>2, <3>7, <4>4
      <4>6. At(t, q - 1) = "space"
        BY <1>1, <4>5, AtIs
      <4>7. p <= Len(t)
        <5> DEFINE x == Len(c)
                   y == Len(t)
        <5>1. x \in Nat /\ x > 0 /\ y \in Nat /\ p + x = q - 1 /\ q - 1 <= y
          BY <2>l, <3>3, <3>6, <4>5
        <5> HIDE DEF x, y
        <5>2. p <= y
          BY <3>2, <5>1
        <5> QED BY <5>2 DEF y
      <4>8. q = p + Len(c) + 1
        BY <3>6
      <4> QED BY <3>8, <3>9, <4>6, <4>7, <4>8 DEF c, p, q
    <3>10. CASE ~ (i < n)
      <4>1. i = n
        BY <2>n, <3>10
      <4>2. q = Len(W) + 1
        BY <2>7, <3>i, <4>1
      <4>3. q - 1 = Len(t) + 1 /\ q - 1 \in Int /\ q - 1 \notin 1 .. Len(t)
        BY <2>2, <2>l, <4>2
      <4>4. At(t, q - 1) = End
        BY <1>1, <4>3, AtIs
      <4>7. p <= Len(t)
        <5> DEFINE x == Len(c)
                   y == Len(t)
        <5>1. x \in Nat /\ x > 0 /\ y \in Nat /\ p + x = q - 1 /\ q - 1 = y + 1
          BY <2>l, <3>3, <3>6, <4>3
        <5> HIDE DEF x, y
        <5>2. p <= y
          BY <3>2, <5>1
        <5> QED BY <5>2 DEF y
      <4>8. q = p + Len(c) + 1
        BY <3>6
      <4> QED BY <3>8, <3>10, <4>4, <4>7, <4>8 DEF c, p, q
    <3> QED BY <3>9, <3>10
  <2>10. PairsIn(r.nvl, t, pos)
    <3>1. pos \in [1 .. n + 1 -> Nat \ {0}]
      BY <2>7, <2>p
    <3> QED BY <2>9, <3>1 DEF PairsIn, n
  <2>11. pos[1] = pe + 1 /\ pos[1] <= Len(t)
    <3>1. 1 \in 1..n /\ Len(H) + 2 = pe + 1
      BY <1>4, <2>l, <2>n DEF H
    <3> QED BY <2>7, <2>9, <3>1
  <2>12. t[pe] = "space" /\ pe <= Len(t)
    <3>1. pe = Len(H) + 1
      BY <1>4 DEF H
    <3>2. pe + 1 <= Len(t)
      BY <2>11
    <3>3. pe \in 1 .. Len(W) - 1 /\ pe <= Len(t)
      BY <1>4, <2>2, <2>l, <3>1, <3>2
    <3> QED BY <2>2, <2>3, <3>1, <3>3
  <2> QED BY <1>1, <1>6, <2>5, <2>10, <2>11, <2>12 DEF HeaderEnds
<1> QED BY <1>5, <1>6

\* What a call returns: nothing, a value, or the use of a wrong pointer.
LEMMA Outcomes ==
  /\ Fails.fails = TRUE /\ ~ IsIn(Fails) /\ ~ IsIn(Corrupt) /\ Fails # Corrupt
  /\ Corrupt.fails = FALSE
  /\ \A x : /\ Is(x).fails = FALSE /\ Is(x).is = x /\ IsIn(Is(x))
            /\ Is(x) # Fails /\ Is(x) # Corrupt
<1>1. DOMAIN Fails = {"fails"} /\ DOMAIN Corrupt = {"fails", "corrupt"}
  BY DEF Fails, Corrupt
<1>2. ASSUME NEW x PROVE DOMAIN Is(x) = {"fails", "is"} /\ Is(x).fails = FALSE /\ Is(x).is = x
  BY DEF Is
<1>3. Fails.fails = TRUE /\ Corrupt.fails = FALSE
  BY DEF Fails, Corrupt
<1>4. ~ IsIn(Fails) /\ ~ IsIn(Corrupt) /\ Fails # Corrupt
  BY <1>1, <1>3 DEF IsIn
<1>5. ASSUME NEW x PROVE IsIn(Is(x)) /\ Is(x) # Fails /\ Is(x) # Corrupt
  BY <1>2, <1>4 DEF IsIn
<1> QED BY <1>2, <1>3, <1>4, <1>5

\* Where the list of pairs that was written is found.
LEMMA ListAt ==
  ASSUME NEW r, Formed(r), r.type = "REQUEST", NEW t, t = req_from_bin_to_text(r),
         NEW p, p = req_text_token_seek(t, "NVL")
  PROVE  /\ t \in Seq(Char) /\ p \in 1 .. Len(t) + 1
         /\ r.nvl = <<>> => p = Len(t) + 1
         /\ r.nvl # <<>> => \E pos : PairsIn(r.nvl, t, pos) /\ pos[1] = p /\ p <= Len(t)
<1> DEFINE pe == CodeEnd(r)
           n == Len(t)
<1>1. /\ t \in Seq(Char) /\ HeaderIn(r, t)
      /\ r.nvl = <<>> => pe = n + 1
      /\ r.nvl # <<>> =>
           /\ pe + 1 <= n /\ t[pe] = "space"
           /\ \E pos : PairsIn(r.nvl, t, pos) /\ pos[1] = pe + 1
  BY TextLayout
<1>2. n \in Nat
  BY <1>1
<1>3. /\ pe \in Nat /\ SrcAt(r) \in Nat /\ DstAt(r) \in Nat /\ CodeAt(r) \in Nat
      /\ 2 < SrcAt(r) /\ SrcAt(r) < DstAt(r) /\ DstAt(r) < CodeAt(r) /\ CodeAt(r) <= pe
  BY HeaderPlaces
<1>4. /\ \A i \in 1 .. SrcAt(r) - 1 : Tokens(t)[i] = "ID"
      /\ \A i \in SrcAt(r) .. DstAt(r) - 1 : Tokens(t)[i] = "MODSRC"
      /\ \A i \in DstAt(r) .. CodeAt(r) - 1 : Tokens(t)[i] = "MODDST"
      /\ \A i \in CodeAt(r) .. pe : Tokens(t)[i] = "CODE"
      /\ pe <= n /\ t[pe] = "space" => \A i \in pe + 1 .. n + 1 : Tokens(t)[i] = "NVL"
  BY <1>1, HeaderTokens
<1> HIDE DEF pe, n
<1>5. \A i \in 1..pe : Tokens(t)[i] # "NVL"
  BY <1>3, <1>4
<1>6. CASE r.nvl = <<>>
  <2>1. ~ \E i \in 1 .. Len(t) : Tokens(t)[i] = "NVL"
    BY <1>1, <1>2, <1>3, <1>5, <1>6 DEF n
  <2>2. Tokens(t)[Len(t) + 1] = "CODE"
    BY <1>1, <1>2, <1>3, <1>4, <1>6 DEF n
  <2>3. { i \in 1 .. Len(t) : Tokens(t)[i] = "NVL" } = {}
    BY <2>1
  <2>4. p = n + 1
    BY <2>2, <2>3, Zenon DEF req_text_token_seek, n
  <2> QED BY <1>1, <1>2, <1>6, <2>4 DEF n
<1>7. CASE r.nvl # <<>>
  <2>1. pe + 1 <= n /\ pe <= n /\ t[pe] = "space" /\ pe + 1 \in 1..n
    BY <1>1, <1>2, <1>3, <1>7
  <2> DEFINE q == pe + 1
  <2>2. q \in 1 .. Len(t) + 1 /\ q # Len(t) + 1 /\ q <= Len(t)
    BY <1>2, <2>1 DEF n
  <2>3. Tokens(t)[q] = "NVL"
    BY <1>2, <1>4, <2>1
  <2>4. \A i \in 1 .. q - 1 : Tokens(t)[i] # "NVL"
    BY <1>3, <1>5
  <2>5. \E pos : PairsIn(r.nvl, t, pos) /\ pos[1] = q
    BY <1>1, <1>7
  <2> HIDE DEF q
  <2>6. p = q
    BY <1>1, <2>2, <2>3, <2>4, SeekFinds
  <2> QED BY <1>1, <1>7, <2>2, <2>5, <2>6
<1> QED BY <1>6, <1>7

\* The list of pairs that was written is read: as many pairs, each as it was written.
LEMMA ListRead ==
  ASSUME NEW r, Formed(r), r.type = "REQUEST", NEW t, t = req_from_bin_to_text(r)
  PROVE  \E pairs :
           /\ req_text_nv_list(t, req_text_token_seek(t, "NVL")) = Is(pairs)
           /\ DOMAIN pairs = 1 .. Len(r.nvl)
           /\ \A i \in 1 .. Len(r.nvl) : \E e : pairs[i] = ReadAs(r.nvl[i], e)
<1> DEFINE p == req_text_token_seek(t, "NVL")
<1>1. /\ t \in Seq(Char) /\ p \in 1 .. Len(t) + 1
      /\ r.nvl = <<>> => p = Len(t) + 1
      /\ r.nvl # <<>> => \E pos : PairsIn(r.nvl, t, pos) /\ pos[1] = p /\ p <= Len(t)
  BY ListAt
<1>2. r.nvl \in Seq(PairsOfText) /\ Len(t) \in Nat /\ p \in Int /\ p # 0
  BY <1>1 DEF Formed
<1> HIDE DEF p
<1>3. CASE r.nvl = <<>>
  <2>1. p \notin 1 .. Len(t)
    BY <1>1, <1>2, <1>3
  <2>2. At(t, p) = End
    BY <1>1, <1>2, <2>1, AtIs
  <2>3. req_text_nv_list(t, p) = Is(<<>>)
    BY <1>2, <2>2 DEF req_text_nv_list
  <2>4. Len(r.nvl) = 0 /\ DOMAIN <<>> = 1 .. 0
    BY <1>3
  <2> QED BY <2>3, <2>4 DEF p
<1>4. CASE r.nvl # <<>>
  <2>1. PICK pos : PairsIn(r.nvl, t, pos) /\ pos[1] = p /\ p <= Len(t)
    BY <1>1, <1>4
  <2>2. At(t, p) # End
    <3>1. p \in 1 .. Len(t)
      BY <1>1, <1>2, <2>1
    <3>2. At(t, p) \in Char
      BY <1>1, <1>2, <3>1, AtIs
    <3> QED BY <3>2, Classes
  <2> DEFINE pairs == PairsReadAs(r.nvl, pos)
  <2>3. PairsFrom(t)[pos[1]] = Is(pairs)
    BY <1>1, <1>2, <1>4, <2>1, PairsRead
  <2>4. req_text_nv_list(t, p) = Is(pairs)
    BY <1>2, <2>1, <2>2, <2>3 DEF req_text_nv_list
  <2>5. DOMAIN pairs = 1 .. Len(r.nvl)
    BY DEF PairsReadAs
  <2>6. \A i \in 1 .. Len(r.nvl) : pairs[i] = ReadAs(r.nvl[i], pos[i + 1] - 1)
    BY DEF PairsReadAs
  <2> HIDE DEF pairs
  <2>7. \A i \in 1 .. Len(r.nvl) : \E e : pairs[i] = ReadAs(r.nvl[i], e)
    BY <2>6
  <2> QED BY <2>4, <2>5, <2>7 DEF p
<1> QED BY <1>3, <1>4

\* A request that is converted to text and back.
LEMMA TextComesBack ==
  ASSUME NEW r, Formed(r), r.type = "REQUEST",
         NEW o \in req_from_text_to_bin(req_from_bin_to_text(r))
  PROVE  /\ IsIn(o) => o.is = r
         /\ o = Fails => Valueless(r)
         /\ o = Corrupt => Len(r.code) = ReqCodeSize
<1> DEFINE t == req_from_bin_to_text(r)
           id == req_text_rid(t)
           type == req_text_type(t)
           src == req_text_src(t)
           dst == req_text_dst(t)
           code == req_text_code(t)
           list == req_text_nv_list(t, req_text_token_seek(t, "NVL"))
           n == Len(r.nvl)
<1>1. t \in Seq(Char) /\ HeaderIn(r, t) /\ HeaderEnds(r, t)
  BY TextLayout
<1>2. /\ id = Is(r.id) /\ type = Is("REQUEST") /\ src = Is(r.src) /\ dst = Is(r.dst)
      /\ code = Is(r.code)
  <2> HIDE DEF t
  <2> QED BY <1>1, HeaderRead
<1>3. PICK pairs : /\ list = Is(pairs) /\ DOMAIN pairs = 1..n
                   /\ \A i \in 1..n : \E e : pairs[i] = ReadAs(r.nvl[i], e)
  BY ListRead
<1>4. r.nvl \in Seq(PairsOfText) /\ n \in Nat /\ \A i \in 1..n : r.nvl[i] \in PairsOfText
  BY DEF Formed
<1>5. /\ id.is = r.id /\ type.is = "REQUEST" /\ src.is = r.src /\ dst.is = r.dst
      /\ code.is = r.code /\ list.is = pairs
      /\ ~ id.fails /\ ~ type.fails /\ ~ src.fails /\ ~ dst.fails /\ ~ code.fails /\ ~ list.fails
  BY <1>2, <1>3, Outcomes, Zenon
<1>6. ASSUME NEW i \in 1..n PROVE nvp(pairs[i]) = Is(r.nvl[i])
  BY <1>3, <1>4, PairIsBack
<1>7. ASSUME NEW i \in 1..n PROVE ~ nvp(pairs[i]).fails /\ nvp(pairs[i]).is = r.nvl[i]
  BY <1>6, Outcomes
<1>8. ASSUME NEW i \in 1..n, pairs[i].format = "unset" PROVE r.nvl[i].value = <<>>
  <2>1. PICK e : pairs[i] = ReadAs(r.nvl[i], e)
    BY <1>3
  <2>2. FormatRead(r.nvl[i]) = "unset"
    BY <1>8, <2>1 DEF ReadAs
  <2>3. nvp_value_format(r.nvl[i].value) # "unset"
    BY DEF nvp_value_format
  <2> QED BY <2>2, <2>3 DEF FormatRead
<1> HIDE DEF t, id, type, src, dst, code, list
<1> DEFINE nvl == [i \in DOMAIN list.is |-> nvp(list.is[i]).is]
<1>9. nvl = r.nvl
  <2>1. DOMAIN r.nvl = 1..n /\ r.nvl = [i \in 1..n |-> r.nvl[i]]
    BY <1>4
  <2>2. nvl = [i \in 1..n |-> nvp(pairs[i]).is]
    BY <1>3, <1>5
  <2> HIDE DEF nvl, n
  <2>3. [i \in 1..n |-> nvp(pairs[i]).is] = [i \in 1..n |-> r.nvl[i]]
    BY <1>7
  <2> QED BY <2>1, <2>2, <2>3
<1> HIDE DEF nvl
<1> DEFINE whole == [id |-> id.is, type |-> type.is, src |-> src.is, dst |-> dst.is,
                     code |-> code.is, nvl |-> nvl]
<1>10. whole = r
  <2>1. r = [id |-> r.id, type |-> r.type, src |-> r.src, dst |-> r.dst,
             code |-> r.code, nvl |-> r.nvl]
    BY DEF Formed
  <2> QED BY <1>5, <1>9, <2>1
<1>11. ~ \E i \in DOMAIN list.is : nvp(list.is[i]).fails
  BY <1>3, <1>5, <1>7
<1>12. \/ o = Is(whole)
       \/ o = Fails /\ \E i \in DOMAIN list.is : list.is[i].format = "unset"
       \/ o = Corrupt /\ Len(code.is) = ReqCodeSize
  <2>1. o \in req_from_text_to_bin(t)
    BY DEF t
  <2>2. o \in {Is(whole)}
          \cup (IF \E i \in DOMAIN list.is : list.is[i].format = "unset" THEN {Fails} ELSE {})
          \cup (IF Len(code.is) = ReqCodeSize THEN {Corrupt} ELSE {})
    BY <1>5, <1>11, <2>1, Zenon
    DEF req_from_text_to_bin, id, type, src, dst, code, list, whole, nvl
  <2> HIDE DEF whole
  <2> QED BY <2>2
<1> HIDE DEF whole
<1>13. CASE o = Is(whole)
  BY <1>10, <1>13, Outcomes
<1>14. CASE o = Fails /\ \E i \in DOMAIN list.is : list.is[i].format = "unset"
  <2>1. PICK i \in 1..n : pairs[i].format = "unset"
    BY <1>3, <1>5, <1>14
  <2>2. Valueless(r)
    BY <1>4, <1>8, <2>1 DEF Valueless
  <2> QED BY <1>14, <2>2, Outcomes
<1>15. CASE o = Corrupt /\ Len(code.is) = ReqCodeSize
  BY <1>5, <1>15, Outcomes
<1> QED BY <1>12, <1>13, <1>14, <1>15
-----------------------------------------------------------------------------
(***************************************************************************)
(* A request comes back.                                                   *)
(***************************************************************************)

\* What was sent and not changed is the text of the request, and what came of a text
\* is one of the outcomes of its conversion.
RInv ==
  /\ TInv
  /\ pc \in {"sent", "converted"} /\ changes = 0 => wire = req_from_bin_to_text(req)
  /\ pc = "converted" => copy \in req_from_text_to_bin(wire)

LEMMA RInvStep == TInv /\ TInv' /\ RInv /\ [Next]_vars => RInv'
<1> SUFFICES ASSUME TInv, TInv', RInv, [Next]_vars PROVE RInv'
  OBVIOUS
<1> USE DEF RInv
<1>1. ASSUME NEW p \in Nvp, req_add_nvp_z(p) PROVE RInv'
  BY <1>1 DEF req_add_nvp_z
<1>2. CASE req_to_text
  BY <1>2 DEF req_to_text
<1>3. CASE ToTextFails
  BY <1>3 DEF ToTextFails
<1>4. CASE Change
  <2>1. changes' # 0
    BY <1>4 DEF Change, TInv, TypeOK
  <2> QED BY <1>4, <2>1 DEF Change
<1>5. CASE req_to_bin
  <2>1. pc = "sent" /\ wire' = wire /\ changes' = changes /\ req' = req
    BY <1>5 DEF req_to_bin
  <2>2. copy' \in req_from_text_to_bin(wire)
    BY <1>5 DEF req_to_bin
  <2> QED BY <2>1, <2>2
<1>6. CASE UNCHANGED vars
  BY <1>6 DEF vars
<1> QED BY <1>1, <1>2, <1>3, <1>4, <1>5, <1>6 DEF Next

LEMMA RInvAlways == Spec => []RInv
<1>1. Init => RInv
  <2>1. Init => pc = "building"
    BY DEF Init
  <2> QED BY <2>1, TInvInit DEF RInv
<1>2. Spec => []TInv
  BY TInvAlways
<1> QED BY <1>1, <1>2, RInvStep, PTL DEF Spec

\* A request that is converted to text and back is the same; it may only be refused
\* for a pair without a value, or be lost for a code of the largest size.
THEOREM RequestsComeBack == Spec => []RoundTrip
<1>1. RInv => RoundTrip
  <2> SUFFICES ASSUME RInv, Arrived, req.type = "REQUEST"
               PROVE  /\ IsIn(copy) => copy.is = req
                      /\ copy = Fails => Valueless(req)
                      /\ copy = Corrupt => Len(req.code) = ReqCodeSize
    BY DEF RoundTrip
  <2>1. Formed(req) /\ copy \in req_from_text_to_bin(req_from_bin_to_text(req))
    BY DEF RInv, TInv, Arrived
  <2> QED BY <2>1, TextComesBack
<1> QED BY <1>1, RInvAlways, PTL
-----------------------------------------------------------------------------
(***************************************************************************)
(* The pairs of a text, one after the other.                               *)
(***************************************************************************)
NvList(t) == req_text_nv_list(t, req_text_token_seek(t, "NVL"))

\* What has become a request was found whole.
LEMMA ConvertedParts ==
  ASSUME NEW t, NEW c \in req_from_text_to_bin(t), IsIn(c)
  PROVE  /\ ~ req_text_rid(t).fails /\ ~ req_text_type(t).fails /\ ~ req_text_src(t).fails
         /\ ~ req_text_dst(t).fails /\ ~ req_text_code(t).fails /\ ~ NvList(t).fails
         /\ \A i \in DOMAIN NvList(t).is : ~ nvp(NvList(t).is[i]).fails
         /\ c.is.code = req_text_code(t).is
         /\ c.is.nvl = [i \in DOMAIN NvList(t).is |-> nvp(NvList(t).is[i]).is]
<1> DEFINE id == req_text_rid(t)
           type == req_text_type(t)
           src == req_text_src(t)
           dst == req_text_dst(t)
           code == req_text_code(t)
           list == NvList(t)
           none == id.fails \/ type.fails \/ src.fails \/ dst.fails \/ code.fails
           bad == list.fails \/ \E i \in DOMAIN list.is : nvp(list.is[i]).fails
           lost == IF Len(code.is) = ReqCodeSize THEN {Corrupt} ELSE {}
           nvl == [i \in DOMAIN list.is |-> nvp(list.is[i]).is]
           whole == [id |-> id.is, type |-> type.is, src |-> src.is, dst |-> dst.is,
                     code |-> code.is, nvl |-> nvl]
<1>1. req_from_text_to_bin(t) =
        IF none THEN {Fails}
        ELSE IF bad THEN {Fails} \cup lost
        ELSE {Is(whole)}
               \cup (IF \E i \in DOMAIN list.is : list.is[i].format = "unset" THEN {Fails} ELSE {})
               \cup lost
  BY Zenon DEF req_from_text_to_bin, NvList
<1>2. whole.code = code.is /\ whole.nvl = nvl
  OBVIOUS
<1>l. lost \subseteq {Corrupt}
  OBVIOUS
<1>4. c # Fails /\ c # Corrupt
  BY Outcomes
<1>5. ~ none /\ ~ bad
  <2> HIDE DEF none, bad, whole, list, code, lost
  <2> QED BY <1>1, <1>l, <1>4
<1>3. c = Is(whole)
  <2> HIDE DEF none, bad, whole, list, code, lost
  <2> QED BY <1>1, <1>l, <1>4, <1>5
<1>6. c.is = whole
  <2> HIDE DEF whole
  <2> QED BY <1>3, Outcomes
<1> QED BY <1>2, <1>5, <1>6

\* The pairs from a place on are the one there and those behind it.
LEMMA PairsUnfold ==
  ASSUME NEW t \in Seq(Char), NEW i \in 1 .. Len(t) + 1, ~ PairsFrom(t)[i].fails,
         NEW pair, pair = req_text_nv_parse(t, i)
  PROVE  /\ ~ pair.fails
         /\ \/ At(t, pair.is.next) = End /\ PairsFrom(t)[i].is = <<pair.is>>
            \/ /\ At(t, pair.is.next) = "space" /\ pair.is.next \in i .. Len(t)
               /\ pair.is.next + 1 \in i + 1 .. Len(t) + 1
               /\ ~ PairsFrom(t)[pair.is.next + 1].fails
               /\ PairsFrom(t)[i].is = <<pair.is>> \o PairsFrom(t)[pair.is.next + 1].is
<1> DEFINE next == pair.is.next
           from == PairsFrom(t)
           o == from[i]
<1>1. o = IF pair.fails THEN Fails
          ELSE CASE At(t, next) = End     -> Is(<<pair.is>>)
                 [] At(t, next) = "space" ->
                      (IF from[next + 1].fails THEN Fails
                       ELSE Is(<<pair.is>> \o from[next + 1].is))
                 [] OTHER                 -> Fails
  BY PairsFromIs DEF PairsAt
<1>2. ~ o.fails
  OBVIOUS
<1>3. Fails.fails
  BY Outcomes
<1>4. ~ pair.fails
  BY <1>1, <1>2, <1>3
<1>e. End # "space"
  BY DEF End
<1>5. next \in Nat /\ next >= i /\ i \in Nat /\ Len(t) \in Nat
  BY <1>3, <1>4, ParseEnds
<1> HIDE DEF o, next
<1>6. CASE At(t, next) = End
  <2>1. o = Is(<<pair.is>>)
    BY <1>1, <1>4, <1>6, <1>e
  <2> QED BY <1>4, <1>6, <2>1, Outcomes DEF o, next
<1>7. CASE At(t, next) = "space"
  <2>1. next \in 1 .. Len(t)
    BY <1>5, <1>7, <1>e, AtIs
  <2>2. next \in i .. Len(t) /\ next + 1 \in i + 1 .. Len(t) + 1
    BY <1>5, <2>1
  <2>3. o = IF from[next + 1].fails THEN Fails ELSE Is(<<pair.is>> \o from[next + 1].is)
    BY <1>1, <1>4, <1>7, <1>e
  <2> HIDE DEF from
  <2>4. ~ from[next + 1].fails /\ o = Is(<<pair.is>> \o from[next + 1].is)
    BY <1>2, <1>3, <2>3
  <2>5. o.is = <<pair.is>> \o from[next + 1].is
    BY <2>4, Outcomes
  <2> QED BY <1>4, <1>7, <2>2, <2>4, <2>5 DEF o, next, from
<1>8. CASE At(t, next) # End /\ At(t, next) # "space"
  BY <1>1, <1>2, <1>3, <1>4, <1>8
<1> QED BY <1>6, <1>7, <1>8

Parsed(t) ==
  { req_text_nv_parse(t, i).is : i \in { j \in 1 .. Len(t) + 1 : ~ req_text_nv_parse(t, j).fails } }

LEMMA PairsAreSeq ==
  ASSUME NEW t \in Seq(Char)
  PROVE  \A i \in 1 .. Len(t) + 1 : ~ PairsFrom(t)[i].fails => PairsFrom(t)[i].is \in Seq(Parsed(t))
<1> DEFINE n == Len(t) + 1
           S == { i \in 1..n : ~ PairsFrom(t)[i].fails => PairsFrom(t)[i].is \in Seq(Parsed(t)) }
<1>1. ASSUME NEW i \in 1..n, \A j \in i + 1 .. n : j \in S PROVE i \in S
  <2> SUFFICES ASSUME ~ PairsFrom(t)[i].fails PROVE PairsFrom(t)[i].is \in Seq(Parsed(t))
    OBVIOUS
  <2> DEFINE pair == req_text_nv_parse(t, i)
             x == pair.is
             k == x.next + 1
             s == PairsFrom(t)[k].is
  <2>1. x \in Parsed(t)
    BY PairsUnfold DEF Parsed
  <2>2. \/ PairsFrom(t)[i].is = <<x>>
        \/ k \in i + 1 .. n /\ ~ PairsFrom(t)[k].fails /\ PairsFrom(t)[i].is = <<x>> \o s
    BY PairsUnfold
  <2>3. k \in i + 1 .. n /\ ~ PairsFrom(t)[k].fails => s \in Seq(Parsed(t))
    BY <1>1
  <2> HIDE DEF x, k, s
  <2>4. <<x>> \in Seq(Parsed(t))
    BY <2>1
  <2>5. s \in Seq(Parsed(t)) => <<x>> \o s \in Seq(Parsed(t))
    BY <2>1, ConsIs
  <2> QED BY <2>2, <2>3, <2>4, <2>5
<1>2. n \in Nat
  OBVIOUS
<1> HIDE DEF S, n
<1>3. \A i \in 1..n : i \in S
  BY <1>1, <1>2, InductionDown
<1> QED BY <1>3 DEF S, n

\* The first pair of that name.
FirstNamed(l, name, k) ==
  k \in 1 .. Len(l) /\ l[k].name = name /\ \A j \in 1 .. k - 1 : l[j].name # name

NotNamed(l, name) == \A j \in 1 .. Len(l) : l[j].name # name

\* A list of one, and one with another pair before it.
LEMMA NamedInOne ==
  ASSUME NEW l, Len(l) = 1, NEW name
  PROVE  /\ l[1].name = name => FirstNamed(l, name, 1)
         /\ l[1].name # name => NotNamed(l, name)
BY DEF FirstNamed, NotNamed

LEMMA NamedInRest ==
  ASSUME NEW l, NEW s, Len(s) \in Nat, Len(l) = Len(s) + 1,
         \A k \in 1 .. Len(s) : l[k + 1] = s[k], NEW name
  PROVE  /\ l[1].name = name => FirstNamed(l, name, 1)
         /\ l[1].name # name =>
              /\ NotNamed(s, name) => NotNamed(l, name)
              /\ \A k : FirstNamed(s, name, k) => FirstNamed(l, name, k + 1) /\ l[k + 1] = s[k]
<1>1. ASSUME l[1].name = name PROVE FirstNamed(l, name, 1)
  BY <1>1 DEF FirstNamed
<1>2. ASSUME l[1].name # name, NotNamed(s, name) PROVE NotNamed(l, name)
  <2> SUFFICES ASSUME NEW j \in 1 .. Len(l) PROVE l[j].name # name
    BY DEF NotNamed
  <2>1. CASE j = 1
    BY <1>2, <2>1
  <2>2. CASE j # 1
    <3> DEFINE k == j - 1
    <3>1. k \in 1 .. Len(s) /\ k + 1 = j
      BY <2>2
    <3> HIDE DEF k
    <3>2. l[k + 1] = s[k] /\ s[k].name # name
      BY <1>2, <3>1 DEF NotNamed
    <3> QED BY <3>1, <3>2
  <2> QED BY <2>1, <2>2
<1>3. ASSUME l[1].name # name, NEW k, FirstNamed(s, name, k)
      PROVE  FirstNamed(l, name, k + 1) /\ l[k + 1] = s[k]
  <2>1. k \in 1 .. Len(s) /\ s[k].name = name /\ \A j \in 1 .. k - 1 : s[j].name # name
    BY <1>3 DEF FirstNamed
  <2>2. k + 1 \in 1 .. Len(l) /\ l[k + 1] = s[k]
    BY <2>1
  <2>3. ASSUME NEW j \in 1 .. (k + 1) - 1 PROVE l[j].name # name
    <3>1. CASE j = 1
      BY <1>3, <3>1
    <3>2. CASE j # 1
      <4> DEFINE i == j - 1
      <4>1. i \in 1 .. Len(s) /\ i \in 1 .. k - 1 /\ i + 1 = j
        BY <2>1, <3>2
      <4> HIDE DEF i
      <4>2. l[i + 1] = s[i] /\ s[i].name # name
        BY <2>1, <4>1
      <4> QED BY <4>1, <4>2
    <3> QED BY <3>1, <3>2
  <2> QED BY <2>1, <2>2, <2>3 DEF FirstNamed
<1> QED BY <1>1, <1>2, <1>3
-----------------------------------------------------------------------------
(***************************************************************************)
(* Lookups by name.                                                        *)
(***************************************************************************)

\* The first pair of a name is the one at a place, or is among those behind it.
NamedFrom(t, l, x, name) ==
  /\ x.name = name => FirstNamed(l, name, 1) /\ l[1] = x
  /\ x.name # name /\ At(t, x.next) = End => NotNamed(l, name)
  /\ x.name # name /\ At(t, x.next) = "space" =>
       LET s == PairsFrom(t)[x.next + 1].is IN
         /\ NotNamed(s, name) => NotNamed(l, name)
         /\ \A m : FirstNamed(s, name, m) => FirstNamed(l, name, m + 1) /\ l[m + 1] = s[m]

LEMMA PairsNamed ==
  ASSUME NEW t \in Seq(Char), NEW i \in 1 .. Len(t) + 1, ~ PairsFrom(t)[i].fails, NEW name,
         NEW y, y = req_text_nv_parse(t, i).is
  PROVE  /\ ~ req_text_nv_parse(t, i).fails /\ At(t, y.next) \in {End, "space"}
         /\ At(t, y.next) = "space" => /\ y.next + 1 \in i + 1 .. Len(t) + 1
                                       /\ ~ PairsFrom(t)[y.next + 1].fails
         /\ NamedFrom(t, PairsFrom(t)[i].is, y, name)
<1> DEFINE x == req_text_nv_parse(t, i).is
           l == PairsFrom(t)[i].is
           k == x.next + 1
           s == PairsFrom(t)[k].is
           last == At(t, x.next) = End
           more == At(t, x.next) = "space"
<1>1. /\ ~ req_text_nv_parse(t, i).fails
      /\ \/ last /\ l = <<x>>
         \/ /\ more /\ k \in i + 1 .. Len(t) + 1 /\ ~ PairsFrom(t)[k].fails
            /\ l = <<x>> \o s
  BY PairsUnfold
<1>2. End # "space"
  BY DEF End
<1>3. more => /\ k \in i + 1 .. Len(t) + 1 /\ ~ PairsFrom(t)[k].fails /\ l = <<x>> \o s
  BY <1>1, <1>2
<1>4. last => l = <<x>>
  BY <1>1, <1>2
<1>5. x \in Parsed(t)
  BY <1>1 DEF Parsed
<1>6. more => s \in Seq(Parsed(t))
  <2>1. k \in i + 1 .. Len(t) + 1 => k \in 1 .. Len(t) + 1
    OBVIOUS
  <2> HIDE DEF k
  <2> QED BY <1>3, <2>1, PairsAreSeq
<1> HIDE DEF s, l, x
<1>7. last => Len(l) = 1 /\ l[1] = x
  BY <1>4
<1>8. more => /\ Len(l) = Len(s) + 1 /\ l[1] = x /\ Len(s) \in Nat
              /\ \A m \in 1 .. Len(s) : l[m + 1] = s[m]
  BY <1>3, <1>5, <1>6, ConsIs
<1> HIDE DEF last, more
<1>9. ASSUME last
      PROVE  /\ x.name = name => FirstNamed(l, name, 1)
             /\ x.name # name => NotNamed(l, name)
  <2>1. Len(l) = 1 /\ l[1] = x
    BY <1>7, <1>9
  <2>2. /\ l[1].name = name => FirstNamed(l, name, 1)
        /\ l[1].name # name => NotNamed(l, name)
    BY <2>1, NamedInOne
  <2> QED BY <2>1, <2>2
<1>10. ASSUME more
       PROVE  /\ x.name = name => FirstNamed(l, name, 1)
              /\ x.name # name =>
                   /\ NotNamed(s, name) => NotNamed(l, name)
                   /\ \A m : FirstNamed(s, name, m) =>
                        FirstNamed(l, name, m + 1) /\ l[m + 1] = s[m]
  <2>1. /\ Len(l) = Len(s) + 1 /\ Len(s) \in Nat
        /\ \A m \in 1 .. Len(s) : l[m + 1] = s[m]
    BY <1>8, <1>10
  <2>2. /\ l[1].name = name => FirstNamed(l, name, 1)
        /\ l[1].name # name =>
             /\ NotNamed(s, name) => NotNamed(l, name)
             /\ \A m : FirstNamed(s, name, m) =>
                  FirstNamed(l, name, m + 1) /\ l[m + 1] = s[m]
    BY <2>1, NamedInRest
  <2>3. l[1] = x
    BY <1>8, <1>10
  <2> QED BY <2>2, <2>3
<1>11. last \/ more
  BY <1>1
<1>12. NamedFrom(t, l, x, name)
  BY <1>7, <1>8, <1>9, <1>10, <1>11 DEF NamedFrom, last, more, s, k
<1> QED BY <1>1, <1>3, <1>12 DEF last, more, x, l

LEMMA NvFromIs ==
  ASSUME NEW t \in Seq(Char), NEW name
  PROVE  \A i \in 1 .. Len(t) + 1 : NvFrom(t, name)[i] = NvAt(t, name, NvFrom(t, name), i)
<1> DEFINE n == Len(t) + 1
           parse(i) == req_text_nv_parse(t, i)
           next(i) == parse(i).is.next
           goes(i) == ~ parse(i).fails /\ parse(i).is.name # name /\ At(t, next(i)) = "space"
           last(i) == NvAt(t, name, <<>>, i)
           first == [i \in 1..n |-> last(i)]
           from == [i \in 1..n |-> IF goes(i) THEN next(i) + 1 ELSE 0]
           A == { last(i) : i \in 1..n }
<1>1. first \in [1..n -> A] /\ n \in Nat /\ \A i \in 1..n : first[i] = last(i)
  OBVIOUS
<1>2. ASSUME NEW i \in 1..n, goes(i) PROVE next(i) + 1 \in i + 1 .. n
  <2>1. ~ (parse(i) = Fails)
    BY <1>2, Outcomes
  <2>2. next(i) \in Nat /\ next(i) >= i
    BY <2>1, ParseEnds
  <2>3. At(t, next(i)) # End
    BY <1>2 DEF End
  <2>4. next(i) \in 1 .. Len(t)
    BY <2>2, <2>3, AtIs
  <2> DEFINE x == next(i)
  <2>5. x \in 1 .. Len(t) /\ x >= i /\ x \in Nat
    BY <2>2, <2>4
  <2> HIDE DEF x
  <2>6. x + 1 \in i + 1 .. n
    BY <2>5
  <2> QED BY <2>6 DEF x
<1>3. ASSUME NEW i \in 1..n PROVE from[i] = IF goes(i) THEN next(i) + 1 ELSE 0
  BY Zenon
<1>4. ASSUME NEW i \in 1..n PROVE from[i] = 0 \/ from[i] \in i + 1 .. n
  <2> HIDE DEF from, goes, next, n
  <2> QED BY <1>2, <1>3
<1> HIDE DEF first, from, A, n
<1>5. PICK f \in [1..n -> A] : Follows(f, n, first, from)
  BY <1>1, <1>4, RecursionFollows
<1>6. ASSUME NEW i \in 1..n PROVE f[i] = NvAt(t, name, f, i)
  <2>1. CASE goes(i)
    <3>1. NvAt(t, name, f, i) = f[next(i) + 1]
      BY <2>1, Zenon DEF NvAt
    <3>2. from[i] = next(i) + 1 /\ from[i] \in i + 1 .. n
      BY <1>2, <1>3, <2>1
    <3>3. from[i] # 0
      <4>1. 0 \notin i + 1 .. n
        BY <1>1
      <4> QED BY <3>2, <4>1
    <3> QED BY <1>5, <3>1, <3>2, <3>3 DEF Follows
  <2>2. CASE ~ goes(i)
    <3>1. NvAt(t, name, f, i) = last(i)
      BY <2>2, Zenon DEF NvAt
    <3>2. from[i] = 0
      BY <1>3, <2>2
    <3> QED BY <1>1, <1>5, <3>1, <3>2 DEF Follows
  <2> QED BY <2>1, <2>2
<1> DEFINE R(g) == g = [i \in 1 .. Len(t) + 1 |-> NvAt(t, name, g, i)]
<1>7. NvFrom(t, name) = CHOOSE g : R(g)
  BY DEF NvFrom
<1>8. R(f)
  BY <1>5, <1>6 DEF n
<1> HIDE DEF R
<1>9. R(NvFrom(t, name))
  BY <1>7, <1>8, Zenon
<1> QED BY <1>9 DEF R

\* What a lookup in a text may find among the pairs of a list.
OkLookup(l, name, o) ==
  /\ IsIn(o) => \E k : FirstNamed(l, name, k) /\ o = nvp(l[k])
  /\ o = Fails => \/ NotNamed(l, name)
                  \/ \E k : /\ FirstNamed(l, name, k)
                            /\ \/ nvp(l[k]) = Fails
                               \/ l[k].format = "unset" /\ l[k].value = <<>>

LEMMA LookupInPairs ==
  ASSUME NEW t \in Seq(Char), NEW name
  PROVE  \A i \in 1 .. Len(t) + 1 : ~ PairsFrom(t)[i].fails =>
           \A o \in NvFrom(t, name)[i] : OkLookup(PairsFrom(t)[i].is, name, o)
<1> DEFINE n == Len(t) + 1
           list(i) == PairsFrom(t)[i].is
           S == { i \in 1..n : ~ PairsFrom(t)[i].fails =>
                                 \A o \in NvFrom(t, name)[i] : OkLookup(list(i), name, o) }
<1>1. ASSUME NEW i \in 1..n, \A j \in i + 1 .. n : j \in S PROVE i \in S
  <2> SUFFICES ASSUME ~ PairsFrom(t)[i].fails, NEW o \in NvFrom(t, name)[i]
               PROVE  OkLookup(list(i), name, o)
    OBVIOUS
  <2> DEFINE pair == req_text_nv_parse(t, i)
             x == pair.is
             l == list(i)
             k == x.next + 1
             here == {nvp(x)} \cup (IF x.format = "unset" THEN {Fails} ELSE {})
                       \cup (IF x.format # "encoded" \/ Len(x.value) % 2 = 1
                             THEN {Corrupt} ELSE {})
  <2>1. /\ ~ pair.fails /\ At(t, x.next) \in {End, "space"}
        /\ At(t, x.next) = "space" => k \in i + 1 .. n /\ ~ PairsFrom(t)[k].fails
        /\ NamedFrom(t, l, x, name)
    BY PairsNamed
  <2>2. NvFrom(t, name)[i] = NvAt(t, name, NvFrom(t, name), i)
    BY NvFromIs
  <2>3. /\ x.name = name => NvFrom(t, name)[i] = here
        /\ x.name # name /\ At(t, x.next) = "space" => NvFrom(t, name)[i] = NvFrom(t, name)[k]
        /\ x.name # name /\ At(t, x.next) # "space" => NvFrom(t, name)[i] = {Fails, Corrupt}
    BY <2>1, <2>2, Zenon DEF NvAt
  <2>4. At(t, x.next) = "space" => \A u \in NvFrom(t, name)[k] : OkLookup(list(k), name, u)
    BY <1>1, <2>1
  <2>5. ~ IsIn(Fails) /\ ~ IsIn(Corrupt) /\ Fails # Corrupt /\ End # "space"
    BY Outcomes DEF End
  <2>6. x.format = "unset" => x.value = <<>>
    BY <2>1, UnsetIsEmpty
  <2>7. k = x.next + 1 /\ list(k) = PairsFrom(t)[x.next + 1].is
    OBVIOUS
  <2> HIDE DEF S, x, list, k, n, l
  <2>8. CASE x.name = name
    <3>1. o = nvp(x) \/ (o = Fails /\ x.format = "unset") \/ o = Corrupt
      BY <2>3, <2>8
    <3>2. FirstNamed(l, name, 1) /\ l[1] = x
      BY <2>1, <2>8 DEF NamedFrom
    <3> QED BY <2>5, <2>6, <3>1, <3>2 DEF OkLookup, l
  <2>9. CASE x.name # name /\ At(t, x.next) = End
    <3>1. o \in {Fails, Corrupt}
      BY <2>3, <2>5, <2>9
    <3>2. NotNamed(l, name)
      BY <2>1, <2>9 DEF NamedFrom
    <3> QED BY <2>5, <3>1, <3>2 DEF OkLookup, l
  <2>10. CASE x.name # name /\ At(t, x.next) = "space"
    <3> DEFINE s == list(k)
    <3>1. OkLookup(s, name, o)
      BY <2>3, <2>4, <2>10
    <3>2. /\ NotNamed(s, name) => NotNamed(l, name)
          /\ \A m : FirstNamed(s, name, m) => FirstNamed(l, name, m + 1) /\ l[m + 1] = s[m]
      BY <2>1, <2>7, <2>10 DEF NamedFrom
    <3> HIDE DEF s
    <3> QED BY <3>1, <3>2 DEF OkLookup, l
  <2> QED BY <2>1, <2>8, <2>9, <2>10
<1>2. n \in Nat
  OBVIOUS
<1> HIDE DEF S, n
<1>3. \A i \in 1..n : i \in S
  BY <1>1, <1>2, InductionDown
<1> QED BY <1>3 DEF S, n

LEMMA NvpIs ==
  ASSUME NEW x, ~ nvp(x).fails
  PROVE  /\ nvp(x) = Is(nvp(x).is) /\ nvp(x).is.name = x.name /\ x.name # <<>>
         /\ x.format # "encoded" => nvp(x).is.value = x.value
         /\ x.format = "encoded" => /\ ~ nvp_value_decode(x.value).fails
                                    /\ nvp(x).is.value = nvp_value_decode(x.value).is
<1> DEFINE value == IF x.format = "encoded" THEN nvp_value_decode(x.value) ELSE Is(x.value)
           whole == [name |-> x.name, value |-> value.is]
<1>1. nvp(x) = IF x.name = <<>> \/ value.fails THEN Fails ELSE Is(whole)
  BY DEF nvp
<1> HIDE DEF value
<1>2. nvp(x) = Is(whole) /\ x.name # <<>> /\ ~ value.fails
  BY <1>1, Outcomes
<1>3. nvp(x).is = whole
  <2> HIDE DEF whole
  <2> QED BY <1>2, Outcomes
<1>4. x.format # "encoded" => value.is = x.value
  BY Outcomes DEF value
<1>5. x.format = "encoded" => value = nvp_value_decode(x.value)
  BY DEF value
<1> QED BY <1>2, <1>3, <1>4, <1>5

\* The lookup in a request that was made of the pairs of a list.
MadeOf(r, l) ==
  /\ Len(l) \in Nat /\ DOMAIN l = 1 .. Len(l) /\ DOMAIN r.nvl = DOMAIN l
  /\ \A i \in DOMAIN l : ~ nvp(l[i]).fails /\ r.nvl[i] = nvp(l[i]).is

LEMMA BinLookup ==
  ASSUME NEW r, NEW l, MadeOf(r, l), NEW name
  PROVE  /\ NotNamed(l, name) => req_bin_get_nv(r, name) = Fails
         /\ \A k : FirstNamed(l, name, k) => req_bin_get_nv(r, name) = nvp(l[k])
<1> DEFINE at == { i \in DOMAIN r.nvl : r.nvl[i].name = name }
           n == Len(l)
<1>0. /\ n \in Nat /\ DOMAIN l = 1..n /\ DOMAIN r.nvl = 1..n
      /\ \A i \in 1..n : ~ nvp(l[i]).fails /\ r.nvl[i] = nvp(l[i]).is
  BY DEF MadeOf
<1>1. \A i \in 1..n : r.nvl[i] = nvp(l[i]).is /\ r.nvl[i].name = l[i].name
                     /\ nvp(l[i]) = Is(nvp(l[i]).is)
  BY <1>0, NvpIs
<1>2. DOMAIN r.nvl = 1..n
  BY <1>0
<1>3. req_bin_get_nv(r, name) = IF at = {} THEN Fails ELSE Is(r.nvl[Min(at)])
  BY DEF req_bin_get_nv
<1>4. \A i : i \in at <=> i \in 1..n /\ l[i].name = name
  BY <1>1, <1>2
<1> HIDE DEF at, n
<1>n. n \in Nat /\ n = Len(l)
  BY <1>0 DEF n
<1>5. ASSUME NotNamed(l, name) PROVE req_bin_get_nv(r, name) = Fails
  <2>1. at = {}
    BY <1>4, <1>5 DEF NotNamed, n
  <2> QED BY <1>3, <2>1
<1>6. ASSUME NEW k, FirstNamed(l, name, k) PROVE req_bin_get_nv(r, name) = nvp(l[k])
  <2>1. k \in 1..n /\ l[k].name = name /\ \A j \in 1 .. k - 1 : l[j].name # name
    BY <1>6 DEF FirstNamed, n
  <2>2. k \in at /\ at \subseteq Nat
    <3>1. k \in at
      BY <1>4, <2>1
    <3>2. at \subseteq 1..n
      BY <1>4
    <3> QED BY <1>n, <3>1, <3>2
  <2>3. Min(at) \in at /\ Min(at) <= k
    <3>1. Min(at) \in at /\ \A x \in at : Min(at) <= x
      BY <2>2, MinExists
    <3> QED BY <2>2, <3>1
  <2>4. Min(at) = k
    <3> DEFINE m == Min(at)
    <3>1. m \in 1..n /\ l[m].name = name /\ m <= k
      BY <1>4, <2>3
    <3> HIDE DEF m
    <3>2. ~ (m \in 1 .. k - 1)
      BY <2>1, <3>1
    <3>3. m = k
      BY <1>n, <2>1, <3>1, <3>2
    <3> QED BY <3>3 DEF m
  <2>5. req_bin_get_nv(r, name) = Is(r.nvl[k])
    BY <1>3, <2>2, <2>4
  <2> QED BY <1>1, <2>1, <2>5
<1> QED BY <1>5, <1>6

\* The list that is converted is empty, or is the one behind the header.
LEMMA NvListIs ==
  ASSUME NEW t \in Seq(Char), ~ NvList(t).fails, NEW p, p = req_text_token_seek(t, "NVL")
  PROVE  /\ p \in 1 .. Len(t) + 1 /\ NvList(t).is \in Seq(Parsed(t))
         /\ \/ p = Len(t) + 1 /\ NvList(t).is = <<>>
            \/ p \in 1 .. Len(t) /\ ~ PairsFrom(t)[p].fails /\ NvList(t).is = PairsFrom(t)[p].is
<1>1. NvList(t) = IF p = 0 THEN Fails ELSE IF At(t, p) = End THEN Is(<<>>) ELSE PairsFrom(t)[p]
  BY DEF NvList, req_text_nv_list
<1>2. p # 0
  BY <1>1, Outcomes
<1>3. Len(t) \in Nat /\ p \in 0 .. Len(t) + 1
  BY SeekIs
<1>4. p \in 1 .. Len(t) + 1 /\ p \in Int
  BY <1>2, <1>3
<1>5. CASE At(t, p) = End
  <2>1. NvList(t) = Is(<<>>)
    BY <1>1, <1>2, <1>5
  <2>2. NvList(t).is = <<>>
    BY <2>1, Outcomes
  <2>3. p \notin 1 .. Len(t)
    <3>1. p \in 1 .. Len(t) => At(t, p) \in Char
      BY <1>4, AtIs
    <3> QED BY <1>5, <3>1, Classes
  <2>4. p = Len(t) + 1
    BY <1>3, <1>4, <2>3
  <2>5. <<>> \in Seq(Parsed(t))
    OBVIOUS
  <2> QED BY <1>4, <2>2, <2>4, <2>5
<1>6. CASE At(t, p) # End
  <2>1. NvList(t) = PairsFrom(t)[p]
    BY <1>1, <1>2, <1>6
  <2>2. p \in 1 .. Len(t)
    BY <1>4, <1>6, AtIs
  <2>3. NvList(t).is \in Seq(Parsed(t))
    BY <1>4, <2>1, PairsAreSeq
  <2> QED BY <1>4, <2>1, <2>2, <2>3
<1> QED BY <1>5, <1>6

\* There is no pair at the end of a text.
LEMMA NoPairAtEnd ==
  ASSUME NEW t \in Seq(Char), NEW p, p = Len(t) + 1, ~ req_text_nv_parse(t, p).fails
  PROVE  /\ req_text_nv_parse(t, p).is.name = <<>>
         /\ At(t, req_text_nv_parse(t, p).is.next) = End
<1> DEFINE q == RunEnd(t, p, NameChar)
           o == req_text_nv_parse(t, p)
<1>0. q = RunEnd(t, p, NameChar) /\ p \in 1 .. Len(t) + 1 /\ Len(t) \in Nat
  OBVIOUS
<1> HIDE DEF q
<1>1. o # Fails
  BY DEF Fails
<1>2. \E format, value : \E next \in q .. Len(t) + 1 :
        o = Pair(SubSeq(t, p, q - 1), format, value, next)
  BY <1>0, <1>1, ParseIs
<1>x. PICK format, value, next : /\ next \in q .. Len(t) + 1
                                 /\ o = Pair(SubSeq(t, p, q - 1), format, value, next)
  BY <1>2
<1>3. q \in p .. Len(t) + 1
  BY <1>0, ParseIs
<1>4. q = p /\ next = p
  BY <1>0, <1>x, <1>3
<1> HIDE DEF o
<1>5. o.is.name = SubSeq(t, p, p - 1) /\ o.is.next = p
  BY <1>x, <1>4 DEF Pair, Is
<1>6. SubSeq(t, p, p - 1) = <<>>
  BY <1>0
<1>7. At(t, p) = End
  <2>1. p \in Int /\ p \notin 1 .. Len(t)
    BY <1>0
  <2> QED BY <2>1, AtIs
<1> QED BY <1>5, <1>6, <1>7 DEF o

\* A pair that is found in a text by its name is the one that is found in the
\* request converted from it.
LEMMA LookupIs ==
  ASSUME NEW t \in Seq(Char), NEW c \in req_from_text_to_bin(t), IsIn(c), NEW name, name # <<>>,
         NEW o \in req_text_get_nv(t, name)
  PROVE  /\ IsIn(o) => o = req_bin_get_nv(c.is, name)
         /\ o = Fails => \/ req_bin_get_nv(c.is, name) = Fails
                         \/ req_bin_get_nv(c.is, name).is.value = <<>>
<1> DEFINE p == req_text_token_seek(t, "NVL")
           l == NvList(t).is
           r == c.is
           pair == req_text_nv_parse(t, p)
<1>1. /\ ~ NvList(t).fails /\ \A i \in DOMAIN l : ~ nvp(l[i]).fails
      /\ r.nvl = [i \in DOMAIN l |-> nvp(l[i]).is]
  BY ConvertedParts
<1>2. /\ p \in 1 .. Len(t) + 1 /\ l \in Seq(Parsed(t))
      /\ \/ p = Len(t) + 1 /\ l = <<>>
         \/ p \in 1 .. Len(t) /\ ~ PairsFrom(t)[p].fails /\ l = PairsFrom(t)[p].is
  BY <1>1, NvListIs
<1>3. Len(l) \in Nat /\ DOMAIN l = 1 .. Len(l)
  BY <1>2
<1>4. o \in NvFrom(t, name)[p]
  <2>1. p # 0
    BY <1>2
  <2> QED BY <2>1 DEF req_text_get_nv
<1> HIDE DEF p, l, r
<1>n. MadeOf(r, l)
  BY <1>1, <1>3 DEF MadeOf
<1>5. /\ NotNamed(l, name) => req_bin_get_nv(r, name) = Fails
      /\ \A k : FirstNamed(l, name, k) => req_bin_get_nv(r, name) = nvp(l[k])
  BY <1>n, BinLookup
<1>6. OkLookup(l, name, o)
  <2>1. CASE p = Len(t) + 1 /\ l = <<>>
    <3>1. ~ pair.fails => pair.is.name # name /\ At(t, pair.is.next) # "space"
      <4>1. ~ pair.fails => pair.is.name = <<>> /\ At(t, pair.is.next) = End
        BY <2>1, NoPairAtEnd
      <4> QED BY <4>1 DEF End
    <3>2. NvFrom(t, name)[p] = NvAt(t, name, NvFrom(t, name), p)
      BY <1>2, NvFromIs
    <3>3. NvFrom(t, name)[p] = {Fails, Corrupt}
      BY <3>1, <3>2, Zenon DEF NvAt
    <3>4. NotNamed(l, name)
      BY <2>1 DEF NotNamed
    <3>5. ~ IsIn(o)
      BY <1>4, <3>3, Outcomes
    <3> QED BY <3>4, <3>5 DEF OkLookup
  <2>2. CASE ~ PairsFrom(t)[p].fails /\ l = PairsFrom(t)[p].is
    BY <1>2, <1>4, <2>2, LookupInPairs
  <2> QED BY <1>2, <2>1, <2>2
<1>7. IsIn(o) => o = req_bin_get_nv(r, name)
  BY <1>5, <1>6 DEF OkLookup
<1>8. ASSUME o = Fails
      PROVE  req_bin_get_nv(r, name) = Fails \/ req_bin_get_nv(r, name).is.value = <<>>
  <2>1. CASE NotNamed(l, name)
    BY <1>5, <2>1
  <2>2. CASE ~ NotNamed(l, name)
    <3>1. PICK k : /\ FirstNamed(l, name, k)
                   /\ \/ nvp(l[k]) = Fails
                      \/ l[k].format = "unset" /\ l[k].value = <<>>
      BY <1>6, <1>8, <2>2 DEF OkLookup
    <3>2. ~ nvp(l[k]).fails
      BY <1>1, <1>3, <3>1 DEF FirstNamed
    <3>3. l[k].format = "unset" /\ l[k].value = <<>>
      BY <3>1, <3>2, Outcomes
    <3>4. nvp(l[k]).is.value = <<>>
      BY <3>2, <3>3, NvpIs
    <3> QED BY <1>5, <3>1, <3>4
  <2> QED BY <2>1, <2>2
<1> QED BY <1>7, <1>8 DEF r

\* What is found by a name in a text is what is found in the request.
THEOREM LookupsAgree == Spec => []LookupAgrees
<1>1. RInv => LookupAgrees
  <2> SUFFICES ASSUME RInv, pc = "converted", IsIn(copy), NEW name \in Names,
                      NEW o \in req_text_get_nv(wire, name)
               PROVE  /\ IsIn(o) => o = req_bin_get_nv(copy.is, name)
                      /\ o = Fails => \/ req_bin_get_nv(copy.is, name) = Fails
                                      \/ req_bin_get_nv(copy.is, name).is.value = <<>>
    BY DEF LookupAgrees
  <2>1. wire \in Seq(Char) /\ copy \in req_from_text_to_bin(wire)
    BY DEF RInv, TInv
  <2>2. name # <<>>
    BY RequestAssumption
  <2> QED BY <2>1, <2>2, LookupIs
<1> QED BY <1>1, RInvAlways, PTL
-----------------------------------------------------------------------------
(***************************************************************************)
(* What is known of a pair.                                                *)
(***************************************************************************)

InfoGoes(t, i) ==
  /\ IsIn(req_text_nv_validate(t, i)) /\ ~ req_text_nv_parse(t, i).fails
  /\ nvp_flag_test(req_text_nv_validate(t, i).is, NFlag.VALID)
  /\ nvp_flag_test(req_text_nv_validate(t, i).is, VFlag.VALID)

\* What the search finds at a place, with x the pair there and what comes of it.
InfoArms(t, name, from, i, x, found) ==
  /\ InfoGoes(t, i) /\ x.name = name => found = FoundInText(x)
  /\ InfoGoes(t, i) /\ x.name # name /\ At(t, x.next) = "space" => found = from[x.next + 1]
  /\ InfoGoes(t, i) /\ x.name # name /\ At(t, x.next) = End =>
       found = {Is([flags |-> LFlag.NOT_FOUND])}
  /\ ~ InfoGoes(t, i) => found \in {{Hangs}, {Fails}}

LEMMA InfoAtIs ==
  ASSUME NEW t, NEW name, NEW from, NEW i, NEW x, x = req_text_nv_parse(t, i).is
  PROVE  InfoArms(t, name, from, i, x, InfoAt(t, name, from, i))
<1> DEFINE valid == req_text_nv_validate(t, i)
           g == InfoGoes(t, i)
           a2 == FoundInText(x)
           a3 == from[x.next + 1]
           a4 == {Is([flags |-> LFlag.NOT_FOUND])}
<1>1. InfoAt(t, name, from, i) =
        CASE valid = Hangs -> {Hangs}
          [] g /\ x.name = name -> a2
          [] g /\ x.name # name /\ At(t, x.next) = "space" -> a3
          [] g /\ x.name # name /\ At(t, x.next) = End -> a4
          [] OTHER -> {Fails}
  BY Zenon DEF InfoAt, InfoGoes
<1>2. g => valid # Hangs
  <2>1. ~ IsIn(Hangs)
    BY DEF IsIn, Hangs
  <2> HIDE DEF valid
  <2>2. g => IsIn(valid)
    BY DEF InfoGoes, valid
  <2> QED BY <2>1, <2>2
<1>3. End # "space"
  BY DEF End
<1> HIDE DEF valid, g, a2, a3, a4
<1>4. g /\ x.name = name => InfoAt(t, name, from, i) = a2
  BY <1>1, <1>2
<1>5. g /\ x.name # name /\ At(t, x.next) = "space" => InfoAt(t, name, from, i) = a3
  BY <1>1, <1>2, <1>3
<1>6. g /\ x.name # name /\ At(t, x.next) = End => InfoAt(t, name, from, i) = a4
  BY <1>1, <1>2, <1>3
<1>7. ~ g => InfoAt(t, name, from, i) \in {{Hangs}, {Fails}}
  BY <1>1
<1> QED BY <1>4, <1>5, <1>6, <1>7 DEF g, a2, a3, a4, InfoArms

\* If the search ends at a place, what is behind it does not matter.
LEMMA InfoAtStays ==
  ASSUME NEW t, NEW name, NEW f, NEW g, NEW i, NEW x, x = req_text_nv_parse(t, i).is,
         ~ (InfoGoes(t, i) /\ x.name # name /\ At(t, x.next) = "space")
  PROVE  InfoAt(t, name, f, i) = InfoAt(t, name, g, i)
<1> DEFINE valid == req_text_nv_validate(t, i)
           goes == InfoGoes(t, i)
           named == x.name = name
           more == At(t, x.next) = "space"
           a2 == FoundInText(x)
           a4 == {Is([flags |-> LFlag.NOT_FOUND])}
           c1 == valid = Hangs
           c4 == goes /\ x.name # name /\ At(t, x.next) = End
           a1 == {Hangs}
           a5 == {Fails}
           arms(from) == CASE c1 -> a1
                           [] goes /\ named -> a2
                           [] goes /\ x.name # name /\ more -> from[x.next + 1]
                           [] c4 -> a4
                           [] OTHER -> a5
<1>1. InfoAt(t, name, f, i) = arms(f) /\ InfoAt(t, name, g, i) = arms(g)
  BY Zenon DEF InfoAt, InfoGoes
<1>2. ~ (goes /\ x.name # name /\ more) /\ (named <=> x.name = name)
  OBVIOUS
<1>3. c4 => goes /\ ~ named
  OBVIOUS
<1>4. c1 => ~ goes
  <2>1. ~ IsIn(Hangs)
    BY DEF IsIn, Hangs
  <2> HIDE DEF valid
  <2>2. goes => IsIn(valid)
    BY DEF InfoGoes, valid
  <2> QED BY <2>1, <2>2
<1> HIDE DEF valid, goes, named, more, a1, a2, a4, a5, c1, c4
<1>5. arms(f) = arms(g)
  BY <1>2, <1>3, <1>4
<1> QED BY <1>1, <1>5

LEMMA InfoFromIs ==
  ASSUME NEW t \in Seq(Char), NEW name
  PROVE  \A i \in 1 .. Len(t) + 1 : InfoFrom(t, name)[i] = InfoAt(t, name, InfoFrom(t, name), i)
<1> DEFINE n == Len(t) + 1
           x(i) == req_text_nv_parse(t, i).is
           next(i) == x(i).next
           goes(i) == InfoGoes(t, i) /\ x(i).name # name /\ At(t, next(i)) = "space"
           last(i) == InfoAt(t, name, <<>>, i)
           first == [i \in 1..n |-> last(i)]
           from == [i \in 1..n |-> IF goes(i) THEN next(i) + 1 ELSE 0]
           A == { last(i) : i \in 1..n }
<1>1. first \in [1..n -> A] /\ n \in Nat /\ \A i \in 1..n : first[i] = last(i)
  OBVIOUS
<1>2. ASSUME NEW i \in 1..n, goes(i) PROVE next(i) + 1 \in i + 1 .. n
  <2>1. ~ (req_text_nv_parse(t, i) = Fails)
    BY <1>2, Outcomes DEF InfoGoes
  <2>2. next(i) \in Nat /\ next(i) >= i
    BY <2>1, ParseEnds
  <2>3. At(t, next(i)) # End
    BY <1>2 DEF End
  <2>4. next(i) \in 1 .. Len(t)
    BY <2>2, <2>3, AtIs
  <2> DEFINE y == next(i)
  <2>5. y \in 1 .. Len(t) /\ y >= i /\ y \in Nat
    BY <2>2, <2>4
  <2> HIDE DEF y
  <2>6. y + 1 \in i + 1 .. n
    BY <2>5
  <2> QED BY <2>6 DEF y
<1>3. ASSUME NEW i \in 1..n PROVE from[i] = IF goes(i) THEN next(i) + 1 ELSE 0
  BY Zenon
<1>4. ASSUME NEW i \in 1..n PROVE from[i] = 0 \/ from[i] \in i + 1 .. n
  <2> HIDE DEF from, goes, next, n
  <2> QED BY <1>2, <1>3
<1> HIDE DEF first, from, A, n
<1>5. PICK f \in [1..n -> A] : Follows(f, n, first, from)
  BY <1>1, <1>4, RecursionFollows
<1>6. ASSUME NEW i \in 1..n PROVE f[i] = InfoAt(t, name, f, i)
  <2>1. CASE goes(i)
    <3>1. InfoAt(t, name, f, i) = f[next(i) + 1]
      <4> DEFINE y == x(i)
      <4>1. y = req_text_nv_parse(t, i).is
        OBVIOUS
      <4>2. InfoGoes(t, i) /\ y.name # name /\ At(t, y.next) = "space"
        BY <2>1
      <4> HIDE DEF y
      <4>3. InfoArms(t, name, f, i, y, InfoAt(t, name, f, i))
        BY <4>1, InfoAtIs
      <4>4. InfoAt(t, name, f, i) = f[y.next + 1]
        BY <4>2, <4>3 DEF InfoArms
      <4> QED BY <4>4 DEF y
    <3>2. from[i] = next(i) + 1 /\ from[i] \in i + 1 .. n
      BY <1>2, <1>3, <2>1
    <3>3. from[i] # 0
      <4>1. 0 \notin i + 1 .. n
        BY <1>1
      <4> QED BY <3>2, <4>1
    <3> QED BY <1>5, <3>1, <3>2, <3>3 DEF Follows
  <2>2. CASE ~ goes(i)
    <3>1. InfoAt(t, name, f, i) = last(i)
      <4> DEFINE y == x(i)
      <4>1. y = req_text_nv_parse(t, i).is
        OBVIOUS
      <4>2. ~ (InfoGoes(t, i) /\ y.name # name /\ At(t, y.next) = "space")
        BY <2>2
      <4> HIDE DEF y
      <4> QED BY <4>1, <4>2, InfoAtStays
    <3>2. from[i] = 0
      BY <1>3, <2>2
    <3> QED BY <1>1, <1>5, <3>1, <3>2 DEF Follows
  <2> QED BY <2>1, <2>2
<1> DEFINE R(g) == g = [i \in 1 .. Len(t) + 1 |-> InfoAt(t, name, g, i)]
<1>7. InfoFrom(t, name) = CHOOSE g : R(g)
  BY DEF InfoFrom
<1>8. R(f)
  BY <1>5, <1>6 DEF n
<1> HIDE DEF R
<1>9. R(InfoFrom(t, name))
  BY <1>7, <1>8, Zenon
<1> QED BY <1>9 DEF R

LEMMA FlagsAre ==
  /\ NFlag.VALID = {28, 0} /\ NFlag.NOT_SET = {28, 2}
  /\ VFlag.VALID = {29, 0} /\ VFlag.NOT_SET = {29, 2}
  /\ LFlag.NOT_FOUND = {30, 0} /\ LFlag.FOUND = {30, 1}
  /\ FFlag.unquoted = {28, 29, 0} /\ FFlag.quoted = {28, 29, 1}
  /\ FFlag.encoded = {28, 29, 2}
BY DEF NFlag, VFlag, LFlag, FFlag

\* The end of the loop over a value that begins with first, at the first character
\* c that it looks at, or no end.
ValueStops(first, c) == c \in {End, "space"} \/ (first = "quote" /\ c = "quote")

ValueLoops(first, c) ==
  \/ first = "#" /\ c \in EValueChar
  \/ first = "quote" /\ c \in QValueChar
  \/ first \notin {"#", "quote"} /\ c \in ValueChar

FirstOfValue(t, q) == At(t, IF At(t, q + 1) \in {"#", "quote"} THEN q + 2 ELSE q + 1)

\* What the pair at a place is found to be, with q the end of its name.
Validated(t, i, q, first, c, valid) ==
  /\ q = i => valid \in {Fails, Is(NFlag.NOT_SET), Is(Uninitialized)}
  /\ q > i /\ At(t, q) = End => valid = Is(NFlag.VALID)
  /\ q > i /\ At(t, q) = "space" =>
       valid = Is(NFlag.VALID \cup VFlag.VALID \cup VFlag.NOT_SET)
  /\ q > i /\ At(t, q) = "=" =>
       /\ ValueStops(first, c) => valid = Is(NFlag.VALID \cup VFlag.VALID)
       /\ ~ ValueStops(first, c) /\ ValueLoops(first, c) => valid = Hangs
       /\ ~ ValueStops(first, c) /\ ~ ValueLoops(first, c) => valid = Is(NFlag.VALID)
  /\ q > i /\ At(t, q) \notin {End, "space", "="} => valid = Is(Uninitialized)

LEMMA ValidateIs ==
  ASSUME NEW t, NEW i \in Nat, NEW q \in Nat, q = RunEnd(t, i, NameChar), q >= i
  PROVE  Validated(t, i, q, At(t, q + 1), FirstOfValue(t, q), req_text_nv_validate(t, i))
<1> DEFINE first == At(t, q + 1)
           c == FirstOfValue(t, q)
           valid == req_text_nv_validate(t, i)
<1>0. End # "=" /\ "=" # "space" /\ End # "space" /\ "#" # "quote"
  BY DEF End
<1> DEFINE a == At(t, q)
           class == CASE first = "#"  -> EValueChar
                      [] first = "quote" -> QValueChar
                      [] OTHER        -> ValueChar
           inner == CASE c \in {End, "space"} \/ (first = "quote" /\ c = "quote") ->
                           Is(NFlag.VALID \cup VFlag.VALID)
                      [] c \in class \ {"space"} -> Hangs
                      [] OTHER              -> Is(NFlag.VALID)
           three == Is(NFlag.VALID \cup VFlag.VALID \cup VFlag.NOT_SET)
           two == Is(NFlag.VALID \cup VFlag.VALID)
           one == Is(NFlag.VALID)
           none == Is(NFlag.NOT_SET)
           rest == Is(Uninitialized)
<1>1. valid = CASE a = End /\ q = i            -> Fails
                [] a = End /\ q > i            -> one
                [] a \in {"=", "space"} /\ q = i   -> none
                [] a = "space" /\ q > i            -> three
                [] a = "=" /\ q > i            -> inner
                [] OTHER                              -> rest
  BY Zenon DEF req_text_nv_validate, FirstOfValue
<1>2. /\ first = "#" => class = EValueChar
      /\ first = "quote" => class = QValueChar
      /\ first \notin {"#", "quote"} => class = ValueChar
  BY <1>0
<1> HIDE DEF class
<1>3. /\ ValueStops(first, c) => inner = two
      /\ ~ ValueStops(first, c) /\ ValueLoops(first, c) => inner = Hangs
      /\ ~ ValueStops(first, c) /\ ~ ValueLoops(first, c) => inner = one
  <2>1. ~ ValueStops(first, c) => (c \in class \ {"space"} <=> ValueLoops(first, c))
    BY <1>0, <1>2 DEF ValueStops, ValueLoops
  <2> DEFINE s == ValueStops(first, c)
             k == c \in class \ {"space"}
  <2>2. inner = CASE s -> two [] k -> Hangs [] OTHER -> one
    BY Zenon DEF ValueStops
  <2>3. s => ~ k
    <3>1. s => c \in {End, "space", "quote"} /\ (c = "quote" => first = "quote" \/ c = End)
      BY DEF s, ValueStops
    <3>2. End \notin QValueChar /\ End \notin EValueChar /\ End \notin ValueChar
          /\ "quote" \notin QValueChar
      BY Classes
    <3> QED BY <1>0, <1>2, <3>1, <3>2 DEF k
  <2> HIDE DEF s, k, inner, two, one
  <2>4. (s => inner = two) /\ (~ s /\ k => inner = Hangs) /\ (~ s /\ ~ k => inner = one)
    BY <2>2, <2>3
  <2> QED BY <2>1, <2>3, <2>4 DEF s, k
<1> HIDE DEF inner, one, two, three, none, rest, a
<1>4. q = i \/ q > i
  OBVIOUS
<1>5. q = i => valid \in {Fails, none, rest}
  BY <1>1
<1>6. q > i => /\ a = End => valid = one
               /\ a = "space" => valid = three
               /\ a = "=" => valid = inner
               /\ a \notin {End, "space", "="} => valid = rest
  BY <1>0, <1>1
<1>7. Validated(t, i, q, first, c, valid)
  BY <1>3, <1>5, <1>6 DEF one, two, three, none, rest, a, Validated
<1> QED BY <1>7 DEF first, c, valid

\* The only value of which the text says anything is an empty one, or one in
\* quotes that begins with a space.
LEMMA InfoHere ==
  ASSUME NEW t \in Seq(Char), NEW i \in 1 .. Len(t) + 1, InfoGoes(t, i),
         NEW x, x = req_text_nv_parse(t, i).is
  PROVE  \/ x.value = <<>>
         \/ x.format = "quoted" /\ x.value \in Seq(QValueChar) /\ x.value[1] = "space"
            /\ x.value # <<>>
<1> DEFINE q == RunEnd(t, i, NameChar)
           o == req_text_nv_parse(t, i)
           valid == req_text_nv_validate(t, i)
           first == At(t, q + 1)
           c == FirstOfValue(t, q)
<1>0. q = RunEnd(t, i, NameChar)
  OBVIOUS
<1> HIDE DEF q
<1>1. o # Fails /\ IsIn(valid) /\ NFlag.VALID \subseteq valid.is /\ VFlag.VALID \subseteq valid.is
  BY Outcomes DEF InfoGoes, nvp_flag_test
<1>2. PICK format, value : \E next \in q .. Len(t) + 1 :
        /\ IsRead(t, q, format, value, next)
        /\ o = Pair(SubSeq(t, i, q - 1), format, value, next)
  BY <1>0, <1>1, ParseIs
<1>3. PICK next \in q .. Len(t) + 1 : IsRead(t, q, format, value, next)
  BY <1>2
<1>4. q \in i .. Len(t) + 1 /\ Len(t) \in Nat /\ i \in Nat /\ i > 0 /\ q \in Nat
  BY <1>0, ParseIs
<1>5. x.format = format /\ x.value = value
  BY <1>2 DEF Pair, Is
<1>6. ~ IsIn(Hangs) /\ ~ IsIn(Fails)
  BY Outcomes DEF IsIn, Hangs
<1>7. valid \notin {Hangs, Fails, Is(NFlag.VALID), Is(NFlag.NOT_SET), Is(Uninitialized)}
  <2> HIDE DEF valid
  <2>1. NFlag.VALID = {28, 0} /\ NFlag.NOT_SET = {28, 2} /\ Uninitialized = {31}
        /\ VFlag.VALID = {29, 0}
    BY FlagsAre DEF Uninitialized
  <2>2. 29 \in valid.is
    BY <1>1, <2>1
  <2> QED BY <1>1, <1>6, <2>1, <2>2, Outcomes
<1>8. At(t, q) = "=" => ValueStops(first, c)
  <2> HIDE DEF valid, first, c
  <2>1. At(t, q) = "=" /\ ~ ValueStops(first, c) => valid \in {Hangs, Fails, Is(NFlag.VALID),
                                                    Is(NFlag.NOT_SET), Is(Uninitialized)}
    <3>1. q = i \/ q > i
      BY <1>4
    <3>2. /\ q = i => valid \in {Fails, Is(NFlag.NOT_SET), Is(Uninitialized)}
          /\ q > i /\ At(t, q) = "=" =>
              /\ ~ ValueStops(first, c) /\ ValueLoops(first, c) => valid = Hangs
              /\ ~ ValueStops(first, c) /\ ~ ValueLoops(first, c) => valid = Is(NFlag.VALID)
      BY <1>0, <1>4, ValidateIs DEF valid, first, c, Validated
    <3> QED BY <3>1, <3>2
  <2> QED BY <1>7, <2>1
<1> HIDE DEF o, valid
<1>9. End \notin ValueChar /\ End \notin QValueChar /\ "space" \notin ValueChar
      /\ "quote" \notin QValueChar /\ End # "=" /\ End # "#" /\ End # "quote" /\ "quote" \notin ValueChar
  BY Classes DEF End
<1>10. CASE format = "unset"
  BY <1>3, <1>5, <1>10 DEF IsRead
<1>11. CASE format = "unquoted"
  <2>1. At(t, q) = "=" /\ first \in ValueChar
    BY <1>3, <1>11 DEF IsRead
  <2>2. first # "#"
    BY <2>1, Classes
  <2>3. c = first
    BY <1>9, <2>1, <2>2 DEF FirstOfValue
  <2> QED BY <1>8, <1>9, <2>1, <2>3 DEF ValueStops
<1>12. CASE format = "encoded"
  <2> DEFINE b == q + 2
             e == RunEnd(t, b, ValueChar)
  <2>1. /\ At(t, q) = "=" /\ first = "#"
        /\ next = e /\ value = SubSeq(t, b, next - 1)
    BY <1>3, <1>12 DEF IsRead
  <2>2. c = At(t, b) /\ c \in {End, "space"}
    BY <1>8, <2>1 DEF FirstOfValue, ValueStops
  <2>3. b \in 1 .. Len(t) + 1
    <3>1. q + 1 \in Int /\ At(t, q + 1) # End
      BY <1>4, <1>9, <2>1
    <3>2. q + 1 \in 1 .. Len(t)
      BY <3>1, AtIs
    <3> QED BY <1>4, <3>2
  <2> HIDE DEF b
  <2>4. e \in b .. Len(t) + 1 /\ \A j \in b .. e - 1 : j \in 1 .. Len(t) /\ t[j] \in ValueChar
    BY <1>9, <2>3, RunEndIs
  <2> HIDE DEF e, c, first
  <2>5. ~ (e > b)
    <3> SUFFICES ASSUME e > b PROVE FALSE
      OBVIOUS
    <3>1. b \in b .. e - 1
      BY <2>3, <2>4
    <3>2. b \in 1 .. Len(t) /\ t[b] \in ValueChar /\ b \in Int
      BY <2>3, <2>4, <3>1
    <3>3. At(t, b) = t[b]
      BY <3>2, AtIs
    <3> QED BY <1>9, <2>2, <3>2, <3>3
  <2>6. value = SubSeq(t, b, b - 1) /\ b \in Nat /\ b > 0
    BY <1>4, <2>1, <2>3, <2>4, <2>5
  <2>7. value = <<>>
    BY <2>6
  <2> QED BY <1>5, <2>7
<1>13. CASE format = "quoted"
  <2> DEFINE b == q + 2
             e == RunEnd(t, b, QValueChar)
  <2>1. /\ At(t, q) = "=" /\ first = "quote" /\ next = e + 1 /\ At(t, next - 1) = "quote"
        /\ value = SubSeq(t, b, next - 2)
    BY <1>3, <1>13 DEF IsRead
  <2>2. c = At(t, b) /\ c \in {End, "space", "quote"}
    BY <1>8, <2>1 DEF FirstOfValue, ValueStops
  <2>3. b \in 1 .. Len(t) + 1
    <3>1. q + 1 \in Int /\ At(t, q + 1) # End
      BY <1>4, <1>9, <2>1
    <3>2. q + 1 \in 1 .. Len(t)
      BY <3>1, AtIs
    <3> QED BY <1>4, <3>2
  <2> HIDE DEF b
  <2>4. e \in b .. Len(t) + 1 /\ \A j \in b .. e - 1 : j \in 1 .. Len(t) /\ t[j] \in QValueChar
    BY <1>9, <2>3, RunEndIs
  <2> HIDE DEF e, c, first
  <2>5. value = SubSeq(t, b, e - 1) /\ At(t, e) = "quote" /\ b \in Nat /\ b > 0 /\ e \in Nat
    <3>1. e \in Nat /\ b \in Nat /\ b > 0
      BY <2>3, <2>4
    <3>2. next - 2 = e - 1 /\ next - 1 = e
      BY <2>1, <3>1
    <3> QED BY <2>1, <3>1, <3>2
  <2>6. CASE e = b
    <3>1. value = <<>>
      BY <2>5, <2>6
    <3> QED BY <1>5, <3>1
  <2>7. CASE e # b
    <3>1. b \in b .. e - 1
      BY <2>3, <2>4, <2>5, <2>7
    <3>2. b \in 1 .. Len(t) /\ t[b] \in QValueChar /\ b \in Int
      BY <2>3, <2>4, <3>1
    <3>3. At(t, b) = t[b]
      BY <3>2, AtIs
    <3>4. t[b] = "space"
      BY <1>9, <2>2, <3>2, <3>3
    <3> DEFINE m == e - b
    <3>5. m \in Nat /\ m > 0 /\ value = [k \in 1 .. m |-> t[k + b - 1]]
      BY <2>3, <2>4, <2>5, <2>7
    <3>6. \A k \in 1 .. m : t[k + b - 1] \in QValueChar
      <4> SUFFICES ASSUME NEW k \in 1 .. m PROVE t[k + b - 1] \in QValueChar
        OBVIOUS
      <4>1. k + b - 1 \in b .. e - 1
        BY <2>3, <2>4, <2>5
      <4> QED BY <2>4, <4>1
    <3> HIDE DEF m
    <3>7. value \in Seq(QValueChar) /\ Len(value) = m
      <4>1. value \in [1 .. m -> QValueChar]
        BY <3>5, <3>6
      <4> QED BY <3>5, <4>1
    <3>8. value[1] = t[1 + b - 1] /\ 1 + b - 1 = b
      BY <2>5, <3>5
    <3>9. value # <<>>
      BY <3>5, <3>7
    <3> QED BY <1>5, <1>13, <3>4, <3>7, <3>8, <3>9
  <2> QED BY <2>6, <2>7
<1> QED BY <1>3, <1>10, <1>11, <1>12, <1>13 DEF IsRead

LEMMA NothingDecoded == nvp_value_decode(<<>>) = Is(<<>>)
<1> DEFINE h == <<>>
<1>1. ~ (Len(h) % 2 = 1) /\ Len(h) \div 2 = 0
  OBVIOUS
<1>2. ~ \E i \in 1 .. 0 : ~ IsHex(h[2 * i - 1])
  OBVIOUS
<1>3. [i \in 1 .. 0 |-> OfAscii(Byte(h[2 * i - 1], h[2 * i]))] = <<>>
  OBVIOUS
<1> HIDE DEF h
<1>4. nvp_value_decode(h) =
        IF Len(h) % 2 = 1 \/ \E i \in 1 .. 0 : ~ IsHex(h[2 * i - 1]) THEN Fails
        ELSE Is([i \in 1 .. 0 |-> OfAscii(Byte(h[2 * i - 1], h[2 * i]))])
  BY <1>1, Zenon DEF nvp_value_decode
<1>5. nvp_value_decode(h) = Is(<<>>)
  BY <1>1, <1>2, <1>3, <1>4, Zenon
<1> QED BY <1>5 DEF h

\* The flags of a value in quotes.
QuotedFlags == LFlag.FOUND \cup FFlag.quoted \cup NFlag.VALID \cup VFlag.VALID

LEMMA FoundIs ==
  ASSUME NEW x, NEW o \in FoundInText(x), IsIn(o)
  PROVE  /\ LFlag.FOUND \subseteq o.is.flags /\ o.is.value = x.value
         /\ x.format = "quoted" => o.is.flags = QuotedFlags
<1> DEFINE info(f) == [flags |-> LFlag.FOUND \cup f \cup NFlag.VALID \cup VFlag.VALID,
                       value |-> x.value]
           Fflags == IF x.format = "unset" THEN SUBSET Bits ELSE {FFlag[x.format]}
<1>1. \E f \in Fflags : o \in {Fails, Is(info(f))}
  BY DEF FoundInText
<1>2. PICK f \in Fflags : o \in {Fails, Is(info(f))}
  BY <1>1
<1>3. x.format = "quoted" => f = FFlag.quoted
  BY <1>2
<1> DEFINE y == info(f)
<1>4. LFlag.FOUND \subseteq y.flags /\ y.value = x.value
      /\ y.flags = LFlag.FOUND \cup f \cup NFlag.VALID \cup VFlag.VALID
  OBVIOUS
<1> HIDE DEF y, info, Fflags
<1>5. o.is = info(f)
  BY <1>2, Outcomes
<1> QED BY <1>3, <1>4, <1>5 DEF y, QuotedFlags

\* What is said of a pair that has a value.
SaysQuoted(info) ==
  info.value # <<>> => /\ info.flags = QuotedFlags
                       /\ info.value \in Seq(QValueChar) /\ info.value[1] = "space"

\* What the search in a text may say of the pairs of a list.
OkInfo(l, name, o) ==
  IsIn(o) =>
    \/ o.is.flags = LFlag.NOT_FOUND /\ NotNamed(l, name)
    \/ /\ LFlag.FOUND \subseteq o.is.flags /\ SaysQuoted(o.is)
       /\ \E k : /\ FirstNamed(l, name, k)
                 /\ ~ nvp(l[k]).fails => nvp(l[k]).is.value = o.is.value

LEMMA InfoInPairs ==
  ASSUME NEW t \in Seq(Char), NEW name
  PROVE  \A i \in 1 .. Len(t) + 1 : ~ PairsFrom(t)[i].fails =>
           \A o \in InfoFrom(t, name)[i] : OkInfo(PairsFrom(t)[i].is, name, o)
<1> DEFINE n == Len(t) + 1
           list(i) == PairsFrom(t)[i].is
           S == { i \in 1..n : ~ PairsFrom(t)[i].fails =>
                                 \A o \in InfoFrom(t, name)[i] : OkInfo(list(i), name, o) }
<1>1. ASSUME NEW i \in 1..n, \A j \in i + 1 .. n : j \in S PROVE i \in S
  <2> SUFFICES ASSUME ~ PairsFrom(t)[i].fails, NEW o \in InfoFrom(t, name)[i], IsIn(o)
               PROVE  OkInfo(list(i), name, o)
    BY DEF OkInfo
  <2> DEFINE x == req_text_nv_parse(t, i).is
             l == list(i)
             k == x.next + 1
             goes == InfoGoes(t, i)
             none == Is([flags |-> LFlag.NOT_FOUND])
  <2>1. /\ ~ req_text_nv_parse(t, i).fails /\ At(t, x.next) \in {End, "space"}
        /\ At(t, x.next) = "space" => k \in i + 1 .. n /\ ~ PairsFrom(t)[k].fails
        /\ NamedFrom(t, l, x, name)
    BY PairsNamed
  <2>2. InfoFrom(t, name)[i] = InfoAt(t, name, InfoFrom(t, name), i)
    BY InfoFromIs
  <2>3. InfoArms(t, name, InfoFrom(t, name), i, x, InfoFrom(t, name)[i])
    BY <2>2, InfoAtIs
  <2>4. At(t, x.next) = "space" => \A u \in InfoFrom(t, name)[k] : OkInfo(list(k), name, u)
    BY <1>1, <2>1
  <2>5. ~ IsIn(Fails) /\ ~ IsIn(Hangs)
    BY Outcomes DEF Hangs, IsIn
  <2>6. goes => \/ x.value = <<>>
                \/ /\ x.format = "quoted" /\ x.value \in Seq(QValueChar)
                   /\ x.value[1] = "space" /\ x.value # <<>>
    BY InfoHere
  <2>7. k = x.next + 1 /\ list(k) = PairsFrom(t)[x.next + 1].is
    OBVIOUS
  <2>8. goes
    BY <2>3, <2>5 DEF InfoArms
  <2>9. /\ x.name = name => o \in FoundInText(x)
        /\ x.name # name /\ At(t, x.next) = "space" => o \in InfoFrom(t, name)[k]
        /\ x.name # name /\ At(t, x.next) = End => o = none
    BY <2>3, <2>8 DEF InfoArms
  <2> HIDE DEF S, x, list, k, n, l, goes
  <2>10. CASE x.name = name
    <3>1. /\ LFlag.FOUND \subseteq o.is.flags /\ o.is.value = x.value
          /\ x.format = "quoted" => o.is.flags = QuotedFlags
      BY <2>9, <2>10, FoundIs
    <3>2. FirstNamed(l, name, 1) /\ l[1] = x
      BY <2>1, <2>10 DEF NamedFrom
    <3>3. ~ nvp(x).fails => nvp(x).is.value = x.value
      <4>1. CASE x.format = "encoded"
        <5>1. x.value = <<>>
          BY <2>6, <2>8, <4>1
        <5>2. nvp_value_decode(x.value).is = <<>>
          BY <5>1, NothingDecoded, Outcomes
        <5> QED BY <4>1, <5>1, <5>2, NvpIs
      <4>2. CASE x.format # "encoded"
        BY <4>2, NvpIs
      <4> QED BY <4>1, <4>2
    <3>4. SaysQuoted(o.is)
      BY <2>6, <2>8, <3>1 DEF SaysQuoted
    <3> QED BY <3>1, <3>2, <3>3, <3>4 DEF OkInfo, l
  <2>11. CASE x.name # name /\ At(t, x.next) = End
    <3> DEFINE y == [flags |-> LFlag.NOT_FOUND]
    <3>1. y.flags = LFlag.NOT_FOUND
      OBVIOUS
    <3> HIDE DEF y
    <3>2. o.is = y
      BY <2>9, <2>11, Outcomes DEF y
    <3>3. NotNamed(l, name)
      BY <2>1, <2>11 DEF NamedFrom
    <3> QED BY <3>1, <3>2, <3>3 DEF OkInfo, l
  <2>12. CASE x.name # name /\ At(t, x.next) = "space"
    <3> DEFINE s == list(k)
    <3>1. OkInfo(s, name, o)
      BY <2>4, <2>9, <2>12
    <3>2. /\ NotNamed(s, name) => NotNamed(l, name)
          /\ \A m : FirstNamed(s, name, m) => FirstNamed(l, name, m + 1) /\ l[m + 1] = s[m]
      BY <2>1, <2>7, <2>12 DEF NamedFrom
    <3> HIDE DEF s
    <3> QED BY <3>1, <3>2 DEF OkInfo, l
  <2> QED BY <2>1, <2>10, <2>11, <2>12
<1>2. n \in Nat
  OBVIOUS
<1> HIDE DEF S, n
<1>3. \A i \in 1..n : i \in S
  BY <1>1, <1>2, InductionDown
<1> QED BY <1>3 DEF S, n

\* What a text is found to say of a pair, against the converted request.
LEMMA TextInfoIs ==
  ASSUME NEW t \in Seq(Char), NEW c \in req_from_text_to_bin(t), IsIn(c), NEW name, name # <<>>,
         NEW o \in req_text_get_nv_info(t, name), IsIn(o), NEW nv, nv = req_bin_get_nv(c.is, name)
  PROVE  \/ o.is.flags = LFlag.NOT_FOUND /\ nv.fails
         \/ /\ LFlag.FOUND \subseteq o.is.flags /\ ~ nv.fails /\ nv.is.value = o.is.value
            /\ SaysQuoted(o.is)
<1> DEFINE p == req_text_token_seek(t, "NVL")
           l == NvList(t).is
           r == c.is
           x == req_text_nv_parse(t, p).is
<1>1. /\ ~ NvList(t).fails /\ \A i \in DOMAIN l : ~ nvp(l[i]).fails
      /\ r.nvl = [i \in DOMAIN l |-> nvp(l[i]).is]
  BY ConvertedParts
<1>2. /\ p \in 1 .. Len(t) + 1 /\ l \in Seq(Parsed(t))
      /\ \/ p = Len(t) + 1 /\ l = <<>>
         \/ p \in 1 .. Len(t) /\ ~ PairsFrom(t)[p].fails /\ l = PairsFrom(t)[p].is
  BY <1>1, NvListIs
<1>3. Len(l) \in Nat /\ DOMAIN l = 1 .. Len(l)
  BY <1>2
<1>4. o \in InfoFrom(t, name)[p]
  <2>1. p # 0
    BY <1>2
  <2> QED BY <2>1 DEF req_text_get_nv_info
<1> HIDE DEF p, l, r
<1>n. MadeOf(r, l)
  BY <1>1, <1>3 DEF MadeOf
<1>5. /\ NotNamed(l, name) => nv = Fails
      /\ \A k : FirstNamed(l, name, k) => nv = nvp(l[k])
  <2>1. nv = req_bin_get_nv(r, name)
    BY DEF r
  <2> QED BY <1>n, <2>1, BinLookup
<1>6. OkInfo(l, name, o)
  <2>1. CASE p = Len(t) + 1 /\ l = <<>>
    <3>1. ~ req_text_nv_parse(t, p).fails => x.name # name /\ At(t, x.next) = End
      BY <2>1, NoPairAtEnd
    <3>2. InfoFrom(t, name)[p] = InfoAt(t, name, InfoFrom(t, name), p)
      BY <1>2, InfoFromIs
    <3>3. InfoArms(t, name, InfoFrom(t, name), p, x, InfoFrom(t, name)[p])
      BY <3>2, InfoAtIs
    <3>4. ~ IsIn(Fails) /\ ~ IsIn(Hangs)
      BY Outcomes DEF Hangs, IsIn
    <3>5. InfoGoes(t, p)
      BY <1>4, <3>3, <3>4 DEF InfoArms
    <3> DEFINE y == [flags |-> LFlag.NOT_FOUND]
    <3>6. y.flags = LFlag.NOT_FOUND
      OBVIOUS
    <3>7. o = Is(y)
      BY <1>4, <3>1, <3>3, <3>5 DEF InfoArms, InfoGoes
    <3> HIDE DEF y
    <3>8. o.is = y
      BY <3>7, Outcomes
    <3>9. NotNamed(l, name)
      BY <2>1 DEF NotNamed
    <3> QED BY <3>6, <3>8, <3>9 DEF OkInfo
  <2>2. CASE ~ PairsFrom(t)[p].fails /\ l = PairsFrom(t)[p].is
    BY <1>2, <1>4, <2>2, InfoInPairs
  <2> QED BY <1>2, <2>1, <2>2
<1>7. \A k : FirstNamed(l, name, k) => ~ nvp(l[k]).fails
  BY <1>1, <1>3 DEF FirstNamed
<1>8. Fails.fails
  BY Outcomes
<1> QED BY <1>5, <1>6, <1>7, <1>8 DEF OkInfo

\* What is said of a pair with a value in the converted request.
LEMMA BinInfoIs ==
  ASSUME NEW r, NEW name, NEW nv, nv = req_bin_get_nv(r, name),
         ~ nv.fails, nv.is.value # <<>>,
         NEW b \in req_bin_get_nv_info(r, name), IsIn(b)
  PROVE  /\ b.is.flags = LFlag.FOUND \cup NFlag.VALID \cup VFlag.VALID
                             \cup FFlag[nvp_value_format(nv.is.value)]
         /\ b.is.value = nv.is.value
<1> DEFINE v == nv.is.value
           none == {Is([flags |-> LFlag.NOT_FOUND])}
           bare == {Is([flags |-> Uninitialized])}
           y == [flags |-> LFlag.FOUND \cup NFlag.VALID \cup VFlag.VALID
                               \cup FFlag[nvp_value_format(v)],
                 value |-> v, encoded_size |-> nvp_value_encoded_size(v)]
           full == {Corrupt, Is(y)}
<1>1. req_bin_get_nv_info(r, name) =
        CASE r.nvl = <<>>               -> none
          [] r.nvl # <<>> /\ nv.fails   -> {Fails}
          [] ~ nv.fails /\ v = <<>>     -> bare
          [] OTHER                      -> full
  BY Zenon DEF req_bin_get_nv_info
<1>2. r.nvl # <<>>
  <2> SUFFICES ASSUME r.nvl = <<>> PROVE FALSE
    OBVIOUS
  <2>1. { i \in DOMAIN r.nvl : r.nvl[i].name = name } = {}
    OBVIOUS
  <2>2. nv = Fails
    BY <2>1, Zenon DEF req_bin_get_nv
  <2> QED BY <2>2, Outcomes
<1>3. y.value = v /\ y.flags = LFlag.FOUND \cup NFlag.VALID \cup VFlag.VALID
                                   \cup FFlag[nvp_value_format(v)]
  OBVIOUS
<1> HIDE DEF none, bare, y, full
<1>4. ~ nv.fails /\ v # <<>>
  OBVIOUS
<1> HIDE DEF v
<1>5. b \in full
  BY <1>1, <1>2, <1>4
<1>6. ~ IsIn(Corrupt)
  BY DEF IsIn, Corrupt
<1>7. b.is = y
  BY <1>5, <1>6, Outcomes DEF full
<1> QED BY <1>3, <1>7 DEF v

LEMMA BlankIsQuoted ==
  ASSUME NEW v \in Seq(QValueChar), v # <<>>, v[1] = "space"
  PROVE  nvp_value_format(v) = "quoted"
<1>1. Range(v) \subseteq QValueChar /\ "space" \in Range(v)
  <2>1. v \in [1 .. Len(v) -> QValueChar] /\ 1 \in 1 .. Len(v)
    OBVIOUS
  <2> QED BY <2>1 DEF Range
<1> QED BY <1>1, Classes DEF nvp_value_format

\* When req_get_nv_info answers for a text, it says of a pair what the converted
\* request says of it, to a client that tests the flags bit by bit.
THEOREM InfoAlwaysTrue == Spec => []InfoIsTrue
<1>1. RInv => InfoIsTrue
  <2> SUFFICES ASSUME RInv, pc = "converted", IsIn(copy), NEW name \in Names,
                      NEW o \in req_text_get_nv_info(wire, name), IsIn(o)
               PROVE  LET nv    == req_bin_get_nv(copy.is, name)
                          found == nvp_flag_test(o.is.flags, LFlag.FOUND)
                      IN /\ found <=> ~ nv.fails
                         /\ found => nv.is.value = o.is.value
                         /\ found /\ o.is.value # <<>> =>
                              \A b \in req_bin_get_nv_info(copy.is, name) :
                                IsIn(b) => b.is.flags = o.is.flags /\ b.is.value = o.is.value
    BY Zenon DEF InfoIsTrue
  <2> DEFINE nv == req_bin_get_nv(copy.is, name)
             found == nvp_flag_test(o.is.flags, LFlag.FOUND)
  <2>1. wire \in Seq(Char) /\ copy \in req_from_text_to_bin(wire)
    BY DEF RInv, TInv
  <2>2. name # <<>>
    BY RequestAssumption
  <2>3. \/ o.is.flags = LFlag.NOT_FOUND /\ nv.fails
        \/ /\ LFlag.FOUND \subseteq o.is.flags /\ ~ nv.fails /\ nv.is.value = o.is.value
           /\ SaysQuoted(o.is)
    BY <2>1, <2>2, TextInfoIs
  <2>4. ~ (LFlag.FOUND \subseteq LFlag.NOT_FOUND)
    BY FlagsAre
  <2>5. found => /\ LFlag.FOUND \subseteq o.is.flags /\ ~ nv.fails
                 /\ nv.is.value = o.is.value /\ SaysQuoted(o.is)
    BY <2>3, <2>4 DEF nvp_flag_test
  <2>6. ~ nv.fails => found
    BY <2>3 DEF nvp_flag_test
  <2>7. ASSUME found, o.is.value # <<>>, NEW b \in req_bin_get_nv_info(copy.is, name), IsIn(b)
        PROVE  b.is.flags = o.is.flags /\ b.is.value = o.is.value
    <3> DEFINE v == nv.is.value
    <3>1. ~ nv.fails /\ v = o.is.value /\ v # <<>>
          /\ o.is.flags = QuotedFlags /\ v \in Seq(QValueChar) /\ v[1] = "space"
      BY <2>5, <2>7 DEF SaysQuoted
    <3>2. b.is.flags = LFlag.FOUND \cup NFlag.VALID \cup VFlag.VALID \cup FFlag[nvp_value_format(v)]
          /\ b.is.value = v
      BY <2>7, <3>1, BinInfoIs
    <3> HIDE DEF v
    <3>3. nvp_value_format(v) = "quoted"
      BY <3>1, BlankIsQuoted
    <3> QED BY <3>1, <3>2, <3>3 DEF QuotedFlags
  <2> QED BY <2>5, <2>6, <2>7
<1> QED BY <1>1, RInvAlways, PTL
-----------------------------------------------------------------------------
(***************************************************************************)
(* Whether the question about a pair is answered.                          *)
(***************************************************************************)

\* A pair that was written, character by character.
LEMMA WrittenChars ==
  ASSUME NEW p \in PairsOfText, NEW t \in Seq(Char), NEW i \in Nat \ {0}, NEW e \in Nat,
         e = i + Len(Core(p)), Occurs(Core(p), t, i), At(t, e) \in {End, "space"},
         NEW q, q = RunEnd(t, i, NameChar)
  PROVE  /\ q \in Nat /\ q > i
         /\ p.value = <<>> => q = e
         /\ p.value # <<>> =>
              /\ At(t, q) = "="
              /\ \A j \in 1 .. Len(ValueText(p.value)) : At(t, q + j) = ValueText(p.value)[j]
<1> DEFINE n == p.name
           v == p.value
           x == ValueText(v)
           c == Core(p)
           m == i + Len(n)
<1>1. n \in Seq(NameChar) /\ n \in Seq(Char) /\ n # <<>> /\ v \in Seq(Char) /\ x \in Seq(Char)
  BY PairText, Classes DEF PairsOfText
<1>2. v # <<>> => c = n \o (<<"=">> \o x)
  BY DEF Core
<1>3. v = <<>> => c = n
  BY <1>1 DEF Core
<1>4. NameChar \subseteq Char /\ End \notin NameChar /\ "space" \notin NameChar /\ "=" \notin NameChar
      /\ "=" \in Char
  BY Classes
<1>5. Len(n) \in Nat /\ Len(n) > 0 /\ m \in Nat /\ m > i /\ Len(x) \in Nat /\ Len(t) \in Nat
  BY <1>1
<1> HIDE DEF n, v, x, c
<1>6. ASSUME Occurs(n, t, i), At(t, m) \notin NameChar PROVE q = m
  BY <1>1, <1>4, <1>6, RunOfWord
<1>7. CASE v = <<>>
  <2>1. Occurs(n, t, i) /\ e = m
    BY <1>3, <1>7 DEF c
  <2>2. q = m
    BY <1>4, <1>6, <2>1
  <2> QED BY <1>5, <1>7, <2>1, <2>2 DEF v
<1>8. CASE v # <<>>
  <2> DEFINE y == <<"=">> \o x
  <2>1. y \in Seq(Char) /\ Len(y) = Len(x) + 1 /\ y[1] = "="
        /\ \A k \in 1 .. Len(x) : y[k + 1] = x[k]
    BY <1>1, <1>4, ConsIs
  <2>2. Occurs(n \o y, t, i)
    BY <1>2, <1>8 DEF c
  <2> HIDE DEF y
  <2>3. Occurs(n, t, i) /\ Occurs(y, t, m)
    BY <1>1, <1>5, <2>1, <2>2, OccursConcat
  <2> HIDE DEF m
  <2>4. ASSUME NEW k \in 1 .. Len(y) PROVE At(t, m + k - 1) = y[k]
    <3>1. t[m + k - 1] = y[k] /\ m + Len(y) <= Len(t) + 1 /\ Len(y) \in Nat
      BY <1>5, <2>1, <2>3 DEF Occurs
    <3>2. m + k - 1 \in 1 .. Len(t)
      BY <1>5, <3>1
    <3> QED BY <3>1, <3>2, AtIs
  <2>5. At(t, m) = "="
    <3>1. 1 \in 1 .. Len(y) /\ m + 1 - 1 = m
      BY <1>5, <2>1
    <3>2. At(t, m + 1 - 1) = y[1]
      BY <2>4, <3>1
    <3> QED BY <2>1, <3>1, <3>2
  <2>6. q = m
    BY <1>4, <1>6, <2>3, <2>5 DEF m
  <2>7. ASSUME NEW j \in 1 .. Len(x) PROVE At(t, m + j) = x[j]
    <3> DEFINE k == j + 1
    <3>1. k \in 1 .. Len(y) /\ m + k - 1 = m + j
      BY <1>5, <2>1
    <3>2. At(t, m + k - 1) = y[k]
      BY <2>4, <3>1
    <3>3. y[k] = x[j]
      BY <2>1
    <3> QED BY <3>1, <3>2, <3>3
  <2> QED BY <1>5, <1>8, <2>5, <2>6, <2>7 DEF v, x
<1> QED BY <1>7, <1>8

\* What a value is written as begins with.
LEMMA ValueBegins ==
  ASSUME NEW v \in Seq(Char), v # <<>>, NEW x, x = ValueText(v)
  PROVE  \/ /\ nvp_value_format(v) = "unquoted" /\ Len(x) >= 1
            /\ x[1] \in ValueChar
         \/ /\ nvp_value_format(v) = "quoted" /\ Len(x) >= 2
            /\ x[1] = "quote" /\ x[2] = v[1] /\ v[1] \in QValueChar
         \/ /\ nvp_value_format(v) = "encoded" /\ Len(x) >= 2
            /\ x[1] = "#" /\ x[2] \in EValueChar
<1> DEFINE d == Digits(v)
           n == Len(v)
<1>1. /\ nvp_value_format(v) = "unquoted" => x = v
      /\ nvp_value_format(v) = "quoted" => x = <<"quote">> \o v \o <<"quote">>
      /\ nvp_value_format(v) = "encoded" => x = <<"#">> \o d
  BY ValueTextIs
<1>2. \/ nvp_value_format(v) = "unquoted" /\ v \in Seq(ValueChar)
      \/ nvp_value_format(v) = "quoted" /\ v \in Seq(QValueChar)
      \/ nvp_value_format(v) = "encoded"
  BY FormatOf
<1>3. n \in Nat /\ n > 0 /\ d \in Seq(EValueChar) /\ Len(d) = 2 * n
  BY EncodedDecodes
<1>4. "quote" \in Char /\ "#" \in Char /\ EValueChar \subseteq Char
  BY Classes
<1> HIDE DEF d
<1>5. CASE nvp_value_format(v) = "unquoted" /\ v \in Seq(ValueChar)
  BY <1>1, <1>3, <1>5 DEF n
<1>6. CASE nvp_value_format(v) = "quoted" /\ v \in Seq(QValueChar)
  <2> DEFINE b == <<"quote">>
             w == b \o v
  <2>1. w \in Seq(Char) /\ Len(w) = n + 1 /\ w[1] = "quote"
        /\ \A k \in 1 .. n : w[k + 1] = v[k]
    BY <1>4, ConsIs
  <2>2. w[2] = v[1]
    <3>1. 1 \in 1 .. n /\ 1 + 1 = 2
      BY <1>3
    <3>2. w[1 + 1] = v[1]
      BY <2>1, <3>1
    <3> QED BY <3>1, <3>2
  <2>3. b \in Seq(Char) /\ Len(b) = 1
    BY <1>4
  <2>4. x = w \o b
    BY <1>1, <1>6
  <2>5. v[1] \in QValueChar
    BY <1>3, <1>6 DEF n
  <2> HIDE DEF w, b, n
  <2>6. Len(w \o b) = Len(w) + Len(b) /\ \A k \in 1 .. Len(w) : (w \o b)[k] = w[k]
    BY <2>1, <2>3, ConcatParts
  <2>7. 1 \in 1 .. Len(w) /\ 2 \in 1 .. Len(w)
    BY <1>3, <2>1
  <2>8. x[1] = "quote" /\ x[2] = v[1] /\ Len(x) >= 2
    BY <1>3, <2>1, <2>2, <2>3, <2>4, <2>6, <2>7
  <2> QED BY <1>6, <2>5, <2>8
<1>7. CASE nvp_value_format(v) = "encoded"
  <2> DEFINE w == <<"#">> \o d
  <2>1. d \in Seq(Char)
    BY <1>3, <1>4
  <2>2. Len(w) = Len(d) + 1 /\ w[1] = "#" /\ \A k \in 1 .. Len(d) : w[k + 1] = d[k]
    BY <1>4, <2>1, ConsIs
  <2>3. x = w
    BY <1>1, <1>7
  <2>4. 1 \in 1 .. Len(d) /\ 1 + 1 = 2 /\ Len(d) \in Nat /\ d[1] \in EValueChar
    BY <1>3
  <2> HIDE DEF w, n
  <2>5. w[1 + 1] = d[1] /\ Len(w) >= 2
    BY <1>3, <2>2, <2>4
  <2> QED BY <1>7, <2>2, <2>3, <2>4, <2>5
<1> QED BY <1>2, <1>5, <1>6, <1>7

\* What a pair that was written is found to be.
LEMMA ValidateWritten ==
  ASSUME NEW p \in PairsOfText, NEW t \in Seq(Char), NEW i \in Nat \ {0}, NEW e \in Nat,
         e = i + Len(Core(p)), Occurs(Core(p), t, i), At(t, e) \in {End, "space"}
  PROVE  /\ Stalls(p.value) => req_text_nv_validate(t, i) = Hangs
         /\ ~ Stalls(p.value) => req_text_nv_validate(t, i) # Hangs
         /\ ~ Stalls(p.value) /\ At(t, e) = "space" => InfoGoes(t, i)
<1> DEFINE v == p.value
           x == ValueText(v)
           q == RunEnd(t, i, NameChar)
           first == At(t, q + 1)
           c == FirstOfValue(t, q)
           valid == req_text_nv_validate(t, i)
<1>q. q = RunEnd(t, i, NameChar)
  OBVIOUS
<1> HIDE DEF q
<1>1. /\ q \in Nat /\ q > i /\ i \in Nat
      /\ v = <<>> => q = e
      /\ v # <<>> => At(t, q) = "=" /\ \A j \in 1 .. Len(x) : At(t, q + j) = x[j]
  BY <1>q, WrittenChars
<1>2. /\ At(t, q) = End => valid = Is(NFlag.VALID)
      /\ At(t, q) = "space" => valid = Is(NFlag.VALID \cup VFlag.VALID \cup VFlag.NOT_SET)
      /\ At(t, q) = "=" =>
           /\ ValueStops(first, c) => valid = Is(NFlag.VALID \cup VFlag.VALID)
           /\ ~ ValueStops(first, c) /\ ValueLoops(first, c) => valid = Hangs
  <2>1. Validated(t, i, q, first, c, valid)
    BY <1>q, <1>1, ValidateIs
  <2> HIDE DEF valid, first, c, x
  <2> QED BY <1>1, <2>1 DEF Validated
<1>3. ASSUME NEW f, valid = Is(f) PROVE valid # Hangs /\ valid.is = f /\ IsIn(valid)
  <2>1. ~ IsIn(Hangs)
    BY DEF IsIn, Hangs
  <2> HIDE DEF valid
  <2> QED BY <1>3, <2>1, Outcomes
<1>4. ~ req_text_nv_parse(t, i).fails
  BY ParseWritten, Outcomes
<1>5. ASSUME NEW f, valid = Is(f), NFlag.VALID \subseteq f, VFlag.VALID \subseteq f
      PROVE  InfoGoes(t, i) /\ valid # Hangs
  <2>1. valid # Hangs /\ valid.is = f /\ IsIn(valid)
    BY <1>3, <1>5
  <2> QED BY <1>4, <1>5, <2>1 DEF InfoGoes, nvp_flag_test
<1>6. v \in Seq(Char)
  BY DEF PairsOfText
<1>7. /\ End \notin ValueChar /\ End \notin QValueChar /\ End \notin EValueChar
      /\ "space" \notin ValueChar /\ "space" \notin EValueChar /\ "quote" \notin QValueChar
      /\ "#" \notin ValueChar /\ "quote" \notin ValueChar /\ "quote" # "#"
  BY Classes
<1>f. c = At(t, IF first \in {"#", "quote"} THEN q + 2 ELSE q + 1)
  BY DEF FirstOfValue
<1> HIDE DEF valid, first, c, x
<1>8. CASE v = <<>>
  <2>1. ~ Stalls(v) /\ q = e
    BY <1>1, <1>8 DEF Stalls
  <2>2. At(t, e) = End => valid # Hangs
    BY <1>2, <1>3, <2>1
  <2>3. At(t, e) = "space" => InfoGoes(t, i) /\ valid # Hangs
    BY <1>2, <1>5, <2>1
  <2>4. End # "space"
    BY DEF End
  <2> QED BY <2>1, <2>2, <2>3, <2>4 DEF valid
<1>9. CASE v # <<>>
  <2>1. \/ /\ nvp_value_format(v) = "unquoted" /\ Len(x) >= 1 /\ x[1] \in ValueChar
        \/ /\ nvp_value_format(v) = "quoted" /\ Len(x) >= 2
           /\ x[1] = "quote" /\ x[2] = v[1] /\ v[1] \in QValueChar
        \/ /\ nvp_value_format(v) = "encoded" /\ Len(x) >= 2
           /\ x[1] = "#" /\ x[2] \in EValueChar
    BY <1>6, <1>9, ValueBegins DEF x
  <2>2. x \in Seq(Char) /\ Len(x) \in Nat
    BY PairText DEF x, PairsOfText
  <2>3. At(t, q) = "="
    BY <1>1, <1>9
  <2>4. Len(x) >= 1 => first = x[1]
    BY <1>1, <1>9, <2>2 DEF first
  <2>5. Len(x) >= 2 => At(t, q + 2) = x[2]
    BY <1>1, <1>9, <2>2
  <2> HIDE DEF v
  <2>6. CASE nvp_value_format(v) = "unquoted" /\ Len(x) >= 1 /\ x[1] \in ValueChar
    <3>1. first \in ValueChar /\ first \notin {"#", "quote"} /\ c = first
      BY <1>7, <1>f, <2>4, <2>6 DEF first
    <3>2. ~ ValueStops(first, c) /\ ValueLoops(first, c) /\ Stalls(v)
      BY <1>7, <1>9, <2>6, <3>1 DEF ValueStops, ValueLoops, Stalls
    <3>3. valid = Hangs
      BY <1>2, <2>3, <3>2
    <3> QED BY <3>2, <3>3 DEF valid, v
  <2>7. CASE /\ nvp_value_format(v) = "quoted" /\ Len(x) >= 2
             /\ x[1] = "quote" /\ x[2] = v[1] /\ v[1] \in QValueChar
    <3>1. first = "quote" /\ c = v[1]
      BY <1>f, <2>4, <2>5, <2>7
    <3>2. CASE v[1] = "space"
      <4>1. ~ Stalls(v) /\ ValueStops(first, c)
        BY <2>7, <3>1, <3>2 DEF Stalls, ValueStops
      <4>2. InfoGoes(t, i) /\ valid # Hangs
        BY <1>2, <1>5, <2>3, <4>1
      <4> QED BY <4>1, <4>2 DEF valid, v
    <3>3. CASE v[1] # "space"
      <4>1. Stalls(v) /\ ~ ValueStops(first, c) /\ ValueLoops(first, c)
        BY <1>7, <1>9, <2>7, <3>1, <3>3 DEF Stalls, ValueStops, ValueLoops
      <4>2. valid = Hangs
        BY <1>2, <2>3, <4>1
      <4> QED BY <4>1, <4>2 DEF valid, v
    <3> QED BY <3>2, <3>3
  <2>8. CASE /\ nvp_value_format(v) = "encoded" /\ Len(x) >= 2
             /\ x[1] = "#" /\ x[2] \in EValueChar
    <3>1. first = "#" /\ c = x[2]
      BY <1>f, <2>4, <2>5, <2>8
    <3>2. ~ ValueStops(first, c) /\ ValueLoops(first, c) /\ Stalls(v)
      BY <1>7, <1>9, <2>8, <3>1 DEF ValueStops, ValueLoops, Stalls
    <3>3. valid = Hangs
      BY <1>2, <2>3, <3>2
    <3> QED BY <3>2, <3>3 DEF valid, v
  <2> QED BY <2>1, <2>6, <2>7, <2>8
<1> QED BY <1>8, <1>9

\* The search hangs where the check of a pair does, and else goes on only behind a
\* pair of another name.
LEMMA InfoHangs ==
  ASSUME NEW t, NEW name, NEW from, NEW i, NEW x, x = req_text_nv_parse(t, i).is
  PROVE  /\ req_text_nv_validate(t, i) = Hangs => InfoAt(t, name, from, i) = {Hangs}
         /\ /\ req_text_nv_validate(t, i) # Hangs
            /\ ~ (InfoGoes(t, i) /\ x.name # name /\ At(t, x.next) = "space")
            => Hangs \notin InfoAt(t, name, from, i)
<1> DEFINE valid == req_text_nv_validate(t, i)
           g == InfoGoes(t, i)
           a2 == FoundInText(x)
           a3 == from[x.next + 1]
           a4 == {Is([flags |-> LFlag.NOT_FOUND])}
           c1 == valid = Hangs
           c2 == g /\ x.name = name
           c3 == g /\ x.name # name /\ At(t, x.next) = "space"
           c4 == g /\ x.name # name /\ At(t, x.next) = End
<1>1. InfoAt(t, name, from, i) =
        CASE c1 -> {Hangs} [] c2 -> a2 [] c3 -> a3 [] c4 -> a4 [] OTHER -> {Fails}
  BY Zenon DEF InfoAt, InfoGoes
<1>2. ~ IsIn(Hangs) /\ ~ IsIn(Fails) /\ Fails # Hangs
  <2>1. ~ IsIn(Hangs) /\ Hangs.fails = FALSE
    BY DEF IsIn, Hangs
  <2> QED BY <2>1, Outcomes
<1>3. Hangs \notin a2
  <2> SUFFICES ASSUME Hangs \in a2 PROVE FALSE
    OBVIOUS
  <2>1. \E y : Hangs \in {Fails, Is(y)}
    BY DEF FoundInText
  <2> QED BY <1>2, <2>1, Outcomes
<1>4. Hangs \notin a4
  BY <1>2, Outcomes
<1>5. c1 => ~ g
  <2> HIDE DEF valid
  <2>1. g => IsIn(valid)
    BY DEF InfoGoes, valid
  <2> QED BY <1>2, <2>1
<1>6. c1 => ~ c2 /\ ~ c3 /\ ~ c4
  BY <1>5
<1>7. InfoAt(t, name, from, i) \in {{Hangs}, a2, a3, a4, {Fails}}
      /\ (c1 => InfoAt(t, name, from, i) = {Hangs})
      /\ (~ c1 /\ ~ c3 => InfoAt(t, name, from, i) \in {a2, a4, {Fails}})
  <2> HIDE DEF c1, c2, c3, c4, a2, a3, a4
  <2> QED BY <1>1, <1>6
<1> HIDE DEF a2, a3, a4
<1> QED BY <1>2, <1>3, <1>4, <1>7

\* One of the pairs from a place of the list on stalls, before one of that name ends
\* the search.
StallsFrom(nvl, name, k) ==
  \E i \in k .. Len(nvl) : /\ Stalls(nvl[i].value)
                           /\ \A j \in k .. i - 1 : nvl[j].name # name

LEMMA StallsNext ==
  ASSUME NEW nvl, Len(nvl) \in Nat, NEW name, NEW k \in 1 .. Len(nvl)
  PROVE  /\ Stalls(nvl[k].value) => StallsFrom(nvl, name, k)
         /\ ~ Stalls(nvl[k].value) /\ nvl[k].name = name => ~ StallsFrom(nvl, name, k)
         /\ ~ Stalls(nvl[k].value) /\ nvl[k].name # name =>
              (StallsFrom(nvl, name, k) <=> StallsFrom(nvl, name, k + 1))
<1> DEFINE n == Len(nvl)
           P(i) == Stalls(nvl[i].value)
           N(j) == nvl[j].name # name
<1>1. /\ StallsFrom(nvl, name, k) <=> \E i \in k .. n : P(i) /\ \A j \in k .. i - 1 : N(j)
      /\ StallsFrom(nvl, name, k + 1) <=>
           \E i \in k + 1 .. n : P(i) /\ \A j \in k + 1 .. i - 1 : N(j)
  BY Zenon DEF StallsFrom
<1>2. n \in Nat /\ k \in 1 .. n
  OBVIOUS
<1> HIDE DEF n, P, N
<1>3. P(k) => StallsFrom(nvl, name, k)
  <2>1. k \in k .. n /\ \A j \in k .. k - 1 : N(j)
    BY <1>2
  <2> QED BY <1>1, <2>1
<1>4. ASSUME ~ P(k), NEW i \in k .. n, P(i), \A j \in k .. i - 1 : N(j)
      PROVE  N(k) /\ i \in k + 1 .. n /\ \A j \in k + 1 .. i - 1 : N(j)
  <2>1. i # k
    BY <1>4
  <2>2. i \in k + 1 .. n /\ k \in k .. i - 1
    BY <1>2, <2>1
  <2>3. \A j \in k + 1 .. i - 1 : j \in k .. i - 1
    BY <1>2, <2>2
  <2> QED BY <1>4, <2>2, <2>3
<1>5. ASSUME N(k), NEW i \in k + 1 .. n, P(i), \A j \in k + 1 .. i - 1 : N(j)
      PROVE  i \in k .. n /\ \A j \in k .. i - 1 : N(j)
  <2>1. i \in k .. n
    BY <1>2
  <2>2. ASSUME NEW j \in k .. i - 1 PROVE N(j)
    <3>1. j = k \/ j \in k + 1 .. i - 1
      BY <1>2, <2>1
    <3> QED BY <1>5, <3>1
  <2> QED BY <2>1, <2>2
<1>6. ~ P(k) /\ ~ N(k) => ~ StallsFrom(nvl, name, k)
  BY <1>1, <1>4
<1>7. ~ P(k) /\ N(k) => (StallsFrom(nvl, name, k) <=> StallsFrom(nvl, name, k + 1))
  BY <1>1, <1>4, <1>5
<1> QED BY <1>3, <1>6, <1>7 DEF P, N

\* The search in the pairs of a text, from the last to the first.
LEMMA PairsStall ==
  ASSUME NEW t \in Seq(Char), NEW nvl \in Seq(PairsOfText), NEW pos,
         PairsIn(nvl, t, pos), NEW name
  PROVE  \A k \in 1 .. Len(nvl) :
           Hangs \in InfoFrom(t, name)[pos[k]] <=> StallsFrom(nvl, name, k)
<1> DEFINE n == Len(nvl)
           from == InfoFrom(t, name)
           S == { k \in 1..n : Hangs \in from[pos[k]] <=> StallsFrom(nvl, name, k) }
<1>1. n \in Nat /\ Len(t) \in Nat /\ n = Len(nvl)
  OBVIOUS
<1>2. /\ pos \in [1 .. n + 1 -> Nat \ {0}]
      /\ \A i \in 1..n :
           /\ pos[i + 1] = pos[i] + Len(Core(nvl[i])) + 1
           /\ Occurs(Core(nvl[i]), t, pos[i])
           /\ At(t, pos[i + 1] - 1) = IF i < n THEN "space" ELSE End
  BY DEF PairsIn
<1>3. \A i \in 1..n : nvl[i] \in PairsOfText
  OBVIOUS
<1>e. End # "space"
  BY DEF End
<1> HIDE DEF n, from
<1>4. ASSUME NEW k \in 1..n, \A j \in k + 1 .. n : j \in S PROVE k \in S
  <2> DEFINE p == nvl[k]
             i == pos[k]
             e == pos[k + 1] - 1
             x == req_text_nv_parse(t, i).is
  <2>1. p \in PairsOfText /\ i \in Nat \ {0} /\ pos[k + 1] \in Nat \ {0}
    <3>1. k \in 1 .. n + 1 /\ k + 1 \in 1 .. n + 1
      BY <1>1
    <3> QED BY <1>2, <1>3, <3>1
  <2>2. pos[k + 1] = i + Len(Core(p)) + 1 /\ Occurs(Core(p), t, i)
    BY <1>2
  <2>3. Len(Core(p)) \in Nat
    BY <2>1, CoreIs
  <2>4. At(t, e) \in {End, "space"} /\ (k < n => At(t, e) = "space") /\ (~ (k < n) => At(t, e) = End)
    BY <1>2
  <2>5. e \in Nat /\ e = i + Len(Core(p)) /\ e + 1 = pos[k + 1]
    BY <2>1, <2>2, <2>3
  <2>6. i \in 1 .. Len(t) + 1
    BY <1>1, <2>1, <2>2, <2>3 DEF Occurs
  <2>x. x = req_text_nv_parse(t, i).is
    OBVIOUS
  <2> HIDE DEF i, e, x, S
  <2>7. req_text_nv_parse(t, i) = Is(ReadAs(p, e))
    BY <2>1, <2>2, <2>4, <2>5, ParseWritten
  <2>8. x.name = p.name /\ x.next = e
    <3>1. ReadAs(p, e).name = p.name /\ ReadAs(p, e).next = e
      BY DEF ReadAs
    <3> QED BY <2>7, <2>x, <3>1, Outcomes
  <2>9. /\ Stalls(p.value) => req_text_nv_validate(t, i) = Hangs
        /\ ~ Stalls(p.value) => req_text_nv_validate(t, i) # Hangs
        /\ ~ Stalls(p.value) /\ At(t, e) = "space" => InfoGoes(t, i)
    BY <2>1, <2>2, <2>4, <2>5, ValidateWritten
  <2>10. from[i] = InfoAt(t, name, from, i)
    BY <2>6, InfoFromIs DEF from
  <2>11. /\ Stalls(p.value) => StallsFrom(nvl, name, k)
         /\ ~ Stalls(p.value) /\ p.name = name => ~ StallsFrom(nvl, name, k)
         /\ ~ Stalls(p.value) /\ p.name # name =>
              (StallsFrom(nvl, name, k) <=> StallsFrom(nvl, name, k + 1))
    BY <1>1, StallsNext
  <2>12. /\ req_text_nv_validate(t, i) = Hangs => from[i] = {Hangs}
         /\ /\ req_text_nv_validate(t, i) # Hangs
            /\ ~ (InfoGoes(t, i) /\ x.name # name /\ At(t, x.next) = "space")
            => Hangs \notin from[i]
    BY <2>10, <2>x, InfoHangs
  <2> HIDE DEF p
  <2>13. CASE Stalls(p.value)
    <3>1. Hangs \in from[i]
      BY <2>9, <2>12, <2>13
    <3> QED BY <2>11, <2>13, <3>1 DEF S, i
  <2>14. CASE ~ Stalls(p.value) /\ p.name = name
    <3>1. Hangs \notin from[i]
      BY <2>8, <2>9, <2>12, <2>14
    <3> QED BY <2>11, <2>14, <3>1 DEF S, i
  <2>15. CASE ~ Stalls(p.value) /\ p.name # name /\ ~ (k < n)
    <3>1. Hangs \notin from[i]
      BY <1>e, <2>4, <2>8, <2>9, <2>12, <2>15
    <3>2. ~ StallsFrom(nvl, name, k + 1)
      <4>1. k + 1 .. Len(nvl) = {}
        BY <1>1, <2>15
      <4> QED BY <4>1 DEF StallsFrom
    <3> QED BY <2>11, <2>15, <3>1, <3>2 DEF S, i
  <2>16. CASE ~ Stalls(p.value) /\ p.name # name /\ k < n
    <3>1. InfoGoes(t, i) /\ At(t, x.next) = "space" /\ x.name # name
      BY <2>4, <2>8, <2>9, <2>16
    <3>2. InfoArms(t, name, from, i, x, InfoAt(t, name, from, i))
      BY <2>x, InfoAtIs
    <3>3. from[i] = from[pos[k + 1]]
      BY <2>5, <2>8, <2>10, <3>1, <3>2 DEF InfoArms
    <3>4. k + 1 \in S
      BY <1>1, <1>4, <2>16
    <3>5. Hangs \in from[pos[k + 1]] <=> StallsFrom(nvl, name, k + 1)
      BY <3>4 DEF S
    <3> QED BY <2>11, <2>16, <3>3, <3>5 DEF S, i
  <2> QED BY <2>13, <2>14, <2>15, <2>16
<1> HIDE DEF S
<1>5. \A k \in 1..n : k \in S
  BY <1>1, <1>4, InductionDown
<1> QED BY <1>5 DEF S, n, from

\* The search in the text of a request.
LEMMA TextStalls ==
  ASSUME NEW r, Formed(r), r.type = "REQUEST", NEW t, t = req_from_bin_to_text(r), NEW name
  PROVE  Hangs \in req_text_get_nv_info(t, name) <=> StallsFrom(r.nvl, name, 1)
<1> DEFINE p == req_text_token_seek(t, "NVL")
<1>1. /\ t \in Seq(Char) /\ p \in 1 .. Len(t) + 1
      /\ r.nvl = <<>> => p = Len(t) + 1
      /\ r.nvl # <<>> => \E pos : PairsIn(r.nvl, t, pos) /\ pos[1] = p /\ p <= Len(t)
  BY ListAt
<1>2. r.nvl \in Seq(PairsOfText) /\ Len(r.nvl) \in Nat /\ Len(t) \in Nat
  BY <1>1 DEF Formed
<1>3. req_text_get_nv_info(t, name) = InfoFrom(t, name)[p]
  <2>1. p # 0
    BY <1>1
  <2> QED BY <2>1 DEF req_text_get_nv_info
<1> HIDE DEF p
<1>4. CASE r.nvl = <<>>
  <2> DEFINE q == RunEnd(t, p, NameChar)
             valid == req_text_nv_validate(t, p)
  <2>1. p = Len(t) + 1 /\ End \notin NameChar /\ p \in Nat
    BY <1>1, <1>2, <1>4, Classes
  <2>2. q \in p .. Len(t) + 1
    BY <1>1, <2>1, RunEndIs
  <2>3. q = p /\ q \in Nat
    BY <1>2, <2>1, <2>2
  <2>4. valid \in {Fails, Is(NFlag.NOT_SET), Is(Uninitialized)}
    <3>1. Validated(t, p, q, At(t, q + 1), FirstOfValue(t, q), valid)
      BY <2>1, <2>3, ValidateIs
    <3> HIDE DEF valid
    <3> QED BY <2>3, <3>1 DEF Validated
  <2>5. ~ IsIn(Hangs) /\ Hangs.fails = FALSE
    BY DEF IsIn, Hangs
  <2> HIDE DEF valid
  <2>6. valid # Hangs
    BY <2>4, <2>5, Outcomes
  <2>7. ~ InfoGoes(t, p)
    <3>1. NFlag.NOT_SET = {28, 2} /\ Uninitialized = {31} /\ NFlag.VALID = {28, 0}
      BY FlagsAre DEF Uninitialized
    <3>2. ~ (IsIn(valid) /\ NFlag.VALID \subseteq valid.is)
      BY <2>4, <3>1, Outcomes
    <3> QED BY <3>2 DEF InfoGoes, nvp_flag_test, valid
  <2>8. Hangs \notin InfoAt(t, name, InfoFrom(t, name), p)
    BY <2>6, <2>7, InfoHangs DEF valid
  <2>9. InfoFrom(t, name)[p] = InfoAt(t, name, InfoFrom(t, name), p)
    BY <1>1, InfoFromIs
  <2>10. ~ StallsFrom(r.nvl, name, 1)
    <3>1. 1 .. Len(r.nvl) = {}
      BY <1>4
    <3> QED BY <3>1 DEF StallsFrom
  <2> QED BY <1>3, <2>8, <2>9, <2>10
<1>5. CASE r.nvl # <<>>
  <2>1. PICK pos : PairsIn(r.nvl, t, pos) /\ pos[1] = p /\ p <= Len(t)
    BY <1>1, <1>5
  <2>2. 1 \in 1 .. Len(r.nvl)
    BY <1>2, <1>5
  <2>3. \A k \in 1 .. Len(r.nvl) :
           Hangs \in InfoFrom(t, name)[pos[k]] <=> StallsFrom(r.nvl, name, k)
    BY <1>1, <1>2, <2>1, PairsStall
  <2> QED BY <1>3, <2>1, <2>2, <2>3
<1> QED BY <1>4, <1>5

\* For which of the texts that requests are written as req_get_nv_info returns.
THEOREM InfoAlwaysReturns == Spec => []InfoReturns
<1>1. RInv => InfoReturns
  <2> SUFFICES ASSUME RInv, pc = "sent", changes = 0, req.type = "REQUEST", NEW name \in Names
               PROVE  Hangs \in req_text_get_nv_info(wire, name) <=>
                        \E i \in DOMAIN req.nvl :
                          /\ Stalls(req.nvl[i].value)
                          /\ \A j \in 1 .. i - 1 : req.nvl[j].name # name
    BY Zenon DEF InfoReturns
  <2>1. Formed(req) /\ wire = req_from_bin_to_text(req)
    BY DEF RInv, TInv
  <2>2. Hangs \in req_text_get_nv_info(wire, name) <=> StallsFrom(req.nvl, name, 1)
    BY <2>1, TextStalls
  <2>3. DOMAIN req.nvl = 1 .. Len(req.nvl)
    BY <2>1 DEF Formed
  <2> QED BY <2>2, <2>3, Zenon DEF StallsFrom
<1> QED BY <1>1, RInvAlways, PTL
-----------------------------------------------------------------------------
(***************************************************************************)
(* The header of a text, as the conversion and the validation find it.     *)
(***************************************************************************)
Before(t, p, toks) == \A i \in 1 .. p - 1 : Tokens(t)[i] \in toks

LEMMA SeekFails ==
  ASSUME NEW t \in Seq(Char), NEW tok, \A i \in 1 .. Len(t) : Tokens(t)[i] # tok
  PROVE  req_text_token_seek(t, tok) = IF Tokens(t)[Len(t) + 1] = "CODE" THEN Len(t) + 1 ELSE 0
<1> DEFINE at == { i \in 1 .. Len(t) : Tokens(t)[i] = tok }
<1>1. at = {}
  OBVIOUS
<1>2. req_text_token_seek(t, tok) =
        IF at # {} THEN Min(at)
        ELSE IF Tokens(t)[Len(t) + 1] = "CODE" THEN Len(t) + 1 ELSE 0
  BY DEF req_text_token_seek
<1> QED BY <1>1, <1>2

\* A token that begins at p goes on to the end q of the run of its characters.
StageBegins(t, p, tok, toks, class, q) ==
  /\ p \in 1 .. Len(t) + 1 /\ Tokens(t)[p] = tok /\ Before(t, p, toks) /\ tok \notin toks
  /\ class \subseteq Char /\ \A c \in class : AfterChar(tok, c) = tok
  /\ q = RunEnd(t, p, class)

StageEnds(t, p, tok, toks, class, q) ==
  /\ q \in p .. Len(t) + 1 /\ q \in 1 .. Len(t) + 1 /\ Before(t, q + 1, toks \cup {tok})
  /\ At(t, q) \notin class /\ \A j \in p .. q - 1 : j \in 1 .. Len(t) /\ t[j] \in class
  /\ At(t, q) = "space" => /\ q \in 1 .. Len(t) /\ q + 1 \in 1 .. Len(t) + 1
                           /\ Tokens(t)[q + 1] = AfterChar(tok, "space")
  /\ At(t, q) = End => q = Len(t) + 1
  /\ p <= Len(t) \/ tok = "CODE" => req_text_token_seek(t, tok) = p
  /\ p = Len(t) + 1 /\ tok # "CODE" => req_text_token_seek(t, tok) = 0

LEMMA Stage ==
  ASSUME NEW t \in Seq(Char), NEW p, NEW tok, NEW toks, NEW class, NEW q,
         StageBegins(t, p, tok, toks, class, q)
  PROVE  StageEnds(t, p, tok, toks, class, q)
<1> USE DEF StageBegins
<1>1. End \notin class /\ End \notin Char
  BY Classes
<1>2. /\ q \in p .. Len(t) + 1 /\ At(t, q) \notin class
      /\ \A j \in p .. q - 1 : j \in 1 .. Len(t) /\ t[j] \in class
  BY <1>1, RunEndIs
<1>3. Len(t) \in Nat /\ p \in Nat \ {0} /\ q \in Nat /\ p <= q /\ q <= Len(t) + 1
  BY <1>2
<1>4. \A i \in p .. q - 1 : AfterChar(tok, t[i]) = tok
  BY <1>2
<1>5. \A i \in p .. q : Tokens(t)[i] = tok
  BY <1>3, <1>4, TokenRun
<1>6. Before(t, q + 1, toks \cup {tok})
  <2> SUFFICES ASSUME NEW i \in 1 .. (q + 1) - 1 PROVE Tokens(t)[i] \in toks \cup {tok}
    BY DEF Before
  <2>1. CASE i < p
    <3>1. i \in 1 .. p - 1
      BY <1>3, <2>1
    <3> QED BY <3>1 DEF Before
  <2>2. CASE ~ (i < p)
    <3>1. i \in p .. q
      BY <1>3, <2>2
    <3> QED BY <1>5, <3>1
  <2> QED BY <2>1, <2>2
<1>7. ASSUME At(t, q) # End PROVE q \in 1 .. Len(t) /\ At(t, q) = t[q]
  BY <1>3, <1>7, AtIs
<1>8. ASSUME At(t, q) = "space"
      PROVE  /\ q \in 1 .. Len(t) /\ q + 1 \in 1 .. Len(t) + 1
             /\ Tokens(t)[q + 1] = AfterChar(tok, "space")
  <2>1. q \in 1 .. Len(t) /\ t[q] = "space"
    BY <1>7, <1>8 DEF End
  <2>2. Tokens(t)[q + 1] = AfterChar(Tokens(t)[q], t[q])
    BY <2>1, TokensAre
  <2>3. Tokens(t)[q] = tok
    BY <1>3, <1>5
  <2> QED BY <1>3, <2>1, <2>2, <2>3
<1>9. ASSUME At(t, q) = End PROVE q = Len(t) + 1
  <2>1. q \in 1 .. Len(t) => At(t, q) \in Char
    BY <1>3, AtIs
  <2> QED BY <1>1, <1>3, <1>9, <2>1
<1>10. \A i \in 1 .. p - 1 : Tokens(t)[i] # tok
  BY DEF Before
<1>11. ASSUME p <= Len(t) \/ tok = "CODE" PROVE req_text_token_seek(t, tok) = p
  <2>1. p = Len(t) + 1 => tok = "CODE"
    BY <1>3, <1>11
  <2> QED BY <1>10, <2>1, SeekFinds
<1>12. ASSUME p = Len(t) + 1, tok # "CODE" PROVE req_text_token_seek(t, tok) = 0
  <2>1. \A i \in 1 .. Len(t) : Tokens(t)[i] # tok
    BY <1>3, <1>10, <1>12
  <2>2. Tokens(t)[Len(t) + 1] # "CODE"
    BY <1>12
  <2> QED BY <2>1, <2>2, SeekFails
<1>13. q \in 1 .. Len(t) + 1
  BY <1>3
<1> QED BY <1>2, <1>6, <1>8, <1>9, <1>11, <1>12, <1>13 DEF StageEnds

\* Where the words of a header end.
IdEnd(t)     == RunEnd(t, 1, RidChar)
SrcEnd(t)    == RunEnd(t, IdEnd(t) + 1, ModChar)
DstEnd(t)    == RunEnd(t, SrcEnd(t) + 1, ModChar)
CodeEndOf(t) == RunEnd(t, DstEnd(t) + 1, CodeChar)

\* One word after the other, each behind a space, the code not further than the end.
HeaderSpaced(t) ==
  /\ At(t, IdEnd(t)) = "space" /\ At(t, SrcEnd(t)) = "space" /\ At(t, DstEnd(t)) = "space"
  /\ IdEnd(t) + 1 \in 1 .. Len(t) /\ SrcEnd(t) + 1 \in 1 .. Len(t)
  /\ At(t, CodeEndOf(t)) \in {"space", End}

\* A word that is found is between the places where its token begins and ends.
LEMMA WordPlaces ==
  ASSUME NEW t, NEW tok, NEW class, NEW ends, NEW size, NEW p, p # 0,
         req_text_token_seek(t, tok) = p, NEW q, q = RunEnd(t, p, class)
  PROVE  Word(t, tok, class, ends, size) =
           IF At(t, q) \in ends /\ q - p <= size THEN Is(SubSeq(t, p, q - 1)) ELSE Fails
<1> DEFINE x == req_text_token_seek(t, tok)
           y == RunEnd(t, x, class)
<1>1. Word(t, tok, class, ends, size) =
        IF x # 0 /\ At(t, y) \in ends /\ y - x <= size THEN Is(SubSeq(t, x, y - 1)) ELSE Fails
  BY DEF Word
<1>2. x = p /\ y = q
  OBVIOUS
<1> HIDE DEF x, y
<1> QED BY <1>1, <1>2

LEMMA WordMissing ==
  ASSUME NEW t, NEW tok, NEW class, NEW ends, NEW size, req_text_token_seek(t, tok) = 0
  PROVE  Word(t, tok, class, ends, size) = Fails
BY DEF Word

\* The places at which the tokens of a header are found.
LEMMA SourcePlaces ==
  ASSUME NEW t \in Seq(Char), At(t, IdEnd(t)) = "space"
  PROVE  /\ IdEnd(t) \in 1 .. Len(t) /\ IdEnd(t) + 1 \in 1 .. Len(t) + 1
         /\ \A j \in 1 .. IdEnd(t) - 1 : t[j] \in RidChar
         /\ Tokens(t)[IdEnd(t) + 1] = "MODSRC" /\ Before(t, IdEnd(t) + 1, {"ID"})
<1> DEFINE q == IdEnd(t)
           tok == "ID"
           toks == {}
           p == 1
<1>1. Tokens(t)[p] = tok /\ p \in 1 .. Len(t) + 1
  BY TokensAre
<1>2. Before(t, p, toks) /\ tok \notin toks /\ RidChar \subseteq Char
  BY Classes DEF Before
<1>3. (\A c \in RidChar : AfterChar(tok, c) = tok) /\ AfterChar(tok, "space") = "MODSRC"
  BY AfterCharIs
<1>4. q = RunEnd(t, p, RidChar) /\ At(t, q) = "space"
  BY DEF IdEnd
<1>5. toks \cup {tok} = {"ID"} /\ p = 1
  OBVIOUS
<1> HIDE DEF q, tok, toks, p
<1>s. StageEnds(t, p, tok, toks, RidChar, q)
  <2>1. StageBegins(t, p, tok, toks, RidChar, q)
    BY <1>1, <1>2, <1>3, <1>4 DEF StageBegins
  <2> QED BY <2>1, Stage
<1>6. /\ Before(t, q + 1, toks \cup {tok})
      /\ \A j \in p .. q - 1 : j \in 1 .. Len(t) /\ t[j] \in RidChar
      /\ q \in 1 .. Len(t) /\ q + 1 \in 1 .. Len(t) + 1
      /\ Tokens(t)[q + 1] = AfterChar(tok, "space")
  BY <1>s, <1>4 DEF StageEnds
<1> QED BY <1>3, <1>5, <1>6 DEF q

LEMMA DestinationPlaces ==
  ASSUME NEW t \in Seq(Char), At(t, IdEnd(t)) = "space"
  PROVE  /\ IdEnd(t) + 1 <= Len(t) => req_text_token_seek(t, "MODSRC") = IdEnd(t) + 1
         /\ IdEnd(t) + 1 = Len(t) + 1 => req_text_token_seek(t, "MODSRC") = 0
         /\ SrcEnd(t) \in IdEnd(t) + 1 .. Len(t) + 1
         /\ \A j \in IdEnd(t) + 1 .. SrcEnd(t) - 1 : t[j] \in ModChar
         /\ At(t, SrcEnd(t)) = "space" =>
              /\ SrcEnd(t) \in 1 .. Len(t) /\ SrcEnd(t) + 1 \in 1 .. Len(t) + 1
              /\ Tokens(t)[SrcEnd(t) + 1] = "MODDST"
              /\ Before(t, SrcEnd(t) + 1, {"ID", "MODSRC"})
<1> DEFINE q == SrcEnd(t)
           tok == "MODSRC"
           toks == {"ID"}
           p == IdEnd(t) + 1
<1>1. Tokens(t)[p] = tok /\ p \in 1 .. Len(t) + 1 /\ Before(t, p, toks)
  BY SourcePlaces
<1>2. tok \notin toks /\ ModChar \subseteq Char /\ tok # "CODE"
  BY Classes
<1>3. (\A c \in ModChar : AfterChar(tok, c) = tok) /\ AfterChar(tok, "space") = "MODDST"
  BY AfterCharIs
<1>4. q = RunEnd(t, p, ModChar)
  BY DEF SrcEnd
<1>5. toks \cup {tok} = {"ID", "MODSRC"}
  OBVIOUS
<1> HIDE DEF q, tok, toks, p
<1>s. StageEnds(t, p, tok, toks, ModChar, q)
  <2>1. StageBegins(t, p, tok, toks, ModChar, q)
    BY <1>1, <1>2, <1>3, <1>4 DEF StageBegins
  <2> QED BY <2>1, Stage
<1>6. /\ q \in p .. Len(t) + 1 /\ Before(t, q + 1, toks \cup {tok})
      /\ \A j \in p .. q - 1 : j \in 1 .. Len(t) /\ t[j] \in ModChar
      /\ At(t, q) = "space" => /\ q \in 1 .. Len(t) /\ q + 1 \in 1 .. Len(t) + 1
                               /\ Tokens(t)[q + 1] = AfterChar(tok, "space")
  BY <1>s, <1>1, <1>2, <1>3 DEF StageEnds
<1>7. /\ p <= Len(t) => req_text_token_seek(t, tok) = p
      /\ p = Len(t) + 1 => req_text_token_seek(t, tok) = 0
  BY <1>s, <1>1, <1>2, <1>3 DEF StageEnds
<1> QED BY <1>3, <1>5, <1>6, <1>7 DEF p, q, tok

LEMMA CodePlaces ==
  ASSUME NEW t \in Seq(Char), At(t, IdEnd(t)) = "space", At(t, SrcEnd(t)) = "space"
  PROVE  /\ SrcEnd(t) + 1 <= Len(t) => req_text_token_seek(t, "MODDST") = SrcEnd(t) + 1
         /\ SrcEnd(t) + 1 = Len(t) + 1 => req_text_token_seek(t, "MODDST") = 0
         /\ DstEnd(t) \in SrcEnd(t) + 1 .. Len(t) + 1
         /\ \A j \in SrcEnd(t) + 1 .. DstEnd(t) - 1 : t[j] \in ModChar
         /\ At(t, DstEnd(t)) = "space" =>
              /\ DstEnd(t) \in 1 .. Len(t) /\ DstEnd(t) + 1 \in 1 .. Len(t) + 1
              /\ Tokens(t)[DstEnd(t) + 1] = "CODE"
              /\ Before(t, DstEnd(t) + 1, {"ID", "MODSRC", "MODDST"})
<1> DEFINE q == DstEnd(t)
           tok == "MODDST"
           toks == {"ID", "MODSRC"}
           p == SrcEnd(t) + 1
<1>1. Tokens(t)[p] = tok /\ p \in 1 .. Len(t) + 1 /\ Before(t, p, toks)
  BY DestinationPlaces
<1>2. tok \notin toks /\ ModChar \subseteq Char /\ tok # "CODE"
  BY Classes
<1>3. (\A c \in ModChar : AfterChar(tok, c) = tok) /\ AfterChar(tok, "space") = "CODE"
  BY AfterCharIs
<1>4. q = RunEnd(t, p, ModChar)
  BY DEF DstEnd
<1>5. toks \cup {tok} = {"ID", "MODSRC", "MODDST"}
  OBVIOUS
<1> HIDE DEF q, tok, toks, p
<1>s. StageEnds(t, p, tok, toks, ModChar, q)
  <2>1. StageBegins(t, p, tok, toks, ModChar, q)
    BY <1>1, <1>2, <1>3, <1>4 DEF StageBegins
  <2> QED BY <2>1, Stage
<1>6. /\ q \in p .. Len(t) + 1 /\ Before(t, q + 1, toks \cup {tok})
      /\ \A j \in p .. q - 1 : j \in 1 .. Len(t) /\ t[j] \in ModChar
      /\ At(t, q) = "space" => /\ q \in 1 .. Len(t) /\ q + 1 \in 1 .. Len(t) + 1
                               /\ Tokens(t)[q + 1] = AfterChar(tok, "space")
  BY <1>s, <1>1, <1>2, <1>3 DEF StageEnds
<1>7. /\ p <= Len(t) => req_text_token_seek(t, tok) = p
      /\ p = Len(t) + 1 => req_text_token_seek(t, tok) = 0
  BY <1>s, <1>1, <1>2, <1>3 DEF StageEnds
<1> QED BY <1>3, <1>5, <1>6, <1>7 DEF p, q, tok

LEMMA ListPlaces ==
  ASSUME NEW t \in Seq(Char), At(t, IdEnd(t)) = "space", At(t, SrcEnd(t)) = "space",
         At(t, DstEnd(t)) = "space"
  PROVE  /\ req_text_token_seek(t, "CODE") = DstEnd(t) + 1
         /\ CodeEndOf(t) \in DstEnd(t) + 1 .. Len(t) + 1
         /\ \A j \in DstEnd(t) + 1 .. CodeEndOf(t) - 1 : j \in 1 .. Len(t) /\ t[j] \in CodeChar
         /\ At(t, CodeEndOf(t)) = End => req_text_token_seek(t, "NVL") = Len(t) + 1
         /\ At(t, CodeEndOf(t)) = "space" =>
              /\ CodeEndOf(t) \in 1 .. Len(t) /\ CodeEndOf(t) + 1 \in 1 .. Len(t) + 1
              /\ CodeEndOf(t) + 1 <= Len(t) =>
                   req_text_token_seek(t, "NVL") = CodeEndOf(t) + 1
              /\ CodeEndOf(t) + 1 = Len(t) + 1 => req_text_token_seek(t, "NVL") = 0
<1> DEFINE q == CodeEndOf(t)
           tok == "CODE"
           toks == {"ID", "MODSRC", "MODDST"}
           p == DstEnd(t) + 1
           all == toks \cup {tok}
           nvl == "NVL"
           none == {}
<1>1. Tokens(t)[p] = tok /\ p \in 1 .. Len(t) + 1 /\ Before(t, p, toks)
  BY CodePlaces
<1>2. tok \notin toks /\ CodeChar \subseteq Char /\ tok = "CODE"
  BY Classes
<1>3. (\A c \in CodeChar : AfterChar(tok, c) = tok) /\ AfterChar(tok, "space") = nvl
  BY AfterCharIs
<1>4. q = RunEnd(t, p, CodeChar)
  BY DEF CodeEndOf
<1>5. nvl \notin all /\ nvl # "CODE" /\ none \subseteq Char
  OBVIOUS
<1>a. all = toks \cup {tok} /\ \A c \in none : AfterChar(nvl, c) = nvl
  OBVIOUS
<1> HIDE DEF q, tok, toks, p, all, nvl, none
<1>s. StageEnds(t, p, tok, toks, CodeChar, q)
  <2>1. StageBegins(t, p, tok, toks, CodeChar, q)
    BY <1>1, <1>2, <1>3, <1>4 DEF StageBegins
  <2> QED BY <2>1, Stage
<1>6. /\ q \in p .. Len(t) + 1 /\ q \in 1 .. Len(t) + 1 /\ Before(t, q + 1, toks \cup {tok})
      /\ \A j \in p .. q - 1 : j \in 1 .. Len(t) /\ t[j] \in CodeChar
      /\ At(t, q) = "space" => /\ q \in 1 .. Len(t) /\ q + 1 \in 1 .. Len(t) + 1
                               /\ Tokens(t)[q + 1] = AfterChar(tok, "space")
      /\ At(t, q) = End => q = Len(t) + 1
      /\ req_text_token_seek(t, tok) = p
  BY <1>s, <1>1, <1>2, <1>3 DEF StageEnds
<1>7. Before(t, q + 1, all)
  BY <1>6, <1>a
<1>8. ASSUME At(t, q) = End PROVE req_text_token_seek(t, nvl) = Len(t) + 1
  <2>1. q = Len(t) + 1 /\ Len(t) \in Nat
    BY <1>6, <1>8
  <2>2. \A i \in 1 .. Len(t) + 1 : Tokens(t)[i] \in all
    BY <1>7, <2>1 DEF Before
  <2>3. \A i \in 1 .. Len(t) : Tokens(t)[i] # nvl
    BY <1>5, <2>1, <2>2
  <2>4. Tokens(t)[Len(t) + 1] = "CODE"
    <3> DEFINE e == Len(t) + 1
    <3>1. p \in Nat \ {0} /\ e \in Nat /\ p <= e /\ e <= Len(t) + 1 /\ e \in p .. e
      BY <1>1, <2>1
    <3>2. \A i \in p .. e - 1 : AfterChar(tok, t[i]) = tok
      BY <1>3, <1>6, <2>1
    <3> HIDE DEF e
    <3>3. Tokens(t)[e] = tok
      BY <1>1, <3>1, <3>2, TokenRun
    <3> QED BY <1>2, <3>3 DEF e
  <2> QED BY <2>3, <2>4, SeekFails
<1>9. ASSUME At(t, q) = "space"
      PROVE  /\ q \in 1 .. Len(t) /\ q + 1 \in 1 .. Len(t) + 1
             /\ q + 1 <= Len(t) => req_text_token_seek(t, nvl) = q + 1
             /\ q + 1 = Len(t) + 1 => req_text_token_seek(t, nvl) = 0
  <2> DEFINE next == q + 1
             e == RunEnd(t, next, none)
  <2>1. next \in 1 .. Len(t) + 1 /\ Tokens(t)[next] = nvl /\ Before(t, next, all)
    BY <1>3, <1>6, <1>7, <1>9
  <2>2. e = RunEnd(t, next, none)
    OBVIOUS
  <2> HIDE DEF next, e
  <2>3. /\ next <= Len(t) => req_text_token_seek(t, nvl) = next
        /\ next = Len(t) + 1 => req_text_token_seek(t, nvl) = 0
    <3>1. StageBegins(t, next, nvl, all, none, e)
      BY <1>5, <1>a, <2>1, <2>2 DEF StageBegins
    <3>2. StageEnds(t, next, nvl, all, none, e)
      BY <3>1, Stage
    <3> QED BY <1>5, <3>2 DEF StageEnds
  <2> QED BY <1>6, <1>9, <2>3 DEF next
<1> QED BY <1>6, <1>8, <1>9, <1>2 DEF p, q, nvl

\* What was converted has the words of a header.
LEMMA ConvertedHeader ==
  ASSUME NEW t \in Seq(Char), ~ Replies(t), ~ req_text_type(t).fails, ~ req_text_src(t).fails,
         ~ req_text_dst(t).fails, ~ req_text_code(t).fails, ~ NvList(t).fails
  PROVE  /\ HeaderSpaced(t)
         /\ req_text_code(t).is # <<>> => At(t, DstEnd(t) + 1) \notin {"space", End}
         /\ At(t, CodeEndOf(t)) = "space" => /\ CodeEndOf(t) + 1 \in 1 .. Len(t)
                                            /\ NvList(t) = PairsFrom(t)[CodeEndOf(t) + 1]
<1> DEFINE a == IdEnd(t)
           b == SrcEnd(t)
           c == DstEnd(t)
           d == CodeEndOf(t)
           n == Len(t)
<1>n. n \in Nat /\ n = Len(t) /\ Fails.fails
  BY Outcomes
<1> HIDE DEF a, b, c, d, n
<1>1. At(t, a) = "space"
  <2>1. req_text_type(t) = CASE At(t, a) \in ReplyChar -> Is("REPLY")
                             [] At(t, a) = "space"     -> Is("REQUEST")
                             [] OTHER                  -> Fails
    BY DEF req_text_type, IdEnd, a
  <2>2. At(t, a) \notin ReplyChar
    BY DEF Replies, IdEnd, a
  <2> QED BY <1>n, <2>1, <2>2
<1>2. a \in 1..n /\ a + 1 \in 1 .. n + 1
  BY <1>1, SourcePlaces DEF a, n
<1>3. /\ a + 1 <= n => req_text_token_seek(t, "MODSRC") = a + 1
      /\ a + 1 = n + 1 => req_text_token_seek(t, "MODSRC") = 0
      /\ At(t, b) = "space" => b \in 1..n /\ b + 1 \in 1 .. n + 1
  BY <1>1, DestinationPlaces DEF a, b, n
<1>4. a + 1 \in 1..n /\ At(t, b) = "space"
  <2>1. req_text_src(t) # Fails
    BY <1>n
  <2>2. req_text_token_seek(t, "MODSRC") # 0
    BY <2>1, WordMissing DEF req_text_src
  <2>3. a + 1 \in 1..n
    BY <1>n, <1>2, <1>3, <2>2
  <2> DEFINE p == a + 1
             size == ReqModSize
  <2>4. p # 0 /\ req_text_token_seek(t, "MODSRC") = p /\ b = RunEnd(t, p, ModChar)
    BY <1>3, <2>3 DEF a, b, SrcEnd
  <2>5. req_text_src(t) = Word(t, "MODSRC", ModChar, {"space"}, size)
    BY DEF req_text_src
  <2> HIDE DEF p, size
  <2>6. req_text_src(t) = IF At(t, b) \in {"space"} /\ b - p <= size
                          THEN Is(SubSeq(t, p, b - 1)) ELSE Fails
    BY <2>4, <2>5, WordPlaces
  <2> QED BY <2>1, <2>3, <2>6
<1>5. /\ b + 1 <= n => req_text_token_seek(t, "MODDST") = b + 1
      /\ b + 1 = n + 1 => req_text_token_seek(t, "MODDST") = 0
      /\ At(t, c) = "space" => c \in 1..n /\ c + 1 \in 1 .. n + 1
  BY <1>1, <1>4, CodePlaces DEF a, b, c, n
<1>6. b + 1 \in 1..n /\ At(t, c) = "space"
  <2>1. req_text_dst(t) # Fails
    BY <1>n
  <2>2. req_text_token_seek(t, "MODDST") # 0
    BY <2>1, WordMissing DEF req_text_dst
  <2>3. b + 1 \in 1..n
    BY <1>n, <1>3, <1>4, <1>5, <2>2
  <2> DEFINE p == b + 1
             size == ReqModSize
  <2>4. p # 0 /\ req_text_token_seek(t, "MODDST") = p /\ c = RunEnd(t, p, ModChar)
    BY <1>5, <2>3 DEF b, c, DstEnd
  <2>5. req_text_dst(t) = Word(t, "MODDST", ModChar, {"space"}, size)
    BY DEF req_text_dst
  <2> HIDE DEF p, size
  <2>6. req_text_dst(t) = IF At(t, c) \in {"space"} /\ c - p <= size
                          THEN Is(SubSeq(t, p, c - 1)) ELSE Fails
    BY <2>4, <2>5, WordPlaces
  <2> QED BY <2>1, <2>3, <2>6
<1>7. /\ req_text_token_seek(t, "CODE") = c + 1 /\ d \in c + 1 .. n + 1
      /\ \A j \in c + 1 .. d - 1 : j \in 1..n /\ t[j] \in CodeChar
      /\ At(t, d) = "space" =>
           /\ d \in 1..n /\ d + 1 \in 1 .. n + 1
           /\ d + 1 <= n => req_text_token_seek(t, "NVL") = d + 1
           /\ d + 1 = n + 1 => req_text_token_seek(t, "NVL") = 0
  BY <1>1, <1>4, <1>6, ListPlaces DEF a, b, c, d, n
<1>8. c \in 1..n /\ c + 1 \in 1 .. n + 1
  BY <1>5, <1>6
<1>9. At(t, d) \in {"space", End} /\ req_text_code(t).is = SubSeq(t, c + 1, d - 1)
  <2> DEFINE p == c + 1
             size == ReqCodeSize
             ends == {"space", End}
  <2>1. req_text_code(t) # Fails
    BY <1>n
  <2>2. p # 0 /\ req_text_token_seek(t, "CODE") = p /\ d = RunEnd(t, p, CodeChar)
    BY <1>7, <1>8 DEF c, d, CodeEndOf
  <2>3. req_text_code(t) = Word(t, "CODE", CodeChar, ends, size)
    BY DEF req_text_code
  <2> HIDE DEF p, size, ends
  <2>4. req_text_code(t) = IF At(t, d) \in ends /\ d - p <= size
                           THEN Is(SubSeq(t, p, d - 1)) ELSE Fails
    BY <2>2, <2>3, WordPlaces
  <2>5. At(t, d) \in ends /\ req_text_code(t) = Is(SubSeq(t, p, d - 1))
    BY <2>1, <2>4
  <2>6. req_text_code(t).is = SubSeq(t, p, d - 1)
    BY <2>5, Outcomes
  <2> QED BY <2>5, <2>6 DEF ends, p
<1>10. ASSUME req_text_code(t).is # <<>> PROVE At(t, c + 1) \notin {"space", End}
  <2>1. c + 1 \in c + 1 .. d - 1
    <3>1. d # c + 1
      <4> SUFFICES ASSUME d = c + 1 PROVE FALSE
        OBVIOUS
      <4> DEFINE p == c + 1
      <4>1. p \in Nat /\ p > 0 /\ d = p
        BY <1>8
      <4> HIDE DEF p
      <4>2. SubSeq(t, p, p - 1) = <<>>
        BY <4>1
      <4> QED BY <1>9, <1>10, <4>1, <4>2 DEF p
    <3> QED BY <1>7, <1>8, <3>1
  <2>2. c + 1 \in 1..n /\ t[c + 1] \in CodeChar
    BY <1>7, <2>1
  <2>3. At(t, c + 1) \in CodeChar
    <3>1. At(t, c + 1) = t[c + 1]
      BY <1>n, <2>2 DEF At
    <3> QED BY <2>2, <3>1
  <2>4. End \notin CodeChar /\ "space" \notin CodeChar
    BY Classes
  <2> QED BY <2>3, <2>4
<1>11. ASSUME At(t, d) = "space"
       PROVE  d + 1 \in 1..n /\ NvList(t) = PairsFrom(t)[d + 1]
  <2> DEFINE p == req_text_token_seek(t, "NVL")
             k == d + 1
  <2>1. NvList(t) = IF p = 0 THEN Fails
                    ELSE IF At(t, p) = End THEN Is(<<>>) ELSE PairsFrom(t)[p]
    BY DEF NvList, req_text_nv_list
  <2>2. p # 0
    BY <1>n, <2>1
  <2>3. k \in 1..n /\ p = k
    BY <1>n, <1>7, <1>11, <2>2
  <2> HIDE DEF p, k
  <2>4. At(t, k) # End
    <3>1. At(t, k) = t[k] /\ t[k] \in Char
      BY <1>n, <2>3 DEF At
    <3> QED BY <3>1, Classes
  <2> QED BY <2>1, <2>2, <2>3, <2>4 DEF k
<1> QED BY <1>1, <1>4, <1>6, <1>9, <1>10, <1>11 DEF HeaderSpaced, a, b, c, d, n

\* What the validation makes of the words of a header.
LEMMA HeaderValidated ==
  ASSUME NEW t \in Seq(Char), HeaderSpaced(t), At(t, DstEnd(t) + 1) \notin {"space", End}
  PROVE  req_validate(t) = IF At(t, CodeEndOf(t)) = End THEN "REQUEST_IS_VALID"
                           ELSE ValidatedFrom(t)[CodeEndOf(t) + 1]
<1> DEFINE a == IdEnd(t)
           b == SrcEnd(t)
           c == DstEnd(t)
           d == CodeEndOf(t)
           s1 == "REQUEST_INVALID_MODSRC"
           s2 == "REQUEST_INVALID_MODDST"
           id == req_validate_id(t, 1)
           type == req_validate_type(t, id.is)
           src == req_validate_mod(t, type.is + 1, s1)
           dst == req_validate_mod(t, src.is + 1, s2)
           code == req_validate_code(t, dst.is + 1)
<1>1. /\ At(t, a) = "space" /\ At(t, b) = "space" /\ At(t, c) = "space"
      /\ a + 1 \in 1 .. Len(t) /\ b + 1 \in 1 .. Len(t) /\ At(t, d) \in {"space", End}
      /\ At(t, c + 1) \notin {"space", End}
  BY DEF HeaderSpaced
<1>2. /\ a = RunEnd(t, 1, RidChar) /\ b = RunEnd(t, a + 1, ModChar)
      /\ c = RunEnd(t, b + 1, ModChar) /\ d = RunEnd(t, c + 1, CodeChar)
  BY DEF IdEnd, SrcEnd, DstEnd, CodeEndOf
<1> HIDE DEF a, b, c, d, s1, s2
<1>3. req_validate(t) = CASE id.fails                                -> id.status
                          [] ~id.fails /\ type.fails                 -> type.status
                          [] ~id.fails /\ ~type.fails /\ src.fails   -> src.status
                          [] ~id.fails /\ ~type.fails /\ ~src.fails /\ dst.fails  -> dst.status
                          [] OTHER -> IF code.fails THEN code.status
                                      ELSE req_validate_nvl(t, code.is)
  BY DEF req_validate, s1, s2
<1>4. id = Is(a)
  <2>1. t # <<>>
    BY <1>1
  <2> QED BY <1>1, <1>2, <2>1 DEF req_validate_id, Token
<1>5. type = Is(a)
  <2>1. id.is = a
    BY <1>4, Outcomes
  <2> HIDE DEF id
  <2>2. req_validate_type(t, a) = Is(a)
    <3>1. "space" \notin ReplyChar
      BY Classes
    <3> QED BY <1>1, <3>1 DEF req_validate_type
  <2> QED BY <2>1, <2>2
<1>6. ASSUME NEW p \in 1 .. Len(t), NEW q, q = RunEnd(t, p, ModChar), At(t, q) = "space", NEW st
      PROVE  req_validate_mod(t, p, st) = Is(q)
  <2>1. At(t, p) # End
    <3>1. At(t, p) \in Char
      BY AtIs
    <3> QED BY <3>1, Classes
  <2> QED BY <1>6, <2>1 DEF req_validate_mod, Token
<1>7. src = Is(b)
  <2>1. type.is = a
    BY <1>5, Outcomes
  <2> HIDE DEF type
  <2>2. src = req_validate_mod(t, a + 1, s1)
    BY <2>1
  <2> HIDE DEF src
  <2> QED BY <1>1, <1>2, <1>6, <2>2
<1>8. dst = Is(c)
  <2>1. src.is = b
    BY <1>7, Outcomes
  <2> HIDE DEF src
  <2>2. dst = req_validate_mod(t, b + 1, s2)
    BY <2>1
  <2> HIDE DEF dst
  <2> QED BY <1>1, <1>2, <1>6, <2>2
<1>9. code = Is(d)
  <2>1. dst.is = c
    BY <1>8, Outcomes
  <2> HIDE DEF dst
  <2>2. code = req_validate_code(t, c + 1)
    BY <2>1
  <2> HIDE DEF code
  <2>3. req_validate_code(t, c + 1) = Is(d)
    BY <1>1, <1>2 DEF req_validate_code, Token
  <2> QED BY <2>2, <2>3
<1> HIDE DEF id, type, src, dst, code
<1>10. ~ id.fails /\ ~ type.fails /\ ~ src.fails /\ ~ dst.fails /\ ~ code.fails /\ code.is = d
  BY <1>4, <1>5, <1>7, <1>8, <1>9, Outcomes
<1>11. req_validate(t) = req_validate_nvl(t, d)
  BY <1>3, <1>10
<1> QED BY <1>11 DEF req_validate_nvl, d

LEMMA RefusedIs ==
  ASSUME NEW st
  PROVE  Refused(st).fails /\ Refused(st).status = st
BY DEF Refused

LEMMA TokenIs ==
  ASSUME NEW t, NEW p, NEW class, NEW ends, NEW st, NEW q, q = RunEnd(t, p, class)
  PROVE  /\ At(t, q) \in ends => Token(t, p, class, ends, st) = Is(q)
         /\ At(t, q) \notin ends => Token(t, p, class, ends, st) = Refused(st)
BY DEF Token

\* A word of a module that is accepted.
LEMMA ModValidated ==
  ASSUME NEW t \in Seq(Char), NEW p \in 1 .. Len(t) + 1, NEW q, q = RunEnd(t, p, ModChar),
         NEW st, st # "REQUEST_IS_VALID"
  PROVE  \/ /\ req_validate_mod(t, p, st) = Is(q)
            /\ p \in 1 .. Len(t) /\ At(t, q) = "space"
         \/ /\ req_validate_mod(t, p, st).fails
            /\ req_validate_mod(t, p, st).status # "REQUEST_IS_VALID"
<1> DEFINE s == {"space"}
           o == req_validate_mod(t, p, st)
<1>1. o = IF At(t, p) = End THEN Refused("failure") ELSE Token(t, p, ModChar, s, st)
  BY DEF req_validate_mod
<1>2. At(t, q) \in s <=> At(t, q) = "space"
  OBVIOUS
<1>3. At(t, p) # End => p \in 1 .. Len(t)
  BY AtIs
<1> HIDE DEF s, o
<1>4. CASE At(t, p) = End
  BY <1>1, <1>4, RefusedIs DEF o
<1>5. CASE At(t, p) # End
  BY <1>1, <1>2, <1>3, <1>5, RefusedIs, TokenIs DEF o
<1> QED BY <1>4, <1>5

\* What is valid has the words of a header.
LEMMA ValidHeader ==
  ASSUME NEW t \in Seq(Char), ~ Replies(t), req_validate(t) = "REQUEST_IS_VALID"
  PROVE  HeaderSpaced(t) /\ At(t, DstEnd(t) + 1) \notin {"space", End}
<1> DEFINE a == IdEnd(t)
           b == SrcEnd(t)
           c == DstEnd(t)
           d == CodeEndOf(t)
           n == Len(t)
           s1 == "REQUEST_INVALID_MODSRC"
           s2 == "REQUEST_INVALID_MODDST"
           valid == "REQUEST_IS_VALID"
           id == req_validate_id(t, 1)
           type == req_validate_type(t, id.is)
           src == req_validate_mod(t, type.is + 1, s1)
           dst == req_validate_mod(t, src.is + 1, s2)
           code == req_validate_code(t, dst.is + 1)
<1>2. /\ a = RunEnd(t, 1, RidChar) /\ b = RunEnd(t, a + 1, ModChar)
      /\ c = RunEnd(t, b + 1, ModChar) /\ d = RunEnd(t, c + 1, CodeChar)
  BY DEF IdEnd, SrcEnd, DstEnd, CodeEndOf
<1>s. s1 # valid /\ s2 # valid
  OBVIOUS
<1> HIDE DEF s1, s2
<1>3. valid = CASE id.fails                                -> id.status
                [] ~id.fails /\ type.fails                 -> type.status
                [] ~id.fails /\ ~type.fails /\ src.fails   -> src.status
                [] ~id.fails /\ ~type.fails /\ ~src.fails /\ dst.fails  -> dst.status
                [] OTHER -> IF code.fails THEN code.status
                            ELSE req_validate_nvl(t, code.is)
  BY DEF req_validate, s1, s2
<1>4. \/ id = Is(a) /\ At(t, a) = "space"
      \/ id.fails /\ id.status # valid
  <2> DEFINE ends == ReplyChar \cup {"space"}
             s0 == "REQUEST_INVALID_ID"
             p == 1
  <2>1. id = IF t = <<>> THEN Refused("failure") ELSE Token(t, p, RidChar, ends, s0)
    BY DEF req_validate_id
  <2>2. At(t, a) \notin ReplyChar
    BY DEF Replies, IdEnd
  <2>3. At(t, a) \in ends => At(t, a) = "space"
    BY <2>2
  <2>4. s0 # valid /\ "failure" # valid /\ a = RunEnd(t, p, RidChar)
    BY <1>2
  <2> HIDE DEF ends, id, a, p, s0, valid
  <2>5. CASE t = <<>>
    BY <2>1, <2>4, <2>5, RefusedIs
  <2>6. CASE t # <<>>
    BY <2>1, <2>3, <2>4, <2>6, RefusedIs, TokenIs
  <2> QED BY <2>5, <2>6
<1>n. n \in Nat
  OBVIOUS
<1> HIDE DEF a, b, c, d, valid
<1>5. id = Is(a) /\ At(t, a) = "space"
  <2> HIDE DEF id, type, src, dst, code
  <2> QED BY <1>3, <1>4
<1>6. ~ id.fails /\ id.is = a
  BY <1>5, Outcomes
<1>7. type = Is(a)
  <2> HIDE DEF id
  <2>1. req_validate_type(t, a) = Is(a)
    <3>1. "space" \notin ReplyChar
      BY Classes
    <3> QED BY <1>5, <3>1 DEF req_validate_type
  <2> QED BY <1>6, <2>1
<1>8. ~ type.fails /\ type.is = a
  BY <1>7, Outcomes
<1>9. src = Is(b) /\ a + 1 \in 1..n /\ At(t, b) = "space"
  <2> DEFINE p == a + 1
  <2>1. p \in 1 .. n + 1
    BY <1>5, SourcePlaces DEF a
  <2>2. src = req_validate_mod(t, p, s1)
    <3> HIDE DEF type
    <3> QED BY <1>8
  <2>3. b = RunEnd(t, p, ModChar)
    BY <1>2
  <2> HIDE DEF p, id, type, src, dst, code
  <2>4. \/ src = Is(b) /\ p \in 1..n /\ At(t, b) = "space"
        \/ src.fails /\ src.status # valid
    BY <1>s, <2>1, <2>2, <2>3, ModValidated DEF valid
  <2>5. ~ (src.fails /\ src.status # valid)
    BY <1>3, <1>6, <1>8
  <2> QED BY <2>4, <2>5 DEF p
<1>10. ~ src.fails /\ src.is = b
  BY <1>9, Outcomes
<1>11. dst = Is(c) /\ b + 1 \in 1..n /\ At(t, c) = "space"
  <2> DEFINE p == b + 1
  <2>1. p \in 1 .. n + 1
    BY <1>5, <1>9, DestinationPlaces DEF a, b
  <2>2. dst = req_validate_mod(t, p, s2)
    <3> HIDE DEF src
    <3> QED BY <1>10
  <2>3. c = RunEnd(t, p, ModChar)
    BY <1>2
  <2> HIDE DEF p, id, type, src, dst, code
  <2>4. \/ dst = Is(c) /\ p \in 1..n /\ At(t, c) = "space"
        \/ dst.fails /\ dst.status # valid
    BY <1>s, <2>1, <2>2, <2>3, ModValidated DEF valid
  <2>5. ~ (dst.fails /\ dst.status # valid)
    BY <1>3, <1>6, <1>8, <1>10
  <2> QED BY <2>4, <2>5 DEF p
<1>12. ~ dst.fails /\ dst.is = c
  BY <1>11, Outcomes
<1>13. At(t, c + 1) \notin {"space", End} /\ At(t, d) \in {"space", End}
  <2> DEFINE p == c + 1
             ends == {"space", End}
             s3 == "REQUEST_INVALID_CODE"
  <2>1. code = req_validate_code(t, p)
    <3> HIDE DEF dst
    <3> QED BY <1>12
  <2>2. req_validate_code(t, p) = IF At(t, p) \in ends THEN Refused(s3)
                                  ELSE Token(t, p, CodeChar, ends, s3)
    BY DEF req_validate_code
  <2>3. s3 # valid /\ d = RunEnd(t, p, CodeChar)
    BY <1>2 DEF valid
  <2> HIDE DEF p, ends, s3, id, type, src, dst, code
  <2>4. ~ (code.fails /\ code.status # valid)
    BY <1>3, <1>6, <1>8, <1>10, <1>12
  <2>5. At(t, p) \notin ends
    BY <2>1, <2>2, <2>3, <2>4, RefusedIs
  <2>6. At(t, d) \in ends
    BY <2>1, <2>2, <2>3, <2>4, <2>5, RefusedIs, TokenIs
  <2> QED BY <2>5, <2>6 DEF p, ends
<1> QED BY <1>5, <1>9, <1>11, <1>13 DEF HeaderSpaced, a, b, c, d
-----------------------------------------------------------------------------
(***************************************************************************)
(* The pairs of a text, as the validation takes them.                      *)
(***************************************************************************)

\* How a pair whose name ends at q is accepted, up to next.
IsValidNv(t, q, next) ==
  \/ At(t, q) \in {End, "space"} /\ next = q
  \/ /\ At(t, q) = "=" /\ At(t, q + 1) = "quote"
     /\ next = RunEnd(t, q + 2, QValueChar) + 1 /\ At(t, next - 1) = "quote"
  \/ /\ At(t, q) = "=" /\ At(t, q + 1) = "#"
     /\ next = RunEnd(t, q + 2, EValueChar) /\ At(t, next) = End
  \/ /\ At(t, q) = "=" /\ At(t, q + 1) \notin {"quote", "#", End}
     /\ next = RunEnd(t, q + 1, ValueChar) /\ At(t, next) \in {End, "space"}

LEMMA NvValidated ==
  ASSUME NEW t \in Seq(Char), NEW p \in 1 .. Len(t) + 1, NEW q, q = RunEnd(t, p, NameChar),
         NEW o, o = req_validate_nv(t, p)
  PROVE  /\ \A next \in Int : q > p /\ IsValidNv(t, q, next) => o = Is(next)
         /\ \/ o.fails /\ o.status # "REQUEST_IS_VALID"
            \/ /\ q > p /\ o.is \in q .. Len(t) + 1 /\ o = Is(o.is)
               /\ IsValidNv(t, q, o.is)
<1> DEFINE v == q + 1
           close == RunEnd(t, v + 1, QValueChar)
           e == RunEnd(t, v + 1, EValueChar)
           u == RunEnd(t, v, ValueChar)
           se == {End}
           su == {End, "space"}
           bad == "REQUEST_INVALID_NV"
           c1 == At(t, p) = End
           c2 == q > p /\ At(t, q) \in {End, "space"}
           c3 == q > p /\ At(t, q) = "=" /\ At(t, v) = "quote" /\ At(t, close) = "quote"
           c4 == q > p /\ At(t, q) = "=" /\ At(t, v) = "#"
           c5 == q > p /\ At(t, q) = "=" /\ At(t, v) \notin {"quote", "#", End}
           r4 == Token(t, v + 1, EValueChar, se, bad)
           r5 == Token(t, v, ValueChar, su, bad)
<1>1. o = CASE c1 -> Refused("failure")
            [] c2 -> Is(q)
            [] c3 -> Is(close + 1)
            [] c4 -> r4
            [] c5 -> r5
            [] OTHER -> Refused(bad)
  BY DEF req_validate_nv
<1>2. /\ q \in p .. Len(t) + 1 /\ Len(t) \in Nat /\ p \in Nat /\ p > 0
      /\ v = q + 1 /\ v + 1 = q + 2
      /\ \A j \in p .. q - 1 : j \in 1 .. Len(t) /\ t[j] \in NameChar
  <2>1. End \notin NameChar
    BY Classes
  <2>2. /\ q \in p .. Len(t) + 1
        /\ \A j \in p .. q - 1 : j \in 1 .. Len(t) /\ t[j] \in NameChar
    BY <2>1, RunEndIs
  <2> QED BY <2>2
<1>3. q > p => ~ c1
  <2> SUFFICES ASSUME q > p PROVE At(t, p) # End
    OBVIOUS
  <2>1. p \in p .. q - 1
    BY <1>2
  <2>2. p \in 1 .. Len(t)
    BY <1>2, <2>1
  <2>3. At(t, p) \in Char
    BY <2>2, AtIs
  <2> QED BY <2>3, Classes
<1>4. "=" \notin {End, "space"} /\ "quote" # "#" /\ "quote" # End /\ "#" # End
  BY DEF End
<1>5. bad # "REQUEST_IS_VALID" /\ "failure" # "REQUEST_IS_VALID"
  OBVIOUS
<1>6. /\ At(t, e) = End => r4 = Is(e)
      /\ At(t, e) # End => r4 = Refused(bad)
  <2> DEFINE k == v + 1
  <2>1. e = RunEnd(t, k, EValueChar) /\ (At(t, e) \in se <=> At(t, e) = End)
    OBVIOUS
  <2>2. r4 = Token(t, k, EValueChar, se, bad)
    OBVIOUS
  <2> HIDE DEF e, se, bad, r4, k
  <2> QED BY <2>1, <2>2, TokenIs
<1>7. /\ At(t, u) \in {End, "space"} => r5 = Is(u)
      /\ At(t, u) \notin {End, "space"} => r5 = Refused(bad)
  <2>1. u = RunEnd(t, v, ValueChar) /\ (At(t, u) \in su <=> At(t, u) \in {End, "space"})
    OBVIOUS
  <2>2. r5 = Token(t, v, ValueChar, su, bad)
    OBVIOUS
  <2> HIDE DEF u, v, su, bad, r5
  <2> QED BY <2>1, <2>2, TokenIs
<1>8. close = RunEnd(t, q + 2, QValueChar) /\ e = RunEnd(t, q + 2, EValueChar)
      /\ u = RunEnd(t, q + 1, ValueChar)
  BY <1>2
<1>c. /\ (c1 <=> At(t, p) = End)
      /\ (c2 <=> q > p /\ At(t, q) \in {End, "space"})
      /\ (c3 <=> q > p /\ At(t, q) = "=" /\ At(t, q + 1) = "quote" /\ At(t, close) = "quote")
      /\ (c4 <=> q > p /\ At(t, q) = "=" /\ At(t, q + 1) = "#")
      /\ (c5 <=> q > p /\ At(t, q) = "=" /\ At(t, q + 1) \notin {"quote", "#", End})
  OBVIOUS
<1>9. ASSUME At(t, v) # End, q > p PROVE v \in 1 .. Len(t)
  <2>1. v \in Int
    BY <1>2
  <2> HIDE DEF v
  <2> QED BY <1>9, <2>1, AtIs
<1> HIDE DEF close, e, u, r4, r5, c1, c2, c3, c4, c5, bad, v
<1>10. /\ c2 => ~c1 /\ ~c3 /\ ~c4 /\ ~c5
       /\ c3 => ~c1 /\ ~c2 /\ ~c4 /\ ~c5
       /\ c4 => ~c1 /\ ~c2 /\ ~c3 /\ ~c5
       /\ c5 => ~c1 /\ ~c2 /\ ~c3 /\ ~c4
  BY <1>3, <1>4, <1>c
<1>11. /\ c2 => o = Is(q)
       /\ c3 => o = Is(close + 1)
       /\ c4 => o = r4
       /\ c5 => o = r5
       /\ ~ c2 /\ ~ c3 /\ ~ c4 /\ ~ c5 => o \in {Refused("failure"), Refused(bad)}
  BY <1>1, <1>10
<1>12. ASSUME NEW next \in Int, q > p, IsValidNv(t, q, next) PROVE o = Is(next)
  <2>1. CASE At(t, q) \in {End, "space"} /\ next = q
    BY <1>11, <1>12, <1>c, <2>1
  <2>2. CASE /\ At(t, q) = "=" /\ At(t, q + 1) = "quote"
             /\ next = RunEnd(t, q + 2, QValueChar) + 1 /\ At(t, next - 1) = "quote"
    <3>1. next = close + 1
      BY <1>8, <2>2
    <3>2. At(t, close) = "quote"
      <4>1. End \notin QValueChar
        BY Classes
      <4>2. v \in 1 .. Len(t)
        BY <1>2, <1>4, <1>9, <1>12, <2>2
      <4>3. q + 2 \in 1 .. Len(t) + 1
        BY <1>2, <4>2
      <4>4. close \in q + 2 .. Len(t) + 1
        BY <1>8, <4>1, <4>3, RunEndIs
      <4>5. next - 1 = close
        BY <1>2, <3>1, <4>4
      <4> QED BY <2>2, <4>5
    <3>3. c3
      BY <1>12, <1>c, <2>2, <3>2
    <3> QED BY <1>11, <3>1, <3>3
  <2>3. CASE /\ At(t, q) = "=" /\ At(t, q + 1) = "#"
             /\ next = RunEnd(t, q + 2, EValueChar) /\ At(t, next) = End
    BY <1>6, <1>8, <1>11, <1>12, <1>c, <2>3
  <2>4. CASE /\ At(t, q) = "=" /\ At(t, q + 1) \notin {"quote", "#", End}
             /\ next = RunEnd(t, q + 1, ValueChar) /\ At(t, next) \in {End, "space"}
    BY <1>7, <1>8, <1>11, <1>12, <1>c, <2>4
  <2> QED BY <1>12, <2>1, <2>2, <2>3, <2>4 DEF IsValidNv
<1> DEFINE Good(next) == q > p /\ next \in q .. Len(t) + 1 /\ o = Is(next) /\ IsValidNv(t, q, next)
           Bad == o.fails /\ o.status # "REQUEST_IS_VALID"
<1>13. ASSUME c2 PROVE Good(q)
  BY <1>2, <1>11, <1>13, <1>c DEF IsValidNv
<1>14. ASSUME c3 PROVE Good(close + 1)
  <2>1. v \in 1 .. Len(t)
    BY <1>2, <1>4, <1>9, <1>14, <1>c
  <2>2. End \notin QValueChar /\ q + 2 \in 1 .. Len(t) + 1
    BY <1>2, <2>1, Classes
  <2>3. close \in q + 2 .. Len(t) + 1
    BY <1>8, <2>2, RunEndIs
  <2>4. close \in 1 .. Len(t)
    <3>1. At(t, close) # End /\ close \in Int
      BY <1>2, <1>4, <1>14, <1>c, <2>3
    <3> QED BY <3>1, AtIs
  <2> DEFINE next == close + 1
  <2>5. next \in q .. Len(t) + 1 /\ next - 1 = close
    BY <1>2, <2>3, <2>4
  <2>6. next = RunEnd(t, q + 2, QValueChar) + 1 /\ o = Is(next)
    BY <1>8, <1>11, <1>14
  <2> HIDE DEF next
  <2>7. IsValidNv(t, q, next)
    BY <1>14, <1>c, <2>5, <2>6 DEF IsValidNv
  <2> QED BY <1>14, <1>c, <2>5, <2>6, <2>7 DEF next
<1>15. ASSUME c4 PROVE Bad \/ Good(e)
  <2>1. CASE At(t, e) = End
    <3>1. v \in 1 .. Len(t)
      BY <1>2, <1>4, <1>9, <1>15, <1>c
    <3>2. End \notin EValueChar /\ q + 2 \in 1 .. Len(t) + 1
      BY <1>2, <3>1, Classes
    <3>3. e \in q + 2 .. Len(t) + 1
      BY <1>8, <3>2, RunEndIs
    <3>4. e \in q .. Len(t) + 1
      BY <1>2, <3>3
    <3>5. IsValidNv(t, q, e)
      BY <1>8, <1>15, <1>c, <2>1 DEF IsValidNv
    <3> QED BY <1>6, <1>11, <1>15, <1>c, <2>1, <3>4, <3>5
  <2>2. CASE At(t, e) # End
    BY <1>5, <1>6, <1>11, <1>15, <2>2, RefusedIs
  <2> QED BY <2>1, <2>2
<1>16. ASSUME c5 PROVE Bad \/ Good(u)
  <2>1. CASE At(t, u) \in {End, "space"}
    <3>1. v \in 1 .. Len(t)
      BY <1>2, <1>9, <1>16, <1>c
    <3>2. End \notin ValueChar /\ q + 1 \in 1 .. Len(t) + 1
      BY <1>2, <3>1, Classes
    <3>3. u \in q + 1 .. Len(t) + 1
      BY <1>8, <3>2, RunEndIs
    <3>4. u \in q .. Len(t) + 1
      BY <1>2, <3>3
    <3>5. IsValidNv(t, q, u)
      BY <1>8, <1>16, <1>c, <2>1 DEF IsValidNv
    <3> QED BY <1>7, <1>11, <1>16, <1>c, <2>1, <3>4, <3>5
  <2>2. CASE At(t, u) \notin {End, "space"}
    BY <1>5, <1>7, <1>11, <1>16, <2>2, RefusedIs
  <2> QED BY <2>1, <2>2
<1>17. ASSUME ~ c2, ~ c3, ~ c4, ~ c5 PROVE Bad
  BY <1>5, <1>11, <1>17, RefusedIs
<1>18. Bad \/ \E next : Good(next)
  <2> HIDE DEF Good, Bad
  <2> QED BY <1>13, <1>14, <1>15, <1>16, <1>17
<1>19. Bad \/ Good(o.is)
  <2>1. ASSUME NEW next, Good(next) PROVE Good(o.is)
    <3>1. o.is = next
      BY <2>1, Outcomes
    <3> HIDE DEF Good
    <3> QED BY <2>1, <3>1
  <2> QED BY <1>18, <2>1
<1> QED BY <1>12, <1>19

LEMMA ValidatedFromIs ==
  ASSUME NEW t \in Seq(Char)
  PROVE  \A i \in 1 .. Len(t) + 1 : ValidatedFrom(t)[i] = ValidatedAt(t, ValidatedFrom(t), i)
<1> DEFINE n == Len(t) + 1
           nv(i) == req_validate_nv(t, i)
           next(i) == nv(i).is
           goes(i) == ~ nv(i).fails /\ At(t, next(i)) = "space"
           last(i) == ValidatedAt(t, <<>>, i)
           first == [i \in 1..n |-> last(i)]
           from == [i \in 1..n |-> IF goes(i) THEN next(i) + 1 ELSE 0]
           A == { last(i) : i \in 1..n }
<1>1. first \in [1..n -> A] /\ n \in Nat /\ \A i \in 1..n : first[i] = last(i)
  OBVIOUS
<1>2. ASSUME NEW i \in 1..n, goes(i) PROVE next(i) + 1 \in i + 1 .. n
  <2> DEFINE q == RunEnd(t, i, NameChar)
             x == next(i)
  <2>1. q = RunEnd(t, i, NameChar)
    OBVIOUS
  <2> HIDE DEF q, x
  <2>2. q > i /\ x \in q .. Len(t) + 1 /\ q \in i .. Len(t) + 1
    <3>1. End \notin NameChar
      BY Classes
    <3> QED BY <1>2, <2>1, <3>1, NvValidated, RunEndIs DEF x
  <2>3. At(t, x) # End
    BY <1>2 DEF End, x
  <2>4. x \in Int /\ x >= i
    BY <2>2
  <2>5. x \in 1 .. Len(t)
    BY <2>3, <2>4, AtIs
  <2>6. x + 1 \in i + 1 .. n
    BY <2>4, <2>5
  <2> QED BY <2>6 DEF x
<1>3. ASSUME NEW i \in 1..n PROVE from[i] = IF goes(i) THEN next(i) + 1 ELSE 0
  BY Zenon
<1>4. ASSUME NEW i \in 1..n PROVE from[i] = 0 \/ from[i] \in i + 1 .. n
  <2> HIDE DEF from, goes, next, n
  <2> QED BY <1>2, <1>3
<1> HIDE DEF first, from, A, n
<1>5. PICK f \in [1..n -> A] : Follows(f, n, first, from)
  BY <1>1, <1>4, RecursionFollows
<1>e. End # "space"
  BY DEF End
<1>6. ASSUME NEW i \in 1..n PROVE f[i] = ValidatedAt(t, f, i)
  <2>1. CASE goes(i)
    <3>1. ValidatedAt(t, f, i) = f[next(i) + 1]
      BY <1>e, <2>1, Zenon DEF ValidatedAt
    <3>2. from[i] = next(i) + 1 /\ from[i] \in i + 1 .. n
      BY <1>2, <1>3, <2>1
    <3>3. from[i] # 0
      <4>1. 0 \notin i + 1 .. n
        BY <1>1
      <4> QED BY <3>2, <4>1
    <3> QED BY <1>5, <3>1, <3>2, <3>3 DEF Follows
  <2>2. CASE ~ goes(i)
    <3>1. ValidatedAt(t, f, i) = last(i)
      BY <2>2, Zenon DEF ValidatedAt
    <3>2. from[i] = 0
      BY <1>3, <2>2
    <3> QED BY <1>1, <1>5, <3>1, <3>2 DEF Follows
  <2> QED BY <2>1, <2>2
<1> DEFINE R(g) == g = [i \in 1 .. Len(t) + 1 |-> ValidatedAt(t, g, i)]
<1>7. ValidatedFrom(t) = CHOOSE g : R(g)
  BY DEF ValidatedFrom
<1>8. R(f)
  BY <1>5, <1>6 DEF n
<1> HIDE DEF R
<1>9. R(ValidatedFrom(t))
  BY <1>7, <1>8, Zenon
<1> QED BY <1>9 DEF R

\* Digits to the end of the text are also the run of a value to its end.
LEMMA DigitsToEnd ==
  ASSUME NEW t \in Seq(Char), NEW b \in 1 .. Len(t) + 1, At(t, RunEnd(t, b, EValueChar)) = End
  PROVE  /\ RunEnd(t, b, EValueChar) = Len(t) + 1 /\ RunEnd(t, b, ValueChar) = Len(t) + 1
         /\ \A j \in b .. Len(t) : t[j] \in EValueChar
<1> DEFINE e == RunEnd(t, b, EValueChar)
           u == RunEnd(t, b, ValueChar)
<1>1. End \notin EValueChar /\ End \notin ValueChar /\ EValueChar \subseteq ValueChar
      /\ End \notin Char
  BY Classes
<1>2. e \in b .. Len(t) + 1 /\ \A j \in b .. e - 1 : j \in 1 .. Len(t) /\ t[j] \in EValueChar
  BY <1>1, RunEndIs
<1>3. u \in b .. Len(t) + 1 /\ At(t, u) \notin ValueChar
  BY <1>1, RunEndIs
<1>4. At(t, e) = End /\ Len(t) \in Nat /\ b \in Nat /\ b > 0
  OBVIOUS
<1> HIDE DEF e, u
<1>5. e = Len(t) + 1
  <2>1. e \in 1 .. Len(t) => At(t, e) \in Char
    BY <1>2, AtIs
  <2> QED BY <1>1, <1>2, <1>4, <2>1
<1>6. \A j \in b .. Len(t) : t[j] \in EValueChar
  BY <1>2, <1>4, <1>5
<1>7. u = Len(t) + 1
  <2> SUFFICES ASSUME u # Len(t) + 1 PROVE FALSE
    OBVIOUS
  <2>1. u \in b .. Len(t) /\ u \in 1 .. Len(t)
    BY <1>3, <1>4
  <2>2. At(t, u) = t[u]
    BY <2>1, AtIs
  <2> QED BY <1>1, <1>3, <1>6, <2>1, <2>2
<1> QED BY <1>5, <1>6, <1>7 DEF e, u

\* A pair that becomes one of the request's is accepted.
LEMMA ReadIsValid ==
  ASSUME NEW t \in Seq(Char), ~ EncodedGoesOn(t), NEW p \in 1 .. Len(t) + 1,
         NEW pair, pair = req_text_nv_parse(t, p), ~ pair.fails, ~ nvp(pair.is).fails
  PROVE  req_validate_nv(t, p) = Is(pair.is.next)
<1> DEFINE q == RunEnd(t, p, NameChar)
<1>0. q = RunEnd(t, p, NameChar)
  OBVIOUS
<1> HIDE DEF q
<1>1. pair # Fails
  BY Outcomes
<1>2. PICK format, value : \E next \in q .. Len(t) + 1 :
        /\ IsRead(t, q, format, value, next)
        /\ pair = Pair(SubSeq(t, p, q - 1), format, value, next)
  BY <1>0, <1>1, ParseIs
<1>3. PICK next \in q .. Len(t) + 1 : /\ IsRead(t, q, format, value, next)
                                     /\ pair = Pair(SubSeq(t, p, q - 1), format, value, next)
  BY <1>2
<1>4. q \in p .. Len(t) + 1 /\ Len(t) \in Nat /\ p \in Nat /\ p > 0
  BY <1>0, ParseIs
<1>5. pair.is.name = SubSeq(t, p, q - 1) /\ pair.is.next = next
  BY <1>3 DEF Pair, Is
<1>6. q > p
  <2>1. SubSeq(t, p, q - 1) # <<>>
    BY <1>5, NvpIs
  <2>2. SubSeq(t, p, p - 1) = <<>>
    BY <1>4
  <2>3. q # p
    BY <2>1, <2>2
  <2> QED BY <1>4, <2>3
<1>7. End \notin ValueChar /\ "quote" \notin ValueChar /\ "#" \notin ValueChar
  BY Classes
<1>8. IsValidNv(t, q, next)
  <2>1. CASE format = "unset" /\ At(t, q) \in {End, "space"} /\ next = q
    BY <2>1 DEF IsValidNv
  <2>2. CASE /\ At(t, q) = "=" /\ At(t, q + 1) = "quote"
             /\ next = RunEnd(t, q + 2, QValueChar) + 1 /\ At(t, next - 1) = "quote"
    BY <2>2 DEF IsValidNv
  <2>3. CASE /\ At(t, q) = "=" /\ At(t, q + 1) = "#"
             /\ next = RunEnd(t, q + 2, ValueChar)
    <3> DEFINE k == q + 1
               b == q + 2
    <3>1. At(t, k) # End /\ k \in Int /\ b = k + 1
      BY <1>4, <2>3 DEF End
    <3>2. At(t, k) = "#" /\ next = RunEnd(t, b, ValueChar)
      BY <2>3
    <3> HIDE DEF k, b
    <3>3. k \in 1 .. Len(t) /\ t[k] = "#"
      BY <3>1, <3>2, AtIs
    <3>4. b \in 1 .. Len(t) + 1 /\ k \in DOMAIN t
      BY <3>1, <3>3
    <3>5. At(t, RunEnd(t, b, EValueChar)) = End
      BY <3>1, <3>3, <3>4 DEF EncodedGoesOn
    <3>6. next = RunEnd(t, b, EValueChar)
      BY <3>2, <3>4, <3>5, DigitsToEnd
    <3> QED BY <2>3, <3>5, <3>6 DEF IsValidNv, b
  <2>4. CASE /\ At(t, q) = "=" /\ At(t, q + 1) \in ValueChar
             /\ next = RunEnd(t, q + 1, ValueChar) /\ At(t, next) \in {End, "space"}
    <3>1. At(t, q + 1) \notin {"quote", "#", End}
      BY <1>7, <2>4
    <3> QED BY <2>4, <3>1 DEF IsValidNv
  <2> QED BY <1>3, <2>1, <2>2, <2>3, <2>4 DEF IsRead
<1>9. next \in Int
  BY <1>4
<1> QED BY <1>0, <1>5, <1>6, <1>8, <1>9, NvValidated

\* The pairs that become the request's are accepted.
AllPairs(l) == \A k \in 1 .. Len(l) : ~ nvp(l[k]).fails

LEMMA PairsAreValid ==
  ASSUME NEW t \in Seq(Char), ~ EncodedGoesOn(t)
  PROVE  \A i \in 1 .. Len(t) + 1 :
           ~ PairsFrom(t)[i].fails /\ AllPairs(PairsFrom(t)[i].is) =>
             ValidatedFrom(t)[i] = "REQUEST_IS_VALID"
<1> DEFINE n == Len(t) + 1
           list(i) == PairsFrom(t)[i].is
           S == { i \in 1..n : ~ PairsFrom(t)[i].fails /\ AllPairs(list(i)) =>
                                 ValidatedFrom(t)[i] = "REQUEST_IS_VALID" }
<1>1. ASSUME NEW i \in 1..n, \A j \in i + 1 .. n : j \in S PROVE i \in S
  <2> SUFFICES ASSUME ~ PairsFrom(t)[i].fails, AllPairs(list(i))
               PROVE  ValidatedFrom(t)[i] = "REQUEST_IS_VALID"
    OBVIOUS
  <2> DEFINE pair == req_text_nv_parse(t, i)
             x == pair.is
             l == list(i)
             k == x.next + 1
             s == list(k)
  <2>1. /\ ~ pair.fails
        /\ \/ At(t, x.next) = End /\ l = <<x>>
           \/ /\ At(t, x.next) = "space" /\ k \in i + 1 .. n /\ ~ PairsFrom(t)[k].fails
              /\ l = <<x>> \o s
    BY PairsUnfold
  <2>2. x \in Parsed(t)
    BY <2>1 DEF Parsed
  <2>3. k \in i + 1 .. n /\ ~ PairsFrom(t)[k].fails => s \in Seq(Parsed(t))
    <3>1. k \in i + 1 .. n => k \in 1 .. Len(t) + 1
      OBVIOUS
    <3> HIDE DEF k
    <3> QED BY <3>1, PairsAreSeq
  <2>4. k \in i + 1 .. n /\ ~ PairsFrom(t)[k].fails /\ AllPairs(s) =>
          ValidatedFrom(t)[k] = "REQUEST_IS_VALID"
    BY <1>1
  <2>5. ValidatedFrom(t)[i] = ValidatedAt(t, ValidatedFrom(t), i)
    BY ValidatedFromIs
  <2>6. AllPairs(l)
    OBVIOUS
  <2> HIDE DEF l, s
  <2>7. l[1] = x /\ 1 \in 1 .. Len(l)
    <3>1. CASE l = <<x>>
      BY <3>1
    <3>2. CASE l = <<x>> \o s /\ s \in Seq(Parsed(t))
      <4> HIDE DEF x
      <4>1. l[1] = x /\ Len(l) = Len(s) + 1 /\ Len(s) \in Nat
        BY <2>2, <3>2, ConsIs
      <4> QED BY <4>1
    <3> QED BY <2>1, <2>3, <3>1, <3>2
  <2>8. ~ nvp(x).fails
    BY <2>6, <2>7 DEF AllPairs
  <2>9. req_validate_nv(t, i) = Is(x.next)
    BY <2>1, <2>8, ReadIsValid
  <2>10. ValidatedAt(t, ValidatedFrom(t), i) =
           CASE At(t, x.next) = End     -> "REQUEST_IS_VALID"
             [] At(t, x.next) = "space" -> ValidatedFrom(t)[k]
             [] OTHER                   -> "REQUEST_INVALID_SEP"
    <3> DEFINE nv == req_validate_nv(t, i)
    <3>1. ~ nv.fails /\ nv.is = x.next
      BY <2>9, Outcomes
    <3>2. ValidatedAt(t, ValidatedFrom(t), i) =
            IF nv.fails THEN nv.status
            ELSE CASE At(t, nv.is) = End     -> "REQUEST_IS_VALID"
                   [] At(t, nv.is) = "space" -> ValidatedFrom(t)[nv.is + 1]
                   [] OTHER                  -> "REQUEST_INVALID_SEP"
      BY DEF ValidatedAt
    <3> HIDE DEF nv
    <3> QED BY <3>1, <3>2
  <2> HIDE DEF x, k
  <2>11. CASE At(t, x.next) = End
    BY <2>5, <2>10, <2>11 DEF End
  <2>12. CASE /\ At(t, x.next) = "space" /\ k \in i + 1 .. n /\ ~ PairsFrom(t)[k].fails
              /\ l = <<x>> \o s
    <3>1. s \in Seq(Parsed(t))
      BY <2>3, <2>12
    <3>2. /\ Len(l) = Len(s) + 1 /\ Len(s) \in Nat
          /\ \A m \in 1 .. Len(s) : l[m + 1] = s[m]
      BY <2>2, <2>12, <3>1, ConsIs
    <3>3. AllPairs(s)
      <4> SUFFICES ASSUME NEW m \in 1 .. Len(s) PROVE ~ nvp(s[m]).fails
        BY DEF AllPairs
      <4>1. m + 1 \in 1 .. Len(l) /\ l[m + 1] = s[m]
        BY <3>2
      <4> QED BY <2>6, <4>1 DEF AllPairs
    <3>4. ValidatedFrom(t)[k] = "REQUEST_IS_VALID"
      BY <2>4, <2>12, <3>3
    <3> QED BY <2>5, <2>10, <2>12, <3>4 DEF End
  <2> QED BY <2>1, <2>11, <2>12
<1>2. n \in Nat
  OBVIOUS
<1> HIDE DEF S, n
<1>3. \A i \in 1..n : i \in S
  BY <1>1, <1>2, InductionDown
<1> QED BY <1>3 DEF S, n

\* What becomes a request is accepted, except for an encoded value that goes on
\* and an empty code.
LEMMA ConvertedIsValid ==
  ASSUME NEW t \in Seq(Char), ~ Replies(t), NEW c \in req_from_text_to_bin(t), IsIn(c),
         ~ EncodedGoesOn(t), c.is.code # <<>>
  PROVE  req_validate(t) = "REQUEST_IS_VALID"
<1> DEFINE d == CodeEndOf(t)
           l == NvList(t).is
<1>1. /\ ~ req_text_rid(t).fails /\ ~ req_text_type(t).fails /\ ~ req_text_src(t).fails
      /\ ~ req_text_dst(t).fails /\ ~ req_text_code(t).fails /\ ~ NvList(t).fails
      /\ \A i \in DOMAIN l : ~ nvp(l[i]).fails
      /\ c.is.code = req_text_code(t).is
  BY ConvertedParts
<1>2. /\ HeaderSpaced(t) /\ At(t, DstEnd(t) + 1) \notin {"space", End}
      /\ At(t, d) = "space" => d + 1 \in 1 .. Len(t) /\ NvList(t) = PairsFrom(t)[d + 1]
  BY <1>1, ConvertedHeader
<1>3. req_validate(t) = IF At(t, d) = End THEN "REQUEST_IS_VALID"
                        ELSE ValidatedFrom(t)[d + 1]
  BY <1>2, HeaderValidated
<1>4. At(t, d) \in {"space", End}
  BY <1>2 DEF HeaderSpaced
<1>5. l \in Seq(Parsed(t))
  BY <1>1, NvListIs
<1>6. AllPairs(l)
  <2>1. DOMAIN l = 1 .. Len(l)
    BY <1>5
  <2> QED BY <1>1, <2>1 DEF AllPairs
<1>7. CASE At(t, d) = "space"
  <2> DEFINE k == d + 1
  <2>1. k \in 1 .. Len(t) /\ NvList(t) = PairsFrom(t)[k]
    BY <1>2, <1>7
  <2> HIDE DEF k
  <2>2. k \in 1 .. Len(t) + 1
    BY <2>1
  <2>3. ValidatedFrom(t)[k] = "REQUEST_IS_VALID"
    BY <1>1, <1>6, <2>1, <2>2, PairsAreValid
  <2> QED BY <1>3, <2>3 DEF k
<1>8. CASE At(t, d) = End
  BY <1>3, <1>8
<1> QED BY <1>4, <1>7, <1>8

\* What can be converted is accepted by req_validate.
THEOREM ConvertedIsAccepted == Spec => []ConvertedValidates
<1>1. RInv => ConvertedValidates
  <2> SUFFICES ASSUME RInv, pc = "converted", ~ Replies(wire), IsIn(copy),
                      ~ EncodedGoesOn(wire), copy.is.code # <<>>
               PROVE  req_validate(wire) = "REQUEST_IS_VALID"
    BY DEF ConvertedValidates
  <2>1. wire \in Seq(Char) /\ copy \in req_from_text_to_bin(wire)
    BY DEF RInv, TInv
  <2> QED BY <2>1, ConvertedIsValid
<1> QED BY <1>1, RInvAlways, PTL
-----------------------------------------------------------------------------
(***************************************************************************)
(* A text that is valid is converted.                                      *)
(***************************************************************************)

\* A pair with a name becomes one of the request's if its value can be decoded.
LEMMA NvpWorks ==
  ASSUME NEW x, x.name # <<>>, x.format = "encoded" => ~ nvp_value_decode(x.value).fails
  PROVE  ~ nvp(x).fails
<1> DEFINE value == IF x.format = "encoded" THEN nvp_value_decode(x.value) ELSE Is(x.value)
           whole == [name |-> x.name, value |-> value.is]
<1>1. nvp(x) = IF x.name = <<>> \/ value.fails THEN Fails ELSE Is(whole)
  BY DEF nvp
<1>2. ~ value.fails
  BY Outcomes DEF value
<1> HIDE DEF value, whole
<1> QED BY <1>1, <1>2, Outcomes

\* As many pairs of digits as there are can be decoded.
LEMMA DigitsDecode ==
  ASSUME NEW h \in Seq(EValueChar), Len(h) % 2 # 1
  PROVE  ~ nvp_value_decode(h).fails
<1> DEFINE n == Len(h)
           m == n \div 2
           w == [i \in 1 .. m |-> OfAscii(Byte(h[2 * i - 1], h[2 * i]))]
<1>1. nvp_value_decode(h) =
        IF n % 2 = 1 \/ \E i \in 1 .. m : ~ IsHex(h[2 * i - 1]) THEN Fails ELSE Is(w)
  BY DEF nvp_value_decode
<1>2. n \in Nat
  OBVIOUS
<1>3. ASSUME NEW i \in 1 .. m PROVE IsHex(h[2 * i - 1])
  <2>1. 2 * i - 1 \in 1 .. n
    <3> HIDE DEF n
    <3> QED BY <1>2
  <2>2. h[2 * i - 1] \in EValueChar
    BY <2>1
  <2>3. EValueChar \subseteq Range(HexDigits \o LowerHex)
    BY EValueCharIs, HexLikeIs DEF HexLike
  <2> QED BY <2>2, <2>3 DEF IsHex
<1>4. n % 2 # 1
  OBVIOUS
<1> HIDE DEF n, m, w
<1> QED BY <1>1, <1>3, <1>4, Outcomes

\* A pair that is accepted becomes one of the request's, and ends where it was
\* said to end, unless its value is missing after the "=" or is half a byte too long.
LEMMA ValidIsRead ==
  ASSUME NEW t \in Seq(Char), ~ EmptyValue(t), ~ OddDigits(t), NEW p \in 1 .. Len(t) + 1,
         NEW o, o = req_validate_nv(t, p), ~ o.fails
  PROVE  \E x : req_text_nv_parse(t, p) = Is(x) /\ x.next = o.is /\ ~ nvp(x).fails
<1> DEFINE q == RunEnd(t, p, NameChar)
           next == o.is
           v == q + 1
           name == Run(t, p, NameChar)
<1>0. q = RunEnd(t, p, NameChar) /\ next = o.is /\ v = q + 1 /\ name = Run(t, p, NameChar)
  OBVIOUS
<1> HIDE DEF q, next
<1>1. q > p /\ next \in q .. Len(t) + 1 /\ IsValidNv(t, q, next)
  BY <1>0, NvValidated
<1>2. /\ q \in p .. Len(t) + 1 /\ Len(t) \in Nat /\ p \in Nat /\ p > 0
      /\ \A j \in p .. q - 1 : j \in 1 .. Len(t) /\ t[j] \in NameChar
  <2>1. End \notin NameChar
    BY Classes
  <2> QED BY <1>0, <2>1, RunEndIs
<1>3. name # <<>>
  <2>1. name = SubSeq(t, p, q - 1)
    BY <1>0 DEF Run
  <2>2. Len(SubSeq(t, p, q - 1)) = q - p
    BY <1>1, <1>2
  <2>3. Len(<<>>) = 0
    OBVIOUS
  <2> HIDE DEF name
  <2> QED BY <1>1, <1>2, <2>1, <2>2, <2>3
<1>4. v - 1 = q /\ v \in Int /\ v + 1 = q + 2
  BY <1>2
<1>5. ASSUME NEW format, NEW value, NEW e, e = next,
             req_text_nv_parse(t, p) = Pair(name, format, value, e),
             format = "encoded" => ~ nvp_value_decode(value).fails
      PROVE  \E x : req_text_nv_parse(t, p) = Is(x) /\ x.next = o.is /\ ~ nvp(x).fails
  <2> DEFINE x == [name |-> name, format |-> format, value |-> value, next |-> e]
  <2>1. req_text_nv_parse(t, p) = Is(x)
    BY <1>5 DEF Pair
  <2>2. x.name = name /\ x.format = format /\ x.value = value /\ x.next = e
    OBVIOUS
  <2> HIDE DEF x, name
  <2>3. ~ nvp(x).fails
    BY <1>3, <1>5, <2>2, NvpWorks
  <2> QED BY <1>0, <1>5, <2>1, <2>2, <2>3
<1> HIDE DEF v, name
<1>6. CASE At(t, q) \in {End, "space"} /\ next = q
  <2>1. req_text_nv_parse(t, p) = Pair(name, "unset", <<>>, v - 1)
    BY <1>0, <1>2, <1>4, <1>6, ParseArms
  <2>2. v - 1 = next
    BY <1>4, <1>6
  <2> QED BY <1>5, <2>1, <2>2
<1>7. CASE /\ At(t, q) = "=" /\ At(t, q + 1) = "quote"
           /\ next = RunEnd(t, q + 2, QValueChar) + 1 /\ At(t, next - 1) = "quote"
  <2> DEFINE close == RunEnd(t, v + 1, QValueChar)
  <2>1. close = RunEnd(t, v + 1, QValueChar) /\ next = close + 1
    BY <1>4, <1>7
  <2> HIDE DEF close
  <2>2. v \in 1 .. Len(t)
    <3>1. At(t, v) # End
      BY <1>0, <1>7 DEF End
    <3> QED BY <1>4, <3>1, AtIs
  <2>3. close \in Int
    <3>1. v + 1 \in 1 .. Len(t) + 1 /\ End \notin QValueChar
      BY <1>2, <2>2, Classes
    <3> QED BY <2>1, <3>1, RunEndIs
  <2>4. At(t, close) = "quote" /\ At(t, v - 1) = "=" /\ At(t, v) = "quote"
    <3>1. next - 1 = close
      BY <2>1, <2>3
    <3> QED BY <1>0, <1>4, <1>7, <3>1
  <2>5. req_text_nv_parse(t, p) = Pair(name, "quoted", SubSeq(t, v + 1, close - 1), close + 1)
    <3>1. RunEnd(t, v + 1, QValueChar) = close
      BY <2>1
    <3>2. p \in Nat /\ v = RunEnd(t, p, NameChar) + 1 /\ v - 1 \in Int
      BY <1>0, <1>2, <1>4
    <3> QED BY <1>0, <2>3, <2>4, <3>1, <3>2, ParseArms
  <2> QED BY <1>5, <2>1, <2>5
<1>8. CASE /\ At(t, q) = "=" /\ At(t, q + 1) = "#"
           /\ next = RunEnd(t, q + 2, EValueChar) /\ At(t, next) = End
  <2> DEFINE b == v + 1
             h == SubSeq(t, b, next - 1)
  <2>1. At(t, v - 1) = "=" /\ At(t, v) = "#" /\ next = RunEnd(t, b, EValueChar)
    BY <1>0, <1>4, <1>8
  <2>2. v \in 1 .. Len(t) /\ t[v] = "#"
    <3>1. At(t, v) # End
      BY <2>1 DEF End
    <3> QED BY <1>4, <2>1, <3>1, AtIs
  <2>3. b \in 1 .. Len(t) + 1 /\ v \in DOMAIN t /\ b = v + 1 /\ b \in Nat /\ v \in Nat
    BY <1>2, <2>2
  <2> HIDE DEF b
  <2>4. /\ next = Len(t) + 1 /\ RunEnd(t, b, ValueChar) = Len(t) + 1
        /\ \A j \in b .. Len(t) : t[j] \in EValueChar
    BY <1>8, <2>1, <2>3, DigitsToEnd
  <2>5. req_text_nv_parse(t, p) = Pair(name, "encoded", h, next)
    <3>1. RunEnd(t, v + 1, ValueChar) = next /\ next \in Int /\ At(t, next) \in {End, "space"}
      BY <1>1, <1>8, <2>3, <2>4
    <3>2. req_text_nv_parse(t, p) = Pair(name, "encoded", SubSeq(t, v + 1, next - 1), next)
      BY <1>0, <1>2, <1>4, <2>1, <3>1, ParseArms
    <3> QED BY <2>3, <3>2
  <2>6. ~ nvp_value_decode(h).fails
    <3>1. h \in Seq(EValueChar) /\ Len(h) = next - b
      <4> DEFINE n == Len(t)
      <4>1. n \in Nat /\ b \in 1 .. n + 1 /\ next - 1 = n /\ next = n + 1
        BY <1>2, <2>3, <2>4
      <4>2. h = SubSeq(t, b, n)
        BY <4>1
      <4>3. /\ SubSeq(t, b, n) = [i \in 1 .. n - b + 1 |-> t[b + i - 1]]
            /\ Len(SubSeq(t, b, n)) = n - b + 1
        BY <2>3, <4>1
      <4>4. \A j \in b .. n : t[j] \in EValueChar
        BY <2>4
      <4> HIDE DEF n, h
      <4> DEFINE m == n - b + 1
                 w == [i \in 1 .. m |-> t[b + i - 1]]
      <4>5. ASSUME NEW i \in 1 .. m PROVE t[b + i - 1] \in EValueChar
        <5>1. i \in Nat /\ 1 <= i /\ i <= n - b + 1 /\ b \in Nat /\ n \in Nat
          BY <2>3, <4>1
        <5> HIDE DEF m
        <5>2. b + i - 1 \in b .. n
          BY <5>1
        <5> QED BY <4>4, <5>2
      <4>6. m \in Nat /\ m = next - b
        BY <2>3, <4>1
      <4>7. SubSeq(t, b, n) = w
        BY <4>3
      <4> HIDE DEF m
      <4>8. w \in [1 .. m -> EValueChar]
        BY <4>5
      <4> HIDE DEF w
      <4>9. w \in Seq(EValueChar)
        BY <4>6, <4>8
      <4>10. Len(SubSeq(t, b, n)) = m
        BY <4>3 DEF m
      <4> QED BY <4>2, <4>6, <4>7, <4>9, <4>10
    <3>2. (next - v) % 2 # 0
      <4>1. RunEnd(t, v + 1, EValueChar) = next
        BY <2>1, <2>3
      <4> QED BY <2>2, <2>3, <4>1 DEF OddDigits
    <3>3. Len(h) % 2 # 1
      <4> DEFINE len == Len(h)
                 d == next - v
      <4>0. len = next - b
        BY <3>1
      <4> HIDE DEF len, h
      <4>1. d \in Nat /\ d % 2 # 0
        BY <1>2, <2>2, <2>3, <2>4, <3>2
      <4>e. len = d - 1 /\ d \in Nat \ {0}
        <5> DEFINE n == Len(t)
        <5>1. n \in Nat /\ next = n + 1 /\ v \in 1 .. n /\ b = v + 1
          BY <1>2, <2>2, <2>3, <2>4
        <5> HIDE DEF n
        <5> QED BY <4>0, <5>1
      <4> HIDE DEF d
      <4>2. len % 2 # 1
        BY <4>1, <4>e
      <4> QED BY <4>2 DEF len
    <3> QED BY <3>1, <3>3, DigitsDecode
  <2> QED BY <1>5, <2>5, <2>6
<1>9. CASE /\ At(t, q) = "=" /\ At(t, q + 1) \notin {"quote", "#", End}
           /\ next = RunEnd(t, q + 1, ValueChar) /\ At(t, next) \in {End, "space"}
  <2>1. At(t, v - 1) = "=" /\ next = RunEnd(t, v, ValueChar) /\ next \in Int
    BY <1>0, <1>1, <1>2, <1>4, <1>9
  <2>2. v \in 1 .. Len(t)
    BY <1>0, <1>4, <1>9, AtIs
  <2>3. At(t, v) # "space"
    <3>1. q \in 1 .. Len(t) /\ t[q] = "="
      <4>1. At(t, q) # End /\ q \in Int
        BY <1>2, <1>9 DEF End
      <4> QED BY <1>9, <4>1, AtIs
    <3>2. q \in DOMAIN t
      BY <3>1
    <3> QED BY <1>0, <3>1, <3>2 DEF EmptyValue
  <2>4. At(t, v) \in ValueChar
    <3> SUFFICES ASSUME At(t, v) \notin ValueChar PROVE FALSE
      OBVIOUS
    <3>1. v \in 1 .. Len(t) + 1 /\ End \notin ValueChar
      BY <1>2, <2>2, Classes
    <3>2. next \in v .. Len(t) + 1 /\ \A j \in v .. next - 1 : t[j] \in ValueChar
      BY <2>1, <3>1, RunEndIs
    <3>3. next = v
      <4> SUFFICES ASSUME next # v PROVE FALSE
        OBVIOUS
      <4>1. v \in v .. next - 1
        BY <1>4, <3>2
      <4>2. At(t, v) = t[v]
        BY <2>2, <1>4, AtIs
      <4> QED BY <3>2, <4>1, <4>2
    <3> QED BY <1>0, <1>9, <2>3, <3>3
  <2>5. req_text_nv_parse(t, p) = Pair(name, "unquoted", SubSeq(t, v, next - 1), next)
    BY <1>0, <1>2, <1>4, <1>9, <2>1, <2>4, ParseArms
  <2> QED BY <1>5, <2>5
<1> QED BY <1>1, <1>6, <1>7, <1>8, <1>9 DEF IsValidNv

\* The pairs that are accepted can be read, and become the request's.
LEMMA ValidPairsRead ==
  ASSUME NEW t \in Seq(Char), ~ EmptyValue(t), ~ OddDigits(t)
  PROVE  \A i \in 1 .. Len(t) + 1 :
           ValidatedFrom(t)[i] = "REQUEST_IS_VALID" =>
             ~ PairsFrom(t)[i].fails /\ AllPairs(PairsFrom(t)[i].is)
<1> DEFINE n == Len(t) + 1
           S == { i \in 1..n : ValidatedFrom(t)[i] = "REQUEST_IS_VALID" =>
                                 ~ PairsFrom(t)[i].fails /\ AllPairs(PairsFrom(t)[i].is) }
<1>1. ASSUME NEW i \in 1..n, \A j \in i + 1 .. n : j \in S PROVE i \in S
  <2> SUFFICES ASSUME ValidatedFrom(t)[i] = "REQUEST_IS_VALID"
               PROVE  ~ PairsFrom(t)[i].fails /\ AllPairs(PairsFrom(t)[i].is)
    OBVIOUS
  <2> DEFINE nv == req_validate_nv(t, i)
             pair == req_text_nv_parse(t, i)
             from == PairsFrom(t)
             k == nv.is + 1
  <2>1. ValidatedFrom(t)[i] =
          IF nv.fails THEN nv.status
          ELSE CASE At(t, nv.is) = End     -> "REQUEST_IS_VALID"
                 [] At(t, nv.is) = "space" -> ValidatedFrom(t)[k]
                 [] OTHER                  -> "REQUEST_INVALID_SEP"
    BY ValidatedFromIs DEF ValidatedAt
  <2>2. ~ nv.fails /\ nv.is \in i .. n
    <3> DEFINE q == RunEnd(t, i, NameChar)
    <3>1. q = RunEnd(t, i, NameChar)
      OBVIOUS
    <3> HIDE DEF q, nv
    <3>2. \/ nv.fails /\ nv.status # "REQUEST_IS_VALID"
          \/ q > i /\ nv.is \in q .. Len(t) + 1 /\ nv = Is(nv.is)
      BY <3>1, NvValidated DEF nv
    <3>3. q \in i .. Len(t) + 1
      <4>1. End \notin NameChar
        BY Classes
      <4> QED BY <3>1, <4>1, RunEndIs
    <3>4. ~ (nv.fails /\ nv.status # "REQUEST_IS_VALID")
      BY <2>1
    <3>5. ~ nv.fails
      BY <3>2, <3>4, Outcomes
    <3> QED BY <3>2, <3>3, <3>4, <3>5
  <2>3. PICK x : pair = Is(x) /\ x.next = nv.is /\ ~ nvp(x).fails
    BY <2>2, ValidIsRead
  <2>4. ~ pair.fails /\ pair.is = x
    BY <2>3, Outcomes
  <2>5. from[i] = PairsAt(t, from, i)
    BY PairsFromIs
  <2>6. from[i] = CASE At(t, nv.is) = End     -> Is(<<x>>)
                    [] At(t, nv.is) = "space" ->
                         (IF from[k].fails THEN Fails ELSE Is(<<x>> \o from[k].is))
                    [] OTHER                  -> Fails
    <3>1. PairsAt(t, from, i) =
            IF pair.fails THEN Fails
            ELSE CASE At(t, pair.is.next) = End     -> Is(<<pair.is>>)
                   [] At(t, pair.is.next) = "space" ->
                        (IF from[pair.is.next + 1].fails THEN Fails
                         ELSE Is(<<pair.is>> \o from[pair.is.next + 1].is))
                   [] OTHER                         -> Fails
      BY DEF PairsAt
    <3> HIDE DEF pair, nv, from
    <3> QED BY <2>3, <2>4, <2>5, <3>1 DEF k
  <2>7. x \in Parsed(t)
    BY <2>4 DEF Parsed
  <2>e. End # "space"
    BY DEF End
  <2> HIDE DEF nv, pair
  <2>8. CASE At(t, nv.is) = End
    <3>1. from[i] = Is(<<x>>)
      <4> HIDE DEF from, k
      <4> QED BY <2>6, <2>8, <2>e
    <3>2. ~ from[i].fails /\ from[i].is = <<x>>
      BY <3>1, Outcomes
    <3>3. AllPairs(<<x>>)
      BY <2>3 DEF AllPairs
    <3> QED BY <3>2, <3>3 DEF from
  <2>9. CASE At(t, nv.is) = "space"
    <3> DEFINE s == from[k].is
    <3>1. k \in i + 1 .. n /\ k \in 1 .. Len(t) + 1
      <4>1. nv.is \in Int /\ nv.is >= i
        BY <2>2
      <4>2. nv.is \in 1 .. Len(t)
        BY <2>9, <2>e, <4>1, AtIs
      <4> QED BY <4>1, <4>2
    <3>2. ValidatedFrom(t)[k] = "REQUEST_IS_VALID"
      BY <2>1, <2>2, <2>9, <2>e
    <3>3. ~ from[k].fails /\ AllPairs(s)
      BY <1>1, <3>1, <3>2
    <3> HIDE DEF k
    <3>4. s \in Seq(Parsed(t))
      BY <3>1, <3>3, PairsAreSeq
    <3>5. from[i] = Is(<<x>> \o s)
      <4> HIDE DEF from
      <4> QED BY <2>6, <2>9, <2>e, <3>3
    <3> HIDE DEF s
    <3>6. ~ from[i].fails /\ from[i].is = <<x>> \o s
      BY <3>5, Outcomes
    <3>7. AllPairs(<<x>> \o s)
      <4> DEFINE l == <<x>> \o s
      <4>1. /\ Len(l) = Len(s) + 1 /\ Len(s) \in Nat /\ l[1] = x
            /\ \A j \in 1 .. Len(s) : l[j + 1] = s[j]
        BY <2>7, <3>4, ConsIs
      <4> HIDE DEF l
      <4>2. ASSUME NEW m \in 1 .. Len(l) PROVE ~ nvp(l[m]).fails
        <5>1. CASE m = 1
          BY <2>3, <4>1, <5>1
        <5>2. CASE m # 1
          <6>1. m - 1 \in 1 .. Len(s) /\ (m - 1) + 1 = m
            BY <4>1, <5>2
          <6>2. l[m] = s[m - 1]
            BY <4>1, <6>1
          <6> QED BY <3>3, <6>1, <6>2 DEF AllPairs
        <5> QED BY <5>1, <5>2
      <4> QED BY <4>2 DEF AllPairs, l
    <3> QED BY <3>6, <3>7 DEF from
  <2>10. At(t, nv.is) \in {End, "space"}
    <3> SUFFICES ASSUME At(t, nv.is) \notin {End, "space"} PROVE FALSE
      OBVIOUS
    <3>1. ValidatedFrom(t)[i] = "REQUEST_INVALID_SEP"
      BY <2>1, <2>2
    <3> QED BY <3>1
  <2> QED BY <2>8, <2>9, <2>10
<1>2. n \in Nat
  OBVIOUS
<1> HIDE DEF S, n
<1>3. \A i \in 1..n : i \in S
  BY <1>1, <1>2, InductionDown
<1> QED BY <1>3 DEF S, n

\* The characters of the words of a header.
LEMMA WordChars ==
  /\ RidChar \subseteq CodeChar /\ ModChar \subseteq CodeChar
  /\ "=" \notin CodeChar /\ End \notin CodeChar /\ "=" # "space"
<1>1. ModChar = HexLike \cup {"R", "r"} /\ CodeChar = HexLike \cup {"R", "r", ".", "under"}
  BY AlnumIs DEF ModChar, CodeChar
<1>2. RidChar \subseteq HexLike /\ "=" \notin HexLike
  BY RidCharIs DEF HexLike, TenDigits, HexLetters, LowLetters
<1>3. End \notin CodeChar
  BY Classes
<1> HIDE DEF HexLike
<1> QED BY <1>1, <1>2, <1>3

\* No word of a header is too long.
LEMMA WordIsShort ==
  ASSUME NEW t \in Seq(Char), ~ LongWord(t), NEW p \in 1 .. Len(t) + 1,
         \A k \in 1 .. p - 1 : t[k] # "=",
         NEW class, class \subseteq CodeChar, NEW q, q = RunEnd(t, p, class)
  PROVE  q - p <= ReqModSize /\ q - p <= ReqCodeSize
<1> DEFINE u == RunEnd(t, p, CodeChar)
           s == {ReqModSize, ReqCodeSize}
<1>1. End \notin class /\ End \notin CodeChar /\ "=" \notin class
  BY WordChars
<1>2. q \in p .. Len(t) + 1 /\ \A j \in p .. q - 1 : j \in 1 .. Len(t) /\ t[j] \in class
  BY <1>1, RunEndIs
<1>3. u \in p .. Len(t) + 1 /\ At(t, u) \notin CodeChar
  BY <1>1, RunEndIs
<1>4. s \subseteq Nat /\ s # {} /\ ReqModSize \in Nat /\ ReqCodeSize \in Nat
  BY ReqTextAssumption
<1>5. Min(s) \in Nat /\ Min(s) <= ReqModSize /\ Min(s) <= ReqCodeSize
  <2>1. Min(s) \in s /\ \A x \in s : Min(s) <= x
    <3> HIDE DEF s
    <3> QED BY <1>4, MinExists
  <2> QED BY <1>4, <2>1
<1>6. Len(t) \in Nat /\ p \in Nat /\ p > 0
  OBVIOUS
<1> HIDE DEF u
<1>7. q <= u
  <2> SUFFICES ASSUME u < q PROVE FALSE
    BY <1>2, <1>3
  <2>1. u \in p .. q - 1
    BY <1>2, <1>3
  <2>2. u \in 1 .. Len(t) /\ t[u] \in class
    BY <1>2, <2>1
  <2>3. At(t, u) = t[u]
    BY <2>2, AtIs
  <2> QED BY <1>3, <2>2, <2>3
<1>8. CASE q = p
  BY <1>4, <1>6, <1>8
<1>9. CASE q # p
  <2>1. p \in 1 .. Len(t) /\ t[p] \in class
    <3>1. p \in p .. q - 1
      BY <1>2, <1>6, <1>9
    <3> QED BY <1>2, <3>1
  <2>2. \A k \in 1 .. p : t[k] # "="
    <3> SUFFICES ASSUME NEW k \in 1 .. p PROVE t[k] # "="
      OBVIOUS
    <3>1. k \in 1 .. p - 1 \/ k = p
      BY <1>6
    <3> QED BY <1>1, <2>1, <3>1
  <2>3. p \in DOMAIN t
    BY <2>1
  <2>4. ~ (u - p > Min(s))
    BY <2>2, <2>3 DEF LongWord, u
  <2> HIDE DEF s
  <2> QED BY <1>2, <1>3, <1>4, <1>5, <1>6, <1>7, <2>4
<1> QED BY <1>8, <1>9

\* What is valid has an id and a type, three words and a list that can be found, and
\* pairs that become the request's.
LEMMA ValidParts ==
  ASSUME NEW t \in Seq(Char), ~ Replies(t), req_validate(t) = "REQUEST_IS_VALID",
         At(t, 1) \in RidChar, ~ EmptyValue(t), ~ OddDigits(t), ~ LongWord(t)
  PROVE  /\ ~ req_text_rid(t).fails /\ ~ req_text_type(t).fails /\ ~ req_text_src(t).fails
         /\ ~ req_text_dst(t).fails /\ ~ req_text_code(t).fails /\ ~ NvList(t).fails
         /\ \A i \in DOMAIN NvList(t).is : ~ nvp(NvList(t).is[i]).fails
<1> DEFINE a == IdEnd(t)
           b == SrcEnd(t)
           c == DstEnd(t)
           d == CodeEndOf(t)
           n == Len(t)
<1>h. /\ a = RunEnd(t, 1, RidChar) /\ b = RunEnd(t, a + 1, ModChar)
      /\ c = RunEnd(t, b + 1, ModChar) /\ d = RunEnd(t, c + 1, CodeChar)
  BY DEF IdEnd, SrcEnd, DstEnd, CodeEndOf
<1>n. n \in Nat /\ n = Len(t)
  OBVIOUS
<1> HIDE DEF a, b, c, d, n
<1>1. /\ At(t, a) = "space" /\ At(t, b) = "space" /\ At(t, c) = "space"
      /\ a + 1 \in 1..n /\ b + 1 \in 1..n /\ At(t, d) \in {"space", End}
      /\ HeaderSpaced(t) /\ At(t, c + 1) \notin {"space", End}
  BY ValidHeader DEF HeaderSpaced, a, b, c, d, n
<1>2. /\ a \in 1..n /\ \A j \in 1 .. a - 1 : t[j] \in RidChar
  BY <1>1, SourcePlaces DEF a, n
<1>3. /\ a + 1 <= n => req_text_token_seek(t, "MODSRC") = a + 1
      /\ \A j \in a + 1 .. b - 1 : t[j] \in ModChar
      /\ b \in 1..n
  BY <1>1, DestinationPlaces DEF a, b, n
<1>4. /\ b + 1 <= n => req_text_token_seek(t, "MODDST") = b + 1
      /\ \A j \in b + 1 .. c - 1 : t[j] \in ModChar
      /\ c \in 1..n /\ c + 1 \in 1 .. n + 1
  BY <1>1, CodePlaces DEF a, b, c, n
<1>5. /\ req_text_token_seek(t, "CODE") = c + 1
      /\ At(t, d) = End => req_text_token_seek(t, "NVL") = n + 1
      /\ At(t, d) = "space" =>
           /\ d \in 1..n /\ d + 1 \in 1 .. n + 1
           /\ d + 1 <= n => req_text_token_seek(t, "NVL") = d + 1
  BY <1>1, ListPlaces DEF a, b, c, d, n
<1>6. t[a] = "space" /\ t[b] = "space" /\ t[c] = "space"
  <2>1. \A i \in 1..n : At(t, i) = t[i]
    BY <1>n, AtIs
  <2> QED BY <1>1, <1>2, <1>3, <1>4, <2>1
<1>7. /\ \A k \in 1 .. a : t[k] # "="
      /\ \A k \in 1 .. b : t[k] # "="
      /\ \A k \in 1 .. c : t[k] # "="
  <2>1. ASSUME NEW k \in 1 .. a PROVE t[k] # "="
    <3>1. k \in 1 .. a - 1 \/ k = a
      BY <1>2
    <3> QED BY <1>2, <1>6, <3>1, WordChars
  <2>2. ASSUME NEW k \in 1 .. b PROVE t[k] # "="
    <3>1. k \in 1 .. a \/ k \in a + 1 .. b - 1 \/ k = b
      BY <1>2, <1>3
    <3> QED BY <1>3, <1>6, <2>1, <3>1, WordChars
  <2>3. ASSUME NEW k \in 1 .. c PROVE t[k] # "="
    <3>1. k \in 1 .. b \/ k \in b + 1 .. c - 1 \/ k = c
      BY <1>3, <1>4
    <3> QED BY <1>4, <1>6, <2>2, <3>1, WordChars
  <2> QED BY <2>1, <2>2, <2>3
<1>8. ~ req_text_rid(t).fails
  <2> DEFINE s == SubSeq(t, 1, Min({a - 1, ReqIdSize}))
  <2>1. req_text_rid(t) =
          IF a = 1 \/ (a <= ReqIdSize /\ At(t, a) \notin ReplyChar \cup {"space"})
          THEN Fails ELSE Is(IdOfText(s))
    BY <1>h DEF req_text_rid
  <2>2. a # 1
    BY <1>1, Classes
  <2> HIDE DEF s
  <2> QED BY <1>1, <2>1, <2>2, Outcomes
<1>9. ~ req_text_type(t).fails
  <2>1. req_text_type(t) = CASE At(t, a) \in ReplyChar -> Is("REPLY")
                             [] At(t, a) = "space"     -> Is("REQUEST")
                             [] OTHER                  -> Fails
    BY <1>h DEF req_text_type
  <2>2. "space" \notin ReplyChar
    BY Classes
  <2> QED BY <1>1, <2>1, <2>2, Outcomes
<1>10. ASSUME NEW tok, NEW p, p - 1 \in 1..n, req_text_token_seek(t, tok) = p,
              \A k \in 1 .. p - 1 : t[k] # "=", NEW class, class \subseteq CodeChar, NEW q,
              q = RunEnd(t, p, class), NEW ends, At(t, q) \in ends,
              NEW size \in {ReqModSize, ReqCodeSize}, p \in Int
       PROVE  ~ Word(t, tok, class, ends, size).fails
  <2>1. p \in 1 .. Len(t) + 1 /\ p # 0
    BY <1>n, <1>10
  <2>2. q - p <= size
    BY <1>10, <2>1, WordIsShort
  <2>3. Word(t, tok, class, ends, size) =
          IF At(t, q) \in ends /\ q - p <= size THEN Is(SubSeq(t, p, q - 1)) ELSE Fails
    BY <1>10, <2>1, WordPlaces
  <2> QED BY <1>10, <2>2, <2>3, Outcomes
<1>11. ~ req_text_src(t).fails
  <2> DEFINE p == a + 1
             ends == {"space"}
  <2>1. /\ p - 1 \in 1..n /\ req_text_token_seek(t, "MODSRC") = p /\ p \in Int
        /\ b = RunEnd(t, p, ModChar) /\ At(t, b) \in ends
        /\ \A k \in 1 .. p - 1 : t[k] # "="
    BY <1>h, <1>1, <1>2, <1>3, <1>7
  <2>2. req_text_src(t) = Word(t, "MODSRC", ModChar, ends, ReqModSize)
    BY DEF req_text_src
  <2> HIDE DEF p, ends
  <2> QED BY <1>10, <2>1, <2>2, WordChars
<1>12. ~ req_text_dst(t).fails
  <2> DEFINE p == b + 1
             ends == {"space"}
  <2>1. /\ p - 1 \in 1..n /\ req_text_token_seek(t, "MODDST") = p /\ p \in Int
        /\ c = RunEnd(t, p, ModChar) /\ At(t, c) \in ends
        /\ \A k \in 1 .. p - 1 : t[k] # "="
    BY <1>h, <1>1, <1>3, <1>4, <1>7
  <2>2. req_text_dst(t) = Word(t, "MODDST", ModChar, ends, ReqModSize)
    BY DEF req_text_dst
  <2> HIDE DEF p, ends
  <2> QED BY <1>10, <2>1, <2>2, WordChars
<1>13. ~ req_text_code(t).fails
  <2> DEFINE p == c + 1
             ends == {"space", End}
  <2>1. /\ p - 1 \in 1..n /\ req_text_token_seek(t, "CODE") = p /\ p \in Int
        /\ d = RunEnd(t, p, CodeChar) /\ At(t, d) \in ends
        /\ \A k \in 1 .. p - 1 : t[k] # "="
    BY <1>h, <1>1, <1>4, <1>5, <1>7
  <2>2. req_text_code(t) = Word(t, "CODE", CodeChar, ends, ReqCodeSize)
    BY DEF req_text_code
  <2> HIDE DEF p, ends
  <2> QED BY <1>10, <2>1, <2>2
<1>14. req_validate(t) = IF At(t, d) = End THEN "REQUEST_IS_VALID" ELSE ValidatedFrom(t)[d + 1]
  BY <1>1, HeaderValidated DEF c, d
<1>15. ~ NvList(t).fails /\ \A i \in DOMAIN NvList(t).is : ~ nvp(NvList(t).is[i]).fails
  <2> DEFINE p == req_text_token_seek(t, "NVL")
             k == d + 1
  <2>1. NvList(t) = IF p = 0 THEN Fails
                    ELSE IF At(t, p) = End THEN Is(<<>>) ELSE PairsFrom(t)[p]
    BY DEF NvList, req_text_nv_list
  <2>2. CASE At(t, d) = End
    <3>1. p = n + 1 /\ p # 0 /\ p \in Int
      BY <1>n, <1>5, <2>2
    <3> HIDE DEF p
    <3>2. At(t, p) = End
      BY <1>n, <3>1, AtIs
    <3>3. NvList(t) = Is(<<>>)
      BY <2>1, <3>1, <3>2
    <3>4. ~ NvList(t).fails /\ NvList(t).is = <<>>
      BY <3>3, Outcomes
    <3>5. DOMAIN <<>> = {}
      OBVIOUS
    <3> QED BY <3>4, <3>5
  <2>3. CASE At(t, d) = "space"
    <3>1. k \in 1 .. Len(t) + 1 /\ (k <= n => p = k) /\ k \in Int
      BY <1>n, <1>5, <2>3
    <3>2. ValidatedFrom(t)[k] = "REQUEST_IS_VALID"
      BY <1>14, <2>3 DEF End
    <3> HIDE DEF p, k
    <3>3. k \in 1..n
      <4> SUFFICES ASSUME k = Len(t) + 1 PROVE FALSE
        BY <1>n, <3>1
      <4> DEFINE nv == req_validate_nv(t, k)
                 q == RunEnd(t, k, NameChar)
      <4>1. q \in k .. Len(t) + 1
        <5>1. End \notin NameChar
          BY Classes
        <5> QED BY <3>1, <5>1, RunEndIs
      <4>2. ~ (q > k)
        BY <1>n, <4>1
      <4>3. q = RunEnd(t, k, NameChar) /\ nv = req_validate_nv(t, k)
        OBVIOUS
      <4> HIDE DEF nv, q
      <4>4. nv.fails /\ nv.status # "REQUEST_IS_VALID"
        BY <3>1, <4>2, <4>3, NvValidated
      <4>5. ValidatedFrom(t)[k] = ValidatedAt(t, ValidatedFrom(t), k)
        BY <3>1, ValidatedFromIs
      <4>6. ValidatedAt(t, ValidatedFrom(t), k) = nv.status
        BY <4>3, <4>4 DEF ValidatedAt
      <4> QED BY <3>2, <4>4, <4>5, <4>6
    <3>4. At(t, k) # End /\ p = k /\ p # 0
      <4>1. At(t, k) \in Char
        BY <1>n, <3>1, <3>3, AtIs
      <4> QED BY <1>n, <3>1, <3>3, <4>1, Classes
    <3>5. NvList(t) = PairsFrom(t)[k]
      BY <2>1, <3>4
    <3>6. ~ PairsFrom(t)[k].fails /\ AllPairs(PairsFrom(t)[k].is)
      BY <3>1, <3>2, ValidPairsRead
    <3>7. PairsFrom(t)[k].is \in Seq(Parsed(t))
      BY <3>1, <3>6, PairsAreSeq
    <3> DEFINE l == PairsFrom(t)[k].is
    <3>8. DOMAIN l = 1 .. Len(l)
      BY <3>7
    <3> HIDE DEF l
    <3>9. \A i \in DOMAIN l : ~ nvp(l[i]).fails
      BY <3>6, <3>8 DEF AllPairs, l
    <3> QED BY <3>5, <3>6, <3>9 DEF l
  <2> QED BY <1>1, <2>2, <2>3
<1> QED BY <1>8, <1>9, <1>11, <1>12, <1>13, <1>15

\* The outcomes of the conversion of a text whose parts were found.
LEMMA ValidOutcomes ==
  ASSUME NEW t \in Seq(Char), NEW o \in req_from_text_to_bin(t),
         ~ req_text_rid(t).fails, ~ req_text_type(t).fails, ~ req_text_src(t).fails,
         ~ req_text_dst(t).fails, ~ req_text_code(t).fails, ~ NvList(t).fails,
         \A i \in DOMAIN NvList(t).is : ~ nvp(NvList(t).is[i]).fails
  PROVE  \/ IsIn(o)
         \/ o = Fails /\ \E c \in req_from_text_to_bin(t) : IsIn(c) /\ Valueless(c.is)
         \/ o = Corrupt /\ Len(req_text_code(t).is) = ReqCodeSize
<1> DEFINE id == req_text_rid(t)
           type == req_text_type(t)
           src == req_text_src(t)
           dst == req_text_dst(t)
           code == req_text_code(t)
           list == NvList(t)
           none == id.fails \/ type.fails \/ src.fails \/ dst.fails \/ code.fails
           bad == list.fails \/ \E i \in DOMAIN list.is : nvp(list.is[i]).fails
           lost == IF Len(code.is) = ReqCodeSize THEN {Corrupt} ELSE {}
           nvl == [i \in DOMAIN list.is |-> nvp(list.is[i]).is]
           whole == [id |-> id.is, type |-> type.is, src |-> src.is, dst |-> dst.is,
                     code |-> code.is, nvl |-> nvl]
           unset == \E i \in DOMAIN list.is : list.is[i].format = "unset"
<1>1. req_from_text_to_bin(t) =
        IF none THEN {Fails}
        ELSE IF bad THEN {Fails} \cup lost
        ELSE {Is(whole)} \cup (IF unset THEN {Fails} ELSE {}) \cup lost
  BY Zenon DEF req_from_text_to_bin, NvList
<1>2. ~ none /\ ~ bad /\ whole.nvl = nvl
  OBVIOUS
<1>3. list.is \in Seq(Parsed(t))
  BY NvListIs
<1>4. unset => Valueless(whole)
  <2> SUFFICES ASSUME unset PROVE Valueless(whole)
    OBVIOUS
  <2>1. PICK i \in DOMAIN list.is : list.is[i].format = "unset"
    OBVIOUS
  <2> DEFINE x == list.is[i]
  <2>2. x \in Parsed(t) /\ x.format = "unset" /\ ~ nvp(x).fails
    BY <1>3, <2>1
  <2>3. x.value = <<>>
    BY <2>2, UnsetIsEmpty DEF Parsed
  <2> HIDE DEF x
  <2>4. nvp(x).is.value = <<>>
    <3>1. "unset" # "encoded"
      OBVIOUS
    <3> QED BY <2>2, <2>3, <3>1, NvpIs
  <2>5. DOMAIN nvl = DOMAIN list.is /\ nvl[i] = nvp(x).is
    BY <2>1 DEF x
  <2> HIDE DEF nvl
  <2>6. i \in DOMAIN whole.nvl /\ whole.nvl[i].value = <<>>
    BY <1>2, <2>1, <2>4, <2>5
  <2> HIDE DEF whole
  <2> QED BY <2>6 DEF Valueless
<1>5. /\ code = req_text_code(t)
      /\ \A x \in lost : x = Corrupt /\ Len(code.is) = ReqCodeSize
  OBVIOUS
<1> HIDE DEF none, bad, lost, whole, list, code, unset, nvl
<1>6. Is(whole) \in req_from_text_to_bin(t) /\ Is(whole).is = whole /\ IsIn(Is(whole))
  BY <1>1, <1>2, Outcomes
<1>7. \/ o = Is(whole)
      \/ unset /\ o = Fails
      \/ Len(code.is) = ReqCodeSize /\ o = Corrupt
  BY <1>1, <1>2, <1>5
<1>8. CASE o = Is(whole)
  BY <1>6, <1>8
<1>9. CASE unset /\ o = Fails
  BY <1>4, <1>6, <1>9
<1>10. CASE Len(code.is) = ReqCodeSize /\ o = Corrupt
  BY <1>5, <1>10
<1> QED BY <1>7, <1>8, <1>9, <1>10

\* What req_validate accepts can be converted, except for what is said above.
THEOREM ValidatedIsConverted == Spec => []ValidatedConverts
<1>1. RInv => ValidatedConverts
  <2> SUFFICES ASSUME RInv, pc = "converted", ~ Replies(wire),
                      req_validate(wire) = "REQUEST_IS_VALID", At(wire, 1) \in RidChar,
                      ~ EmptyValue(wire), ~ OddDigits(wire), ~ LongWord(wire)
               PROVE  \/ IsIn(copy)
                      \/ copy = Fails /\ \E o \in req_from_text_to_bin(wire) :
                                           IsIn(o) /\ Valueless(o.is)
                      \/ copy = Corrupt /\ Len(req_text_code(wire).is) = ReqCodeSize
    BY DEF ValidatedConverts
  <2>1. wire \in Seq(Char) /\ copy \in req_from_text_to_bin(wire)
    BY DEF RInv, TInv
  <2>2. /\ ~ req_text_rid(wire).fails /\ ~ req_text_type(wire).fails
        /\ ~ req_text_src(wire).fails /\ ~ req_text_dst(wire).fails
        /\ ~ req_text_code(wire).fails /\ ~ NvList(wire).fails
        /\ \A i \in DOMAIN NvList(wire).is : ~ nvp(NvList(wire).is[i]).fails
    BY <2>1, ValidParts
  <2> QED BY <2>1, <2>2, ValidOutcomes
<1> QED BY <1>1, RInvAlways, PTL
=============================================================================
