------------------------------ MODULE ReqText ------------------------------
(***************************************************************************)
(* The textual form of wicom's requests: src/req.c, its macros in req.h    *)
(* and nvpair.h, and the values of src/nvpair.c.                           *)
(*                                                                         *)
(*   <id>[R] <source> <destination> <code>[ <name>[=<value>]]...           *)
(*                                                                         *)
(* A text is the sequence of its characters without the end character.    *)
(* Words are short here; which class each character belongs to is what the *)
(* code looks at.  Two parsers read a text: req_to_bin, which converts it, *)
(* and req_validate, which says whether it could be converted.             *)
(***************************************************************************)
EXTENDS Integers, Sequences, SequencesExt, FiniteSetsExt, Functions

CONSTANTS
  MaxReqId,      \* MAXREQID
  ReqIdSize,     \* REQIDSIZE, the digits of MaxReqId
  ReqModSize,    \* REQMODSIZE
  ReqCodeSize    \* REQCODESIZE

ASSUME ReqTextAssumption ==
  {MaxReqId, ReqIdSize, ReqModSize, ReqCodeSize} \subseteq Nat \ {0}
-----------------------------------------------------------------------------
(***************************************************************************)
(* Characters.                                                             *)
(***************************************************************************)
HexDigits == <<"0", "1", "2", "3", "4", "5", "6", "7", "8", "9",
               "A", "B", "C", "D", "E", "F">>

LowerHex == <<"a", "b", "c", "d", "e", "f">>

EValueChar == Range(HexDigits)                        \* V_EVALUECHAR
RidChar    == Range(SubSeq(HexDigits, 1, 10))         \* V_RIDCHAR
ReplyChar  == {"R", "r"}                              \* V_REPLYCHAR
Alnum      == Range(HexDigits \o LowerHex) \cup ReplyChar
ModChar    == Alnum                                   \* V_MODCHAR
NameChar   == Alnum                                   \* V_NAMECHAR
CodeChar   == Alnum \cup {".", "under"}                   \* V_CODECHAR
ValueChar  == Alnum \cup {".", "under", ":"}              \* V_VALUECHAR
QValueChar == ValueChar \cup {"space"}                    \* V_QVALUECHAR

\* The others that the model uses; "*" stands for one of no class.  A space, a
\* double quote and an underscore are written as words.
Other == {"=", "quote", "#", "*"}

Char == QValueChar \cup Other

\* A byte that is none of these characters.
Unknown == "?"

OtherChars == <<"space", "quote", "#", "*", ".", ":", "=", "R", "under", "r">>
OtherCodes == <<32, 34, 35, 42, 46, 58, 61, 82, 95, 114>>

Place(c, s) == CHOOSE n \in DOMAIN s : s[n] = c

Ascii(c) ==
  CASE c \in RidChar              -> 47 + Place(c, HexDigits)
    [] c \in EValueChar \ RidChar -> 54 + Place(c, HexDigits)
    [] c \in Range(LowerHex)      -> 96 + Place(c, LowerHex)
    [] c \in Range(OtherChars)    -> OtherCodes[Place(c, OtherChars)]

OfAscii(n) == IF \E c \in Char : Ascii(c) = n
              THEN CHOOSE c \in Char : Ascii(c) = n ELSE Unknown

End == "end"   \* V_REQENDCHAR

At(t, i) == IF i \in DOMAIN t THEN t[i] ELSE End

\* The end of the run of characters of a class that begins at i.
RunEnd(t, i, class) ==
  Min({ j \in i .. Len(t) + 1 : At(t, j) \notin class })

Run(t, i, class) == SubSeq(t, i, RunEnd(t, i, class) - 1)

Fails == [fails |-> TRUE]
Is(x) == [fails |-> FALSE, is |-> x]
-----------------------------------------------------------------------------
(***************************************************************************)
(* Numbers: "%u" and "%hu" of the id.                                      *)
(***************************************************************************)
TextOfId[n \in 0..MaxReqId] ==
  IF n < 10 THEN <<HexDigits[n + 1]>>
            ELSE Append(TextOfId[n \div 10], HexDigits[(n % 10) + 1])

ASSUME ReqIdSizeAssumption == Len(TextOfId[MaxReqId]) = ReqIdSize

\* The numbers that the first digits of a text are read as.
Numbers(t) ==
  LET number[i \in 0 .. Len(t)] ==
        IF i = 0 THEN 0 ELSE 10 * number[i - 1] + Ascii(t[i]) - 48
  IN number

IdOfTextWide(t) == Numbers(t)[Len(t)]   \* fault: more digits than the id has bits

IdOfText(t) == Numbers(t)[Len(t)] % (MaxReqId + 1)
-----------------------------------------------------------------------------
(***************************************************************************)
(* Values of name-value pairs.                                             *)
(***************************************************************************)
nvp_value_format(v) ==
  IF Range(v) \subseteq ValueChar THEN "unquoted"
  ELSE IF Range(v) \subseteq QValueChar THEN "quoted" ELSE "encoded"

nvp_value_encoded_size(v) == 2 * Len(v) + 1

EncodeLowFirst(v) ==   \* fault: the low digit of a byte first
  <<"#">> \o FlattenSeq([i \in DOMAIN v |-> <<HexDigits[(Ascii(v[i]) % 16) + 1],
                                              HexDigits[(Ascii(v[i]) \div 16) + 1]>>])

nvp_value_encode(v) ==
  <<"#">> \o FlattenSeq([i \in DOMAIN v |-> <<HexDigits[(Ascii(v[i]) \div 16) + 1],
                                              HexDigits[(Ascii(v[i]) % 16) + 1]>>])

IsHex(c) == c \in Range(HexDigits \o LowerHex)

HexValue(c) == IF c \in RidChar THEN Ascii(c) - 48
               ELSE IF c \in EValueChar THEN Ascii(c) - 55 ELSE Ascii(c) - 87

\* sscanf("%X") stops at the first character that is not a digit.
Byte(h, l) == IF IsHex(l) THEN 16 * HexValue(h) + HexValue(l) ELSE HexValue(h)

\* The digits h after the prefix.
nvp_value_decode(h) ==
  IF Len(h) % 2 = 1 \/ \E i \in 1 .. Len(h) \div 2 : ~IsHex(h[2 * i - 1])
  THEN Fails
  ELSE Is([i \in 1 .. Len(h) \div 2 |-> OfAscii(Byte(h[2 * i - 1], h[2 * i]))])
-----------------------------------------------------------------------------
(***************************************************************************)
(* The tokens of the header, as the conversion finds them.                 *)
(***************************************************************************)

\* The token that goes on after character c of token tok.
AfterChar(tok, c) ==
  CASE tok = "ID" /\ c \in RidChar                  -> "ID"
    [] tok = "ID" /\ c \in ReplyChar \cup {"space"}     -> "MODSRC"
    [] tok = "MODSRC" /\ c \in ModChar              -> "MODSRC"
    [] tok = "MODSRC" /\ c = "space"                    -> "MODDST"
    [] tok = "MODDST" /\ c \in ModChar              -> "MODDST"
    [] tok = "MODDST" /\ c = "space"                    -> "CODE"
    [] tok = "CODE" /\ c \in CodeChar               -> "CODE"
    [] tok \in {"CODE", "NVL"} /\ c = "space"           -> "NVL"
    [] tok = "NVL" /\ c # "space"                       -> "NVL"
    [] OTHER                                        -> "invalid"

\* The token that each character belongs to.  The character that ends ID is
\* that of TYPE: a reply's has no place for the separator after it, which is
\* taken for an empty source.
Tokens(t) ==
  LET token[i \in 1 .. Len(t) + 1] ==
        IF i = 1 THEN "ID" ELSE AfterChar(token[i - 1], t[i - 1])
  IN token

\* Where a token begins, 0 if it is not found.  The text may end in CODE.
req_text_token_seek(t, tok) ==
  LET at == { i \in 1 .. Len(t) : Tokens(t)[i] = tok } IN
    IF at # {} THEN Min(at)
    ELSE IF Tokens(t)[Len(t) + 1] = "CODE" THEN Len(t) + 1 ELSE 0

\* _req_text_src, _req_text_dst and _req_text_code differ in these only.
Word(t, tok, class, ends, size) ==
  LET p == req_text_token_seek(t, tok)
      q == RunEnd(t, p, class) IN
    IF p # 0 /\ At(t, q) \in ends /\ q - p <= size
    THEN Is(SubSeq(t, p, q - 1)) ELSE Fails

req_text_src(t)  == Word(t, "MODSRC", ModChar, {"space"}, ReqModSize)
req_text_dst(t)  == Word(t, "MODDST", ModChar, {"space"}, ReqModSize)
req_text_code(t) == Word(t, "CODE", CodeChar, {"space", End}, ReqCodeSize)

\* Digits beyond ReqIdSize are not looked at.
req_text_rid(t) ==
  LET q == RunEnd(t, 1, RidChar) IN
    IF q = 1 \/ (q <= ReqIdSize /\ At(t, q) \notin ReplyChar \cup {"space"})
    THEN Fails
    ELSE Is(IdOfText(SubSeq(t, 1, Min({q - 1, ReqIdSize}))))

req_text_type(t) ==
  CASE At(t, RunEnd(t, 1, RidChar)) \in ReplyChar -> Is("REPLY")
    [] At(t, RunEnd(t, 1, RidChar)) = "space"     -> Is("REQUEST")
    [] OTHER                                      -> Fails
-----------------------------------------------------------------------------
(***************************************************************************)
(* The name-value pairs, as the conversion reads them.                     *)
(***************************************************************************)

\* The pair at p: its name and value, the format of the value, and where the
\* pair ends.  Without a value the format is not set.
Pair(name, format, value, next) ==
  Is([name |-> name, format |-> format, value |-> value, next |-> next])

req_text_nv_parse(t, p) ==
  LET name  == Run(t, p, NameChar)
      v     == RunEnd(t, p, NameChar) + 1         \* after the name and "="
      first == At(t, v)
      close == RunEnd(t, v + 1, QValueChar)
      blank == RunEnd(t, IF first = "#" THEN v + 1 ELSE v, ValueChar)
  IN CASE At(t, v - 1) \in {End, "space"} -> Pair(name, "unset", <<>>, v - 1)
       [] At(t, v - 1) = "=" /\ first = "quote" /\ At(t, close) = "quote" ->
            Pair(name, "quoted", SubSeq(t, v + 1, close - 1), close + 1)
       [] At(t, v - 1) = "=" /\ first = "#" /\ At(t, blank) \in {End, "space"} ->
            Pair(name, "encoded", SubSeq(t, v + 1, blank - 1), blank)
       [] At(t, v - 1) = "=" /\ first \in ValueChar
            /\ At(t, blank) \in {End, "space"} ->
            Pair(name, "unquoted", SubSeq(t, v, blank - 1), blank)
       [] OTHER -> Fails

\* The pairs from a place to the end of the text; from has those behind it.
PairsAt(t, from, i) ==
  LET pair == req_text_nv_parse(t, i) IN
    IF pair.fails THEN Fails
    ELSE CASE At(t, pair.is.next) = End     -> Is(<<pair.is>>)
           [] At(t, pair.is.next) = "space" ->
                LET rest == from[pair.is.next + 1] IN
                  IF rest.fails THEN Fails ELSE Is(<<pair.is>> \o rest.is)
           [] OTHER                         -> Fails

PairsFrom(t) ==
  LET from[i \in 1 .. Len(t) + 1] == PairsAt(t, from, i) IN from

req_text_nv_list(t, p) ==
  IF p = 0 THEN Fails ELSE IF At(t, p) = End THEN Is(<<>>) ELSE PairsFrom(t)[p]

\* The pair that the request gets.
nvp(pair) ==
  LET value == IF pair.format = "encoded" THEN nvp_value_decode(pair.value)
               ELSE Is(pair.value)
  IN IF pair.name = <<>> \/ value.fails THEN Fails
     ELSE Is([name |-> pair.name, value |-> value.is])
-----------------------------------------------------------------------------
(***************************************************************************)
(* The conversions.  Where the code reads or frees memory that it has not  *)
(* written, a conversion has more than one outcome; Corrupt stands for any *)
(* that follows the use of a wrong pointer.                                *)
(***************************************************************************)
Corrupt == [fails |-> FALSE, corrupt |-> TRUE]

IsIn(o) == "is" \in DOMAIN o

\* The format of a pair without a value is whatever the memory holds; taken
\* for an encoded value, the missing value is an error.  The end character of
\* a code of the largest size is written over the pointer to the list, which
\* the pairs are inserted through, or freed through if one of them is refused.
req_from_text_to_bin(t) ==
  LET id     == req_text_rid(t)
      type   == req_text_type(t)
      src    == req_text_src(t)
      dst    == req_text_dst(t)
      code   == req_text_code(t)
      pairs  == req_text_nv_list(t, req_text_token_seek(t, "NVL"))
      lost   == IF Len(code.is) = ReqCodeSize THEN {Corrupt} ELSE {}
  IN IF id.fails \/ type.fails \/ src.fails \/ dst.fails \/ code.fails THEN {Fails}
     ELSE IF pairs.fails \/ \E i \in DOMAIN pairs.is : nvp(pairs.is[i]).fails
     THEN {Fails} \cup lost
     ELSE {Is([id |-> id.is, type |-> type.is, src |-> src.is, dst |-> dst.is,
               code |-> code.is,
               nvl |-> [i \in DOMAIN pairs.is |-> nvp(pairs.is[i]).is]])}
          \cup (IF \E i \in DOMAIN pairs.is : pairs.is[i].format = "unset"
                THEN {Fails} ELSE {})
          \cup lost

ValueText(v) ==
  CASE nvp_value_format(v) = "unquoted" -> v
    [] nvp_value_format(v) = "quoted"   -> <<"quote">> \o v \o <<"quote">>
    [] OTHER                            -> nvp_value_encode(v)

\* _req_bin_nvl_insert_jlcb: each pair is followed by a space.
req_bin_nvl_insert(p) ==
  p.name \o (IF p.value = <<>> THEN <<>> ELSE <<"=">> \o ValueText(p.value)) \o <<"space">>

HeaderText(r) ==
  TextOfId[r.id] \o (IF r.type = "REPLY" THEN <<"R", "space">> ELSE <<"space">>)
  \o r.src \o <<"space">> \o r.dst \o <<"space">> \o r.code

\* What is written, before the last space is cut.
Written(r) ==
  HeaderText(r) \o
  (IF r.nvl = <<>> THEN <<>>
   ELSE <<"space">> \o FlattenSeq([i \in DOMAIN r.nvl |-> req_bin_nvl_insert(r.nvl[i])]))

req_from_bin_to_text(r) == IF r.nvl = <<>> THEN Written(r) ELSE Front(Written(r))

SumWithoutQuotes(p) ==   \* fault: the quotes are not counted
  Len(p.name) + (IF p.value = <<>> THEN 1
                 ELSE IF nvp_value_format(p.value) = "encoded"
                      THEN nvp_value_encoded_size(p.value) + 1
                      ELSE Len(p.value) + 2)

\* _req_bin_nvl_sum_length_jlcb: the space after an encoded value is not counted.
req_bin_nvl_sum_length(p) ==
  Len(p.name) + (IF p.value = <<>> THEN 1
                 ELSE CASE nvp_value_format(p.value) = "unquoted" -> Len(p.value) + 2
                        [] nvp_value_format(p.value) = "quoted"   -> Len(p.value) + 4
                        [] OTHER -> nvp_value_encoded_size(p.value) + 1)

\* What the first pairs of a list add up to.
Sizes(nvl) ==
  LET size[i \in 0 .. Len(nvl)] ==
        IF i = 0 THEN 0 ELSE size[i - 1] + req_bin_nvl_sum_length(nvl[i])
  IN size

\* The bytes that are allocated for the text.
ReqSize(r) ==
  Len(TextOfId[r.id]) + (IF r.type = "REPLY" THEN 1 ELSE 0)
  + Len(r.src) + Len(r.dst) + Len(r.code) + 3 + 2
  + Sizes(r.nvl)[Len(r.nvl)]
-----------------------------------------------------------------------------
(***************************************************************************)
(* The lookup of a pair by its name, in either form.                       *)
(***************************************************************************)
GetLastNv(r, name) ==   \* fault: the last pair of that name
  LET at == { i \in DOMAIN r.nvl : r.nvl[i].name = name } IN
    IF at = {} THEN Fails ELSE Is(r.nvl[Max(at)])

req_bin_get_nv(r, name) ==
  LET at == { i \in DOMAIN r.nvl : r.nvl[i].name = name } IN
    IF at = {} THEN Fails ELSE Is(r.nvl[Min(at)])

\* The search from a place on; from has those behind it.  What is freed in the
\* end is the decoded value, or whatever the memory holds if no value was decoded.
NvAt(t, name, from, i) ==
  LET o == req_text_nv_parse(t, i) IN
    CASE ~o.fails /\ o.is.name = name ->
           {nvp(o.is)}
           \cup (IF o.is.format = "unset" THEN {Fails} ELSE {})
           \cup (IF o.is.format # "encoded" \/ Len(o.is.value) % 2 = 1
                 THEN {Corrupt} ELSE {})
      [] ~o.fails /\ o.is.name # name /\ At(t, o.is.next) = "space" -> from[o.is.next + 1]
      [] OTHER -> {Fails, Corrupt}

NvFrom(t, name) ==
  LET from[i \in 1 .. Len(t) + 1] == NvAt(t, name, from, i) IN from

req_text_get_nv(t, name) ==
  LET nvl == req_text_token_seek(t, "NVL") IN
    IF nvl = 0 THEN {Fails, Corrupt} ELSE NvFrom(t, name)[nvl]
-----------------------------------------------------------------------------
(***************************************************************************)
(* What is known of a pair (nvpair_info_t): a word of flags, the set of    *)
(* its bits here, for the flags have bits in common.                       *)
(***************************************************************************)
Uninitialized == {31}                                       \* NVPAIR_FLAG_
NFlag == [VALID |-> {28, 0}, NOT_SET |-> {28, 2}]           \* NVPAIR_NFLAG_
VFlag == [VALID |-> {29, 0}, NOT_SET |-> {29, 2}]           \* NVPAIR_VFLAG_
LFlag == [NOT_FOUND |-> {30, 0}, FOUND |-> {30, 1}]         \* NVPAIR_LFLAG_
FFlag == [unquoted |-> {28, 29, 0}, quoted |-> {28, 29, 1}, \* NVPAIR_FFLAG_
          encoded |-> {28, 29, 2}]

Bits  == {0, 1, 2, 28, 29, 30, 31}   \* those that a flag has

nvp_flag_test(x, f) == f \subseteq x

\* A call that never returns.
Hangs == [fails |-> FALSE, hangs |-> TRUE]

ValidateOnQuote(t, p) ==   \* fault: the opening quote is not passed
  LET q     == RunEnd(t, p, NameChar)
      first == At(t, q + 1)
      c     == At(t, IF first = "#" THEN q + 2 ELSE q + 1)
      class == CASE first = "#" -> EValueChar [] first = "quote" -> QValueChar
                 [] OTHER -> ValueChar
  IN CASE At(t, q) = End /\ q = p              -> Fails
       [] At(t, q) = End /\ q > p              -> Is(NFlag.VALID)
       [] At(t, q) \in {"=", "space"} /\ q = p -> Is(NFlag.NOT_SET)
       [] At(t, q) = "space" /\ q > p          ->
            Is(NFlag.VALID \cup VFlag.VALID \cup VFlag.NOT_SET)
       [] At(t, q) = "=" /\ q > p /\ c \in {End, "space", "quote"} ->
            Is(NFlag.VALID \cup VFlag.VALID)
       [] At(t, q) = "=" /\ q > p /\ c \in class \ {"space"} -> Hangs
       [] OTHER                                -> Is(NFlag.VALID)

\* The loop over a value looks at its first character and does not move: it
\* ends if that character ends or spoils the value.
req_text_nv_validate(t, p) ==
  LET q      == RunEnd(t, p, NameChar)
      first  == At(t, q + 1)
      c      == At(t, IF first \in {"#", "quote"} THEN q + 2 ELSE q + 1)
      class  == CASE first = "#"  -> EValueChar
                  [] first = "quote" -> QValueChar
                  [] OTHER        -> ValueChar
  IN CASE At(t, q) = End /\ q = p            -> Fails
       [] At(t, q) = End /\ q > p            -> Is(NFlag.VALID)
       [] At(t, q) \in {"=", "space"} /\ q = p   -> Is(NFlag.NOT_SET)
       [] At(t, q) = "space" /\ q > p            ->
            Is(NFlag.VALID \cup VFlag.VALID \cup VFlag.NOT_SET)
       [] At(t, q) = "=" /\ q > p            ->
            CASE c \in {End, "space"} \/ (first = "quote" /\ c = "quote") ->
                   Is(NFlag.VALID \cup VFlag.VALID)
              [] c \in class \ {"space"} -> Hangs
              [] OTHER              -> Is(NFlag.VALID)
       [] OTHER                              -> Is(Uninitialized)

\* What the text says of the pair that was found.  A word of flags that was not
\* set may hold any bits; the size of an encoded value counts its prefix.
FoundInText(pair) ==
  LET size   == IF pair.format = "encoded" THEN Len(pair.value) + 1 ELSE Len(pair.value)
      Fflags == IF pair.format = "unset" THEN SUBSET Bits ELSE {FFlag[pair.format]}
  IN { IF nvp_flag_test(f, FFlag.encoded) /\ size % 2 = 0 THEN Fails
       ELSE Is([flags |-> LFlag.FOUND \cup f \cup NFlag.VALID \cup VFlag.VALID,
                value |-> pair.value]) : f \in Fflags }

InfoBySize(t, name) ==   \* fault: names of one size are not compared
  LET from[i \in 1 .. Len(t) + 1] ==
        LET valid == req_text_nv_validate(t, i)
            o     == req_text_nv_parse(t, i)
            goes  == IsIn(valid) /\ NFlag.VALID \cup VFlag.VALID \subseteq valid.is /\ ~o.fails
        IN CASE valid = Hangs -> {Hangs}
             [] goes /\ Len(o.is.name) = Len(name) -> FoundInText(o.is)
             [] goes /\ Len(o.is.name) # Len(name) /\ At(t, o.is.next) = "space" ->
                  from[o.is.next + 1]
             [] goes /\ Len(o.is.name) # Len(name) /\ At(t, o.is.next) = End ->
                  {Is([flags |-> LFlag.NOT_FOUND])}
             [] OTHER -> {Fails}
      nvl == req_text_token_seek(t, "NVL")
  IN IF nvl = 0 THEN {Fails} ELSE from[nvl]

\* The search from a place on; from has those behind it.
InfoAt(t, name, from, i) ==
  LET valid == req_text_nv_validate(t, i)
      o     == req_text_nv_parse(t, i)
      goes  == /\ IsIn(valid) /\ ~o.fails
               /\ nvp_flag_test(valid.is, NFlag.VALID)
               /\ nvp_flag_test(valid.is, VFlag.VALID)
  IN CASE valid = Hangs -> {Hangs}
       [] goes /\ o.is.name = name -> FoundInText(o.is)
       [] goes /\ o.is.name # name /\ At(t, o.is.next) = "space" -> from[o.is.next + 1]
       [] goes /\ o.is.name # name /\ At(t, o.is.next) = End ->
            {Is([flags |-> LFlag.NOT_FOUND])}
       [] OTHER -> {Fails}

InfoFrom(t, name) ==
  LET from[i \in 1 .. Len(t) + 1] == InfoAt(t, name, from, i) IN from

req_text_get_nv_info(t, name) ==
  LET nvl == req_text_token_seek(t, "NVL") IN
    IF nvl = 0 THEN {Fails} ELSE InfoFrom(t, name)[nvl]

\* What was gathered of a pair without a value is thrown away in the end, and
\* a pair that is missing is a failure unless the list is empty.  For a pair
\* with a value a message is written with an argument that is not there.
req_bin_get_nv_info(r, name) ==
  LET nv == req_bin_get_nv(r, name) IN
    CASE r.nvl = <<>>                          -> {Is([flags |-> LFlag.NOT_FOUND])}
      [] r.nvl # <<>> /\ nv.fails              -> {Fails}
      [] ~nv.fails /\ nv.is.value = <<>>       -> {Is([flags |-> Uninitialized])}
      [] OTHER ->
           {Corrupt,
            Is([flags |-> LFlag.FOUND \cup NFlag.VALID \cup VFlag.VALID
                            \cup FFlag[nvp_value_format(nv.is.value)],
                value |-> nv.is.value,
                encoded_size |-> nvp_value_encoded_size(nv.is.value)])}
-----------------------------------------------------------------------------
(***************************************************************************)
(* Validation.  A text of n characters is n + 1 bytes; "failure" is the    *)
(* status of a function that was offered no bytes.                         *)
(***************************************************************************)

Refused(status) == [fails |-> TRUE, status |-> status]

\* Where the token at p ends, which is refused if another character follows.
Token(t, p, class, ends, status) ==
  IF At(t, RunEnd(t, p, class)) \in ends
  THEN Is(RunEnd(t, p, class)) ELSE Refused(status)

req_validate_id(t, p) ==
  IF t = <<>> THEN Refused("failure")
  ELSE Token(t, p, RidChar, ReplyChar \cup {"space"}, "REQUEST_INVALID_ID")

req_validate_type(t, p) ==
  CASE At(t, p) = "space"                                   -> Is(p)
    [] At(t, p) \in ReplyChar /\ At(t, p + 1) = "space"     -> Is(p + 1)
    [] OTHER                            -> Refused("REQUEST_INVALID_TYPE")

ValidateModAsCode(t, p, status) ==   \* fault: the characters of a code
  IF At(t, p) = End THEN Refused("failure") ELSE Token(t, p, CodeChar, {"space"}, status)

req_validate_mod(t, p, status) ==
  IF At(t, p) = End THEN Refused("failure") ELSE Token(t, p, ModChar, {"space"}, status)

ValidateCodeAsMod(t, p) ==   \* fault: the characters of a module
  IF At(t, p) \in {"space", End} THEN Refused("REQUEST_INVALID_CODE")
  ELSE Token(t, p, ModChar, {"space", End}, "REQUEST_INVALID_CODE")

req_validate_code(t, p) ==
  IF At(t, p) \in {"space", End} THEN Refused("REQUEST_INVALID_CODE")
  ELSE Token(t, p, CodeChar, {"space", End}, "REQUEST_INVALID_CODE")

\* The separator after an encoded value counts as one of its characters, and
\* is not a digit.
req_validate_nv(t, p) ==
  LET q     == RunEnd(t, p, NameChar)
      v     == q + 1
      close == RunEnd(t, v + 1, QValueChar)
  IN CASE At(t, p) = End                             -> Refused("failure")
       [] q > p /\ At(t, q) \in {End, "space"}           -> Is(q)
       [] q > p /\ At(t, q) = "=" /\ At(t, v) = "quote" /\ At(t, close) = "quote" ->
            Is(close + 1)
       [] q > p /\ At(t, q) = "=" /\ At(t, v) = "#" ->
            Token(t, v + 1, EValueChar, {End}, "REQUEST_INVALID_NV")
       [] q > p /\ At(t, q) = "=" /\ At(t, v) \notin {"quote", "#", End} ->
            Token(t, v, ValueChar, {End, "space"}, "REQUEST_INVALID_NV")
       [] OTHER -> Refused("REQUEST_INVALID_NV")

\* The pairs from a place on; from has those behind it.
ValidatedAt(t, from, i) ==
  LET nv == req_validate_nv(t, i) IN
    IF nv.fails THEN nv.status
    ELSE CASE At(t, nv.is) = End     -> "REQUEST_IS_VALID"
           [] At(t, nv.is) = "space" -> from[nv.is + 1]
           [] OTHER                  -> "REQUEST_INVALID_SEP"

ValidatedFrom(t) ==
  LET from[i \in 1 .. Len(t) + 1] == ValidatedAt(t, from, i) IN from

\* The pairs after the separator at p.
req_validate_nvl(t, p) ==
  IF At(t, p) = End THEN "REQUEST_IS_VALID" ELSE ValidatedFrom(t)[p + 1]

req_validate(t) ==
  LET id   == req_validate_id(t, 1)
      type == req_validate_type(t, id.is)
      src  == req_validate_mod(t, type.is + 1, "REQUEST_INVALID_MODSRC")
      dst  == req_validate_mod(t, src.is + 1, "REQUEST_INVALID_MODDST")
      code == req_validate_code(t, dst.is + 1)
  IN CASE id.fails                                             -> id.status
       [] ~id.fails /\ type.fails                              -> type.status
       [] ~id.fails /\ ~type.fails /\ src.fails                -> src.status
       [] ~id.fails /\ ~type.fails /\ ~src.fails /\ dst.fails  -> dst.status
       [] OTHER -> IF code.fails THEN code.status ELSE req_validate_nvl(t, code.is)
=============================================================================
