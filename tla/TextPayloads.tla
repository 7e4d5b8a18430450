---------------------------- MODULE TextPayloads ----------------------------
(***************************************************************************)
(* How strings, uris and dates are spelt by the three text formats and     *)
(* read back.  Text is a sequence of ASCII codes, beginning after the      *)
(* opening quote or tag; what can be read of it ends at its last one.      *)
(***************************************************************************)
EXTENDS Codecs

CONSTANT
  BufLen      \* size of the quoted string readers' static buffers, 1024

ASSUME BufLenAssumption == BufLen \in Nat \ {0}

QUOTE == 34
BACKSLASH == 92
PERCENT == 37
LF == 10
CR == 13

IsCut(s, k, t) == k + Len(t) - 1 <= Len(s) /\ SubSeq(s, k, k + Len(t) - 1) = t

-----------------------------------------------------------------------------
(***************************************************************************)
(* Notation.  A raw string has its length in front.                        *)
(***************************************************************************)
llsd_notation_parse_raw(len, text) ==
  IF Len(text) > len /\ text[len + 1] = QUOTE THEN Ok(SubSeq(text, 1, len))
                                              ELSE Fail

(* Bug for the checks: a quote is never escaped. *)
llsd_notation_parse_quoted_AnyQuote(text, quote) ==
  LET ends == {k \in DOMAIN text : text[k] = quote}
  IN  IF ends = {} THEN Fail
      ELSE LET end == CHOOSE k \in ends : \A j \in ends : k <= j
           IN  Ok(SubSeq(text, 1, end - 1))

(***************************************************************************)
(* A quoted one ends at a quote without a backslash in front, as far as    *)
(* the buffer tells: to its first character there is nothing in front.     *)
(* Backslashes stay in the string.                                         *)
(***************************************************************************)
llsd_notation_parse_quoted(text, quote) ==
  LET ends == {k \in DOMAIN text : /\ text[k] = quote
                                   /\ \/ (k - 1) % BufLen = 0
                                      \/ text[k - 1] # BACKSLASH}
  IN  IF ends = {} THEN Fail
      ELSE LET end == CHOOSE k \in ends : \A j \in ends : k <= j
           IN  Ok(SubSeq(text, 1, end - 1))

-----------------------------------------------------------------------------
(***************************************************************************)
(* JSON: the characters with an escape of their own, and their letters.    *)
(***************************************************************************)
Escapes == {<<QUOTE, QUOTE>>, <<BACKSLASH, BACKSLASH>>, <<47, 47>>, <<8, 98>>,
            <<12, 102>>, <<LF, 110>>, <<CR, 114>>, <<9, 116>>}
Escaped(c) == \E e \in Escapes : e[1] = c
LetterOf(c) == (CHOOSE e \in Escapes : e[1] = c)[2]
CharOf(letter) == (CHOOSE e \in Escapes : e[2] = letter)[1]

(* Bug for the checks: the backslash is not escaped. *)
llsd_json_string_KeepsBackslash(str) ==
  LET Spelt[k \in 0 .. Len(str)] ==
        IF k = 0 THEN << >>
        ELSE Spelt[k - 1] \o (IF Escaped(str[k]) /\ str[k] # BACKSLASH
                              THEN <<BACKSLASH, LetterOf(str[k])>>
                              ELSE <<str[k]>>)
  IN  Append(Spelt[Len(str)], QUOTE)

llsd_json_string(str) ==
  LET Spelt[k \in 0 .. Len(str)] ==
        IF k = 0 THEN << >>
        ELSE Spelt[k - 1] \o (IF Escaped(str[k])
                              THEN <<BACKSLASH, LetterOf(str[k])>>
                              ELSE <<str[k]>>)
  IN  Append(Spelt[Len(str)], QUOTE)

(***************************************************************************)
(* Whether a character is escaped is kept across the buffers here.         *)
(***************************************************************************)
llsd_json_parse_quoted(text) ==
  LET Esc[k \in 0 .. Len(text)] ==
        k > 0 /\ ~Esc[k - 1] /\ text[k] = BACKSLASH
      ends == {k \in DOMAIN text : text[k] = QUOTE /\ ~Esc[k - 1]}
  IN  IF ends = {} THEN Fail
      ELSE LET end == CHOOSE k \in ends : \A j \in ends : k <= j
           IN  Ok(SubSeq(text, 1, end - 1))

(***************************************************************************)
(* hex_to_byte of anything but two hexadecimal digits returns no value.    *)
(***************************************************************************)
hex_to_byte(hi, lo, undef) ==
  IF is_base16(hi) /\ is_base16(lo) THEN 16 * dhex(hi) + dhex(lo) ELSE undef

(* The 16 bits that four digits at p stand for. *)
Hex4(s, p, undef) ==
  256 * hex_to_byte(s[p], s[p + 1], undef) + hex_to_byte(s[p + 2], s[p + 3], undef)

IsLead(s1) == s1 \in 55296 .. 56319

llsd_json_utf8_len(s1) ==
  CASE s1 <= 127   -> 1
    [] IsLead(s1)  -> 4
    [] s1 \in 128 .. 2047 -> 2
    [] OTHER       -> 3

(***************************************************************************)
(* UTF-8 of a 16 bit unit, or of a lead surrogate s1 with what is taken to *)
(* be the trailing one.  Of the three bits that a two byte character gets  *)
(* from the high byte two are kept, one place too far left; the bits of a  *)
(* lead surrogate land six places too far left.                            *)
(***************************************************************************)
(* Bug for the checks: the middle byte loses its high bits. *)
llsd_json_utf8_decode_DropsBits(s1, s2) ==
  CASE s1 <= 127 -> <<s1>>
    [] s1 \in 128 .. 2047 -> <<192 + s1 \div 64, 128 + (s1 % 64)>>
    [] OTHER -> <<224 + s1 \div 4096, 128 + ((s1 \div 64) % 4), 128 + (s1 % 64)>>

llsd_json_utf8_decode(s1, s2) ==
  LET b1 == s1 \div 256
      b2 == s1 % 256
      d1 == (s1 - 55296) * HALF + ((s2 - 56320) % HALF) + HALF
  IN  CASE s1 <= 127 -> <<s1>>
        [] IsLead(s1) -> <<240 + ((d1 \div 262144) % 8),
                           128 + ((d1 \div 4096) % 64),
                           128 + ((d1 \div 64) % 64), 128 + (d1 % 64)>>
        [] s1 \in 128 .. 2047 -> <<192 + b2 \div 64 + (b1 % 4) * 8,
                                   128 + (b2 % 64)>>
        [] OTHER -> <<224 + b1 \div 16, 128 + (b1 % 16) * 4 + b2 \div 64,
                      128 + (b2 % 64)>>

(***************************************************************************)
(* llsd_json_decode_string goes over the text twice, to measure and to     *)
(* fill.  At p it finds a character, an escape or a \u escape, or fails;   *)
(* a backslash at the very end counts and gives nothing.  What it takes to *)
(* be the trailing surrogate begins at the backslash before that one's u.  *)
(***************************************************************************)
Piece(len, room, val) == [ok |-> TRUE, len |-> len, room |-> room, val |-> val]
NoPiece == [ok |-> FALSE, len |-> 1, room |-> 0, val |-> << >>]

UnicodePiece(s, p, undef) ==
  LET s1 == Hex4(s, p + 2, undef)
      Unit(len, s2) == Piece(len, 1 + llsd_json_utf8_len(s1),
                             llsd_json_utf8_decode(s1, s2))
  IN  IF p + 5 > Len(s) THEN NoPiece
      ELSE IF ~IsLead(s1) THEN Unit(6, 0)
      ELSE IF p + 11 > Len(s) \/ ~IsCut(s, p + 6, <<BACKSLASH, 117>>) THEN NoPiece
      ELSE Unit(12, Hex4(s, p + 6, undef))

PieceAt(s, p, undef) ==
  CASE s[p] # BACKSLASH -> Piece(1, 1, <<s[p]>>)
    [] s[p] = BACKSLASH /\ p = Len(s) -> Piece(1, 1, << >>)
    [] s[p] = BACKSLASH /\ p < Len(s) /\ s[p + 1] = 117 -> UnicodePiece(s, p, undef)
    [] OTHER -> IF \E e \in Escapes : e[2] = s[p + 1]
                THEN Piece(2, 1, <<CharOf(s[p + 1])>>)
                ELSE NoPiece

llsd_json_decode_string(s, undef) ==
  LET From[p \in 1 .. Len(s) + 1] ==
        IF p > Len(s) THEN Piece(0, 1, << >>)
        ELSE LET here == PieceAt(s, p, undef)
                 rest == From[p + here.len]
             IN  IF here.ok /\ rest.ok
                 THEN Piece(0, here.room + rest.room, here.val \o rest.val)
                 ELSE NoPiece
  IN  From[1]

(***************************************************************************)
(* After a '%' two digits give a character, and the second of them is then *)
(* read as one itself.                                                     *)
(***************************************************************************)
llsd_json_decode_uri(s, undef) ==
  LET From[p \in 1 .. Len(s) + 1] ==
        IF p > Len(s) THEN Ok(<< >>)
        ELSE IF s[p] # PERCENT
             THEN [From[p + 1] EXCEPT !.val = <<s[p]>> \o @]
        ELSE IF p = Len(s) THEN Ok(<< >>)
        ELSE IF p + 2 > Len(s) THEN Fail
        ELSE [From[p + 2] EXCEPT !.val = <<hex_to_byte(s[p + 1], s[p + 2], undef)>> \o @]
  IN  From[1]

(***************************************************************************)
(* llsd_json_convert_quoted, but for dates and uuids: a binary or a uri by *)
(* its tag, and a string when it is neither or they fail.  room is what    *)
(* was allocated.                                                          *)
(***************************************************************************)
B64_TAG == <<124, 124, 98, 54, 52, 124, 124>>
URI_TAG == <<124, 124, 117, 114, 105, 124, 124>>

Value(r, kind, room) == [ok |-> r.ok, kind |-> kind, val |-> r.val, room |-> room]

llsd_json_convert_quoted(text, undef) ==
  LET quoted == llsd_json_parse_quoted(text)
      body == SubSeq(quoted.val, 8, Len(quoted.val))
      blen == base64_decoded_len(body)
      uri  == llsd_json_decode_uri(body, undef)
      str  == llsd_json_decode_string(quoted.val, undef)
  IN  CASE ~quoted.ok -> Value(Fail, "string", 0)
        [] quoted.ok /\ IsCut(quoted.val, 1, B64_TAG) ->
             IF blen = 0 THEN Value(Ok(<< >>), "binary", 0)
             ELSE Value(base64_decode(body, blen), "binary", blen)
        [] quoted.ok /\ IsCut(quoted.val, 1, URI_TAG) /\ uri.ok ->
             Value(uri, "uri", Len(quoted.val))
        [] OTHER -> Value(str, "string", str.room)

llsd_json_uri(uri) == URI_TAG \o Append(uri, QUOTE)
llsd_json_binary(data) ==
  IF data = << >> THEN Append(B64_TAG, QUOTE)
  ELSE B64_TAG \o Append(base64_encode(data, BASE64_LENGTH(Len(data))).val, QUOTE)

-----------------------------------------------------------------------------
(***************************************************************************)
(* XML: the characters of markup as entities, control characters not at    *)
(* all.  A character is written as itself or as its entity.                *)
(***************************************************************************)
Markup == {60, 62, 38, 39, QUOTE}
Blanks == {9, LF, CR}

llsd_xml_write_string(str) ==
  LET kept == SelectSeq(str, LAMBDA c : c >= 32 \/ c \in Blanks)
  IN  [k \in DOMAIN kept |-> [entity |-> kept[k] \in Markup, ch |-> kept[k]]]

(* Expat resolves entities and makes LF of CR, and of CR LF. *)
Expat(text) ==
  LET one(k) == IF text[k].ch = CR THEN LF ELSE text[k].ch
      Read[k \in 0 .. Len(text)] ==
        IF k = 0 THEN << >>
        ELSE IF k > 1 /\ text[k].ch = LF /\ text[k - 1].ch = CR THEN Read[k - 1]
        ELSE Append(Read[k - 1], one(k))
  IN  Read[Len(text)]

-----------------------------------------------------------------------------
(***************************************************************************)
(* Dates: seconds since 1970 as the 16 bit halves <<hi, lo>> of a number   *)
(* of any size and sign, with microseconds.  The text is the calendar's    *)
(* name for the seconds (gmtime and mktime are inverses) and ms, rounded:  *)
(* three digits or the four of 1000.  Epoch is no text in XML.             *)
(***************************************************************************)
Milliseconds(us) == (us + 500) \div 1000
DateText(date) == [sec |-> date.sec, ms |-> Milliseconds(date.us)]

(***************************************************************************)
(* The seconds go through a uint32, the milliseconds are added as a        *)
(* thousand seconds each.  "%03d" takes three digits.                      *)
(***************************************************************************)
(* Bug for the checks: the offset of the local time, an hour, stays in. *)
DateOf_LocalTime(text) ==
  LET ms == IF text.ms = 1000 THEN 100 ELSE text.ms
      lo == text.sec[2] + ms * 1000 + 3600
  IN  [sec |-> <<(text.sec[1] % HALF) + lo \div HALF, lo % HALF>>, us |-> 0]

DateOf(text) ==
  LET ms == IF text.ms = 1000 THEN 100 ELSE text.ms
      lo == text.sec[2] + ms * 1000
  IN  [sec |-> <<(text.sec[1] % HALF) + lo \div HALF, lo % HALF>>, us |-> 0]

EPOCH == [sec |-> <<0, 0>>, us |-> 0]
=============================================================================
