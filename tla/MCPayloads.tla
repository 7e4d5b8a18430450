----------------------------- MODULE MCPayloads -----------------------------
(***************************************************************************)
(* Payloads for all short values over small alphabets, and for texts by    *)
(* hand put together from pieces whose meaning is given beside them: the   *)
(* escapes by RFC 8259 and UTF-8, the encodings by what they encode.       *)
(***************************************************************************)
EXTENDS Payloads

UpTo(n, S) == UNION {[1 .. m -> S] : m \in 0 .. n}
Of(kind, vals) == {[kind |-> kind, val |-> v] : v \in vals}

(* Bytes with every bit pattern's extremes, zeros and spaces among them. *)
Binaries == UpTo(4, {0, 32, 255}) \union
            {<<1, 2, 3, 4, 5>>, <<0, 0, 0, 0, 0>>, <<77, 97, 110, 32, 9>>,
             <<32, 32, 32, 32, 251, 239, 190>>, <<0, 0, 0, 0, 105, 183, 29>>}

(* a  quote  backslash  /  <  LF  CR  and a control character *)
Strings == UpTo(3, {97, QUOTE, BACKSLASH, 47, 60, LF, CR, 1}) \union
           {Append(URI_TAG, 97), B64_TAG}

(* a  quote  backslash  %  4 *)
Uris == UpTo(4, {97, QUOTE, BACKSLASH, PERCENT, 52}) \union {<<97, CR, 1>>}

Seconds == {<<0, 0>>, <<0, 1>>, <<HALF - 1, HALF - 1>>, <<HALF, 0>>,
            <<-1, HALF - 1>>, <<20000, 5>>}
Dates == [sec : Seconds, us : {0, 1, 499, 500, 1499, 250000, 999499, 999500}]

Values == Of("binary", Binaries) \union Of("string", Strings)
            \union Of("uri", Uris) \union Of("date", Dates)

(***************************************************************************)
(* Pieces of a JSON string: what is written and what it stands for.        *)
(***************************************************************************)
Hex(d) == IF d < 10 THEN 48 + d ELSE 87 + d
Unit(u) == <<BACKSLASH, 117, Hex(u \div 4096), b16str((u \div 256) % 16),
             Hex((u \div 16) % 16), b16str(u % 16)>>
Utf8(c) ==
  CASE c < 128   -> <<c>>
    [] c \in 128 .. 2047 -> <<192 + c \div 64, 128 + (c % 64)>>
    [] c \in 2048 .. 65535 -> <<224 + c \div 4096, 128 + ((c \div 64) % 64),
                                128 + (c % 64)>>
    [] OTHER -> <<240 + c \div 262144, 128 + ((c \div 4096) % 64),
                  128 + ((c \div 64) % 64), 128 + (c % 64)>>
Spelt(c) ==
  IF c < 65536 THEN Unit(c)
  ELSE Unit(55296 + (c - 65536) \div 1024) \o Unit(56320 + (c % 1024))

Codepoints == {10, 97, 233, 255, 256, 1536, 2047, 2048, 8364, 65535, 128512}
JsonPieces ==
  {<<Spelt(c), Utf8(c)>> : c \in Codepoints}
    \union {<<<<BACKSLASH, e[2]>>, <<e[1]>>>> : e \in Escapes}
    \union {<<<<c>>, <<c>>>> : c \in {47, 110, 117}}

(* Pieces of a notation string stand for themselves. *)
NotationPieces ==
  {<<t, t>> : t \in {<<97>>, <<98>>, <<BACKSLASH, QUOTE>>, <<BACKSLASH, BACKSLASH>>}}

Text(pieces) == FlattenSeq([i \in DOMAIN pieces |-> pieces[i][1]])
Meaning(pieces) == FlattenSeq([i \in DOMAIN pieces |-> pieces[i][2]])

ByHand(format, form, pieces) ==
  [fmt |-> format, form |-> form, text |-> Append(Text(pieces), QUOTE),
   means |-> [kind |-> "string", val |-> Meaning(pieces)]]

Encoded(format, enc, data) ==
  LET text == IF enc = "b16" THEN base16_encode(data, BASE16_LENGTH(Len(data))).val
              ELSE base85_encode(data, BASE85_LENGTH(Len(data))).val
  IN  [fmt |-> format, form |-> enc, means |-> [kind |-> "binary", val |-> data],
       text |-> IF format = "xml" THEN llsd_xml_write_string(text)
                                  ELSE Append(text, QUOTE)]

HandTexts ==
  {ByHand("json", "quoted", p) : p \in UpTo(2, JsonPieces)}
    \union {ByHand("notation", "quoted", p) : p \in UpTo(4, NotationPieces)}
    \union {Encoded(format, enc, data) : format \in {"notation", "xml"},
              enc \in {"b16", "b85"}, data \in Binaries \ {<< >>}}

(* For the milliseconds of dates. *)
NoTexts == {}
DatesOnly == Of("date", Dates)
=============================================================================
