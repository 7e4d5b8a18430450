------------------------------ MODULE Payloads ------------------------------
(***************************************************************************)
(* One string, uri, date or binary on its way through a text format: it is *)
(* written by a serializer's callback, or is in a file that was not        *)
(* written by this library, and is then read by the parser.                *)
(***************************************************************************)
EXTENDS TextPayloads, SequencesExt

CONSTANTS
  Sendable,   \* values to serialize: [kind, val]
  Foreign,    \* texts by hand: [fmt, form, text, means], see Form
  Undefined   \* what hex_to_byte may return for what is not two digits

Formats == {"notation", "json", "xml"}

(***************************************************************************)
(* What tells the reader how to take the text: the notation's letter, the  *)
(* element's tag and the encoding it names.                                *)
(***************************************************************************)
Form == {"raw", "quoted", "string", "uri", "date", "b()", "b16", "b64", "b85"}
Encodings == {"b16", "b64", "b85"}

VARIABLES
  fmt,        \* the format
  origin,     \* "serializer" or "hand", where the text is from
  sent,       \* the value [kind, val] the text stands for
  file,       \* the text [form, text], form "none" while there is none
  got         \* what the callback was given, [ok, kind, val, room]

vars == <<fmt, origin, sent, file, got>>

NoFile == [form |-> "none", text |-> << >>]
Unread == Value(Fail, "none", 0)

Init ==
  /\ got = Unread
  /\ \/ /\ origin = "serializer"
        /\ fmt \in Formats
        /\ sent \in Sendable
        /\ file = NoFile
     \/ /\ origin = "hand"
        /\ \E f \in Foreign : /\ fmt = f.fmt
                             /\ sent = f.means
                             /\ file = [form |-> f.form, text |-> f.text]

-----------------------------------------------------------------------------
(***************************************************************************)
(* The serializers' callbacks.                                             *)
(***************************************************************************)
Write(kind, form, text) ==
  /\ sent.kind = kind
  /\ file = NoFile
  /\ file' = [form |-> form, text |-> text]
  /\ UNCHANGED <<fmt, origin, sent, got>>

Base64(data) == base64_encode(data, BASE64_LENGTH(Len(data))).val

WriteString ==
  \/ fmt = "notation" /\ Write("string", "raw", Append(sent.val, QUOTE))
  \/ fmt = "json" /\ Write("string", "quoted", llsd_json_string(sent.val))
  \/ fmt = "xml" /\ Write("string", "string", llsd_xml_write_string(sent.val))

(* Bug for the checks: the notation's uris get the letter of its uuids. *)
WriteUri_AsUuid ==
  \/ fmt = "notation" /\ Write("uri", "uuid", Append(sent.val, QUOTE))
  \/ fmt = "json" /\ Write("uri", "quoted", llsd_json_uri(sent.val))
  \/ fmt = "xml" /\ Write("uri", "uri", llsd_xml_write_string(sent.val))

WriteUri ==
  \/ fmt = "notation" /\ Write("uri", "uri", Append(sent.val, QUOTE))
  \/ fmt = "json" /\ Write("uri", "quoted", llsd_json_uri(sent.val))
  \/ fmt = "xml" /\ Write("uri", "uri", llsd_xml_write_string(sent.val))

WriteDate ==
  \/ fmt # "xml" /\ Write("date", "date", DateText(sent.val))
  \/ /\ fmt = "xml"
     /\ Write("date", "date",
              IF sent.val = EPOCH THEN << >> ELSE DateText(sent.val))

WriteBinary ==
  \/ /\ fmt = "notation"
     /\ IF sent.val = << >> THEN Write("binary", "b()", <<QUOTE>>)
        ELSE Write("binary", "b64", Append(Base64(sent.val), QUOTE))
  \/ fmt = "json" /\ Write("binary", "quoted", llsd_json_binary(sent.val))
  \/ /\ fmt = "xml"
     /\ Write("binary", "b64", IF sent.val = << >> THEN << >>
                               ELSE llsd_xml_write_string(Base64(sent.val)))

-----------------------------------------------------------------------------
(***************************************************************************)
(* The parsers, up to the callback of the tree builder they end in.        *)
(***************************************************************************)
Read(format, forms, value) ==
  /\ fmt = format
  /\ file.form \in forms
  /\ got = Unread
  /\ got' = value
  /\ UNCHANGED <<fmt, origin, sent, file>>

(* The buffer is measured by one function and filled by another. *)
Decode(enc, text) ==
  CASE enc = "b16" -> LET n == base16_decoded_len(text)
                      IN  Value(base16_decode(text, n), "binary", n)
    [] enc = "b64" -> LET n == base64_decoded_len(text)
                      IN  Value(base64_decode(text, n), "binary", n)
    [] enc = "b85" -> Value(base85_decode(text), "binary", base85_decoded_len(text))

ReadRaw ==
  \/ Read("notation", {"raw"},
          Value(llsd_notation_parse_raw(Len(file.text) - 1, file.text), "string",
                Len(file.text)))
  \/ Read("notation", {"b()"},
          Value(llsd_notation_parse_raw(Len(file.text) - 1, file.text), "binary",
                Len(file.text) - 1))

ReadQuoted ==
  LET q == llsd_notation_parse_quoted(file.text, QUOTE)
  IN  \/ Read("notation", {"quoted"}, Value(q, "string", Len(q.val) + 1))
      \/ Read("notation", {"uri"}, Value(q, "uri", Len(q.val) + 1))
      \/ Read("notation", Encodings,
              IF q.ok THEN Decode(file.form, q.val) ELSE Value(Fail, "binary", 0))

ReadDate ==
  LET date == IF file.text = << >> THEN EPOCH ELSE DateOf(file.text)
  IN  \/ fmt # "json" /\ Read(fmt, {"date"}, Value(Ok(date), "date", 1))
      \/ Read("json", {"date"},
              IF file.text.ms = 1000 THEN Value(Ok(file.text), "string", 1)
                                     ELSE Value(Ok(date), "date", 1))

ReadJson ==
  \E undef \in Undefined :
    Read("json", {"quoted"}, llsd_json_convert_quoted(file.text, undef))

ReadXml ==
  LET text == Expat(file.text)
  IN  \/ Read("xml", {"string", "uri"}, Value(Ok(text), file.form, Len(text) + 1))
      \/ Read("xml", Encodings, IF text = << >> THEN Value(Ok(<< >>), "binary", 0)
                                ELSE Decode(file.form, text))

Next ==
  \/ WriteString \/ WriteUri \/ WriteDate \/ WriteBinary
  \/ ReadRaw \/ ReadQuoted \/ ReadDate \/ ReadJson \/ ReadXml

Spec == Init /\ [][Next]_vars

-----------------------------------------------------------------------------
(***************************************************************************)
(* A text has a form of its format, and a value is read of a text only.    *)
(***************************************************************************)
TypeOK ==
  /\ fmt \in Formats
  /\ origin \in {"serializer", "hand"}
  /\ file.form \in Form \union {"none"}
  /\ got # Unread => file.form # "none"
  /\ got.kind \in {"none", "string", "uri", "date", "binary"}

IsRead == got # Unread
ComesBack == got.ok /\ got.kind = sent.kind /\ got.val = sent.val

(***************************************************************************)
(* Binaries come back, of any length and in every encoding a parser takes, *)
(* through buffers that are as large as what is put into them: what the    *)
(* serializers write in base64, the empty one included, and what           *)
(* base16_encode and base85_encode give.  Two losses are base85's own: a   *)
(* short group of zeros grows to four, and in the notation the alphabet    *)
(* has both quotes and the backslash in it, so the text may end early.     *)
(***************************************************************************)
ShortZeros(data) ==
  Len(data) % 4 # 0 /\ \A k \in 1 .. Len(data) % 4 : data[Len(data) + 1 - k] = 0
EndsEarly == fmt = "notation" /\ \E k \in 1 .. Len(file.text) - 1 :
                                   file.text[k] \in {QUOTE, BACKSLASH}
BinariesComeBack ==
  IsRead /\ sent.kind = "binary" =>
    \/ ComesBack /\ Len(got.val) = got.room
    \/ file.form = "b85" /\ (ShortZeros(sent.val) \/ EndsEarly)

(***************************************************************************)
(* Strings that are serialized come back: from the notation always, from   *)
(* JSON unless they begin like a binary or a uri (or are spelt like a date *)
(* or a uuid: of 20 characters and more, and no run has one so long), from *)
(* XML exactly when every character can be in XML and none is a carriage   *)
(* return.                                                                 *)
(***************************************************************************)
XmlKeeps(s) == \A k \in DOMAIN s : s[k] >= 32 \/ s[k] \in {9, LF}
StringsComeBack ==
  IsRead /\ origin = "serializer" /\ sent.kind = "string" =>
    CASE fmt = "notation" -> ComesBack
      [] fmt = "json" -> \/ ComesBack /\ Len(got.val) < got.room
                         \/ IsPrefix(B64_TAG, sent.val) \/ IsPrefix(URI_TAG, sent.val)
      [] fmt = "xml"  -> ComesBack <=> XmlKeeps(sent.val)

(***************************************************************************)
(* Uris are written as they are, so one comes back exactly when the reader *)
(* finds its end at its end: in the notation every quote in it must have a *)
(* backslash in front that is in the same piece of the buffer, and there   *)
(* must be none in front of the closing one; in JSON backslashes must pair *)
(* up, or with a quote.  Of a uri with a '%' in it, which the JSON reader  *)
(* takes for an escape, nothing is said.                                   *)
(***************************************************************************)
QuoteHidden(s, k) == (k - 1) % BufLen # 0 /\ s[k - 1] = BACKSLASH
NotationQuotable(s) ==
  \A k \in 1 .. Len(s) + 1 : k = Len(s) + 1 \/ s[k] = QUOTE =>
    (k <= Len(s) <=> QuoteHidden(s, k))
(* How many backslashes there are just in front of k. *)
BackslashesBefore(s, k) ==
  CHOOSE n \in 0 .. k - 1 : /\ \A i \in k - n .. k - 1 : s[i] = BACKSLASH
                            /\ n < k - 1 => s[k - n - 1] # BACKSLASH
JsonQuotable(s) ==
  /\ \A k \in DOMAIN s : s[k] = QUOTE => BackslashesBefore(s, k) % 2 = 1
  /\ BackslashesBefore(s, Len(s) + 1) % 2 = 0

UrisComeBack ==
  IsRead /\ origin = "serializer" /\ sent.kind = "uri" =>
    CASE fmt = "notation" -> ComesBack <=> NotationQuotable(sent.val)
      [] fmt = "json" -> \/ ComesBack <=> JsonQuotable(sent.val)
                         \/ Contains(sent.val, PERCENT)
      [] fmt = "xml"  -> ComesBack <=> XmlKeeps(sent.val)

(***************************************************************************)
(* Every whole second of the 136 years from 1970 on that a uint32 counts   *)
(* comes back, in each format: neither the cast, nor the correction of     *)
(* mktime for local time, nor the empty text of the epoch moves it.        *)
(***************************************************************************)
DatesComeBack ==
  IsRead /\ sent.kind = "date" /\ sent.val.us = 0
    /\ sent.val.sec[1] \in 0 .. HALF - 1 => ComesBack

(***************************************************************************)
(* llsd_json_parser.c:402, and so in the notation and XML, "add in the     *)
(* miliseconds": of such a date the whole milliseconds come back as well.  *)
(***************************************************************************)
MillisecondsComeBack ==
  IsRead /\ sent.kind = "date" /\ sent.val.us % 1000 = 0
    /\ sent.val.sec[1] \in 0 .. HALF - 1 => ComesBack

(***************************************************************************)
(* A string spelt by hand is read as what it stands for, within the room   *)
(* measured for it: in JSON, whose escapes are resolved, unless a \u       *)
(* escape is for U+0100 to U+07FF (two bytes from 196 on) or is a          *)
(* surrogate pair (four bytes); in the notation, whose backslashes stay,   *)
(* when each quote in it is seen to be escaped and its end not.            *)
(***************************************************************************)
Misspelt(s) == \E k \in DOMAIN s : s[k] \in 196 .. 223 \/ s[k] >= 240
EscapesDecode ==
  IsRead /\ origin = "hand" /\ sent.kind = "string" =>
    CASE fmt = "json" -> /\ got.ok
                         /\ Len(got.val) < got.room
                         /\ Misspelt(sent.val) \/ ComesBack
      [] fmt = "notation" -> NotationQuotable(sent.val) => ComesBack
=============================================================================
