----------------------------- MODULE RoundTrip -----------------------------
(***************************************************************************)
(* A value is serialized and the file is parsed: llsd_serialize_to_file of *)
(* Serializer, then llsd_parse_from_file, whose choice of a parser is told *)
(* by the signature, with the parser taking its tokens from the file.      *)
(***************************************************************************)
EXTENDS LLSDTrees, SequencesExt

CONSTANTS
  Documents,    \* values to serialize
  Formats,      \* the formats to go through
  Values,       \* the payloads in the values
  Lookalikes    \* strings that are spelt like a date, uuid, uri or binary

VARIABLES fmt, doc, calls, st, faults, failed, verdict,
          read, open, p, b, warned, lucky, status

written == <<fmt, doc, calls, st, faults, failed, verdict>>
parsed  == <<read, open, p, b, warned, lucky, status>>
vars    == <<written, parsed>>

(* The file is as long as it is: no bound on what is read of it. *)
Endless == 100

W == INSTANCE Serializer WITH MaxFaults <- 0, CStack <- 16
Text == INSTANCE TextParser
          WITH Lucks <- {"ok"}, MaxTokens <- Endless
Binary == INSTANCE BinaryParser
          WITH Lucks <- {"ok"}, MaxTokens <- Endless
Xml == INSTANCE XmlParser
          WITH Tags <- {"llsd", "scalar", "string", "array", "map"},
               Texts <- Values \union {"space"}, Lucks <- {"ok"},
               MaxElements <- Endless, MaxTexts <- Endless

IsText == fmt \in {"notation", "json"}
ExpatIdle == open = << >> /\ warned = FALSE

Init ==
  /\ W!Init
  /\ \/ IsText /\ Text!Init /\ ExpatIdle
     \/ fmt = "binary" /\ Binary!Init /\ ExpatIdle
     \/ fmt = "xml" /\ Xml!Init

(***************************************************************************)
(* What a parser gets to see of the file: not the signature, which         *)
(* llsd_parse_from_file takes off; in the text formats not the white       *)
(* space; and in JSON, where llsd_json_convert_quoted makes a date, uuid,  *)
(* uri or binary of a quoted string that looks like one, not its type.     *)
(***************************************************************************)
TokenRead(token) ==
  IF fmt = "json" /\ token.sym = "string" /\ token.val \in Lookalikes
  THEN [token EXCEPT !.sym = "scalar"]
  ELSE token

File ==
  LET skipped == {"signature"} \union (IF IsText THEN {"text"} ELSE {})
      tokens  == SelectSeq(st.out, LAMBDA t : t.sym \notin skipped)
  IN  [i \in DOMAIN tokens |-> TokenRead(tokens[i])]

Write == W!Next /\ UNCHANGED parsed
Parse ==
  \/ IsText /\ Text!Next /\ UNCHANGED <<open, warned>>
  \/ fmt = "binary" /\ Binary!Next /\ UNCHANGED <<open, warned>>
  \/ fmt = "xml" /\ Xml!Next
Read ==
  /\ verdict = "TRUE"
  /\ Parse
  /\ IF read' = read THEN read = File ELSE IsPrefix(read', File)
  /\ UNCHANGED written

(***************************************************************************)
(* Nothing waits on the way: a reader that could take neither the next     *)
(* token nor the end of the file would be a deadlock, which the run checks *)
(* for, and only the end of a parse is not one.                            *)
(***************************************************************************)
Done == status # "parsing" /\ UNCHANGED vars

Next == Write \/ Read \/ Done
Spec == Init /\ [][Next]_vars

-----------------------------------------------------------------------------
(***************************************************************************)
(* How XML hands over the text of a leaf: as the pieces expat reports, of  *)
(* which there are none when the value is zero or empty.                   *)
(***************************************************************************)
RECURSIVE AsTexts(_)
AsTexts(t) ==
  LET val == IF t.kind \in {"array", "map"} THEN "none"
             ELSE IF t.val = "zero" THEN << >> ELSE <<t.val>>
  IN  Tree(t.kind, val, [i \in DOMAIN t.kids |-> AsTexts(t.kids[i])])

RECURSIVE HasLookalike(_)
HasLookalike(t) ==
  \/ t.kind = "string" /\ t.val \in Lookalikes
  \/ \E i \in DOMAIN t.kids : HasLookalike(t.kids[i])

ComesBack ==
  /\ status = "returned"
  /\ ~warned
  /\ b.llsd # 0
  /\ TreeAt(b.heap, b.llsd) = IF fmt = "xml" THEN AsTexts(doc) ELSE doc

(***************************************************************************)
(* The parse of what was written gives back the value, kind by kind and in *)
(* its order, in every format, with line breaks and without, and also when *)
(* a serialization that failed has left the static variable map_value      *)
(* behind: separators, white space, empty elements and the keys' own tags  *)
(* get lost on the way, and nothing else.  Of strings JSON takes for a     *)
(* value of another type nothing is said.                                  *)
(***************************************************************************)
RoundTripPreserves ==
  status # "parsing" /\ ~(fmt = "json" /\ HasLookalike(doc)) => ComesBack
=============================================================================
