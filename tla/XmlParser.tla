----------------------------- MODULE XmlParser -----------------------------
(***************************************************************************)
(* llsd_xml_parse_file with the tree builder behind it.                    *)
(*                                                                         *)
(* The expat library reads the file and calls the start tag, end tag and   *)
(* character data handlers.  The handlers return nothing: a handler that   *)
(* fails leaves what it has done so far, expat goes on with the next tag,  *)
(* and llsd_xml_parse_file returns TRUE in the end whatever happened.      *)
(*                                                                         *)
(* Expat itself is external.  It only lets tags through that nest, below   *)
(* one root element, and stops calling back at a syntax error or at the    *)
(* end of the file; the two look alike to the handlers.                    *)
(***************************************************************************)
EXTENDS ParserOps

CONSTANTS
  Tags,         \* the element types of a document, a part of AllTags
  Texts,        \* pieces of character data
  Lucks,        \* how conversions and calls outside src/ may turn out; with
                \* "no_buffer" the text buffer can not grow
  MaxElements,  \* elements in a document (bounds the run)
  MaxTexts      \* pieces of character data in a document (bounds the run)

(***************************************************************************)
(* "scalar" stands for undef, boolean, integer, real, uuid, date, uri and  *)
(* binary; "string" for string and key, which the handlers treat alike;    *)
(* "unknown" for an element llsd_type_from_tag knows nothing of.           *)
(***************************************************************************)
AllTags == {"llsd", "scalar", "string", "array", "map", "unknown"}

ASSUME TagsAssumption == Tags \subseteq AllTags
ASSUME LucksAssumption ==
         Lucks \subseteq Luck \union LostPush \union {"malformed", "no_buffer"}
ASSUME BoundsAssumption == MaxElements \in Nat /\ MaxTexts \in Nat

(* No stack fails to grow when a container opens, so no PUSH is lost. *)
StacksGrow == Lucks \cap LostPush = {}

VARIABLES
  read,         \* the tags and texts expat has reported so far
  open,         \* expat's own stack of open elements
  p,            \* xp_state_t: state_stack, and buf, the texts it holds
  b,            \* the builder
  warned,       \* some handler has failed
  lucky,        \* every conversion and call outside src/ has gone well so far
  status        \* "parsing", then the parse's end: "returned" or "null"

vars == <<read, open, p, b, warned, lucky, status>>

Event(sym, val) == [sym |-> sym, val |-> val]
EventsOf(sym) == {i \in DOMAIN read : read[i].sym = sym}

Init ==
  /\ read = << >> /\ open = << >>
  /\ p = [state_stack |-> << >>, buf |-> << >>]
  /\ b = EmptyBuilder
  /\ warned = FALSE
  /\ lucky = TRUE
  /\ status = "parsing"

(***************************************************************************)
(* A handler runs to its end or to its first failed check.  Only a handler *)
(* that succeeds forgets the character data gathered so far.               *)
(***************************************************************************)
(* Bug for the checks: the character data is never forgotten. *)
Handled_KeepsText(s) ==
  /\ p' = s.p
  /\ b' = s.b
  /\ warned' = (warned \/ ~s.ok)
  /\ UNCHANGED status
Handled(s) ==
  /\ p' = IF s.ok THEN [s.p EXCEPT !.buf = << >>] ELSE s.p
  /\ b' = s.b
  /\ warned' = (warned \/ ~s.ok)
  /\ UNCHANGED status

S0 == Start(p, b)

StartsElement(tag) ==
  /\ status = "parsing"
  /\ Cardinality(EventsOf("open")) < MaxElements
  /\ open = << >> => read = << >>
  /\ tag \in Tags
  /\ read' = Append(read, Event("open", tag))
  /\ open' = Push(open, tag)

EndsElement(tag) ==
  /\ status = "parsing"
  /\ Top(open) = tag
  /\ read' = Append(read, Event("close", tag))
  /\ open' = Pop(open)

(***************************************************************************)
(* llsd_xml_start_tag, by element type.                                    *)
(***************************************************************************)
StartLlsd(luck) ==
  StartsElement("llsd") /\ Handled(PushState(S0, "TOP_LEVEL", luck))

StartScalar ==
  StartsElement("scalar") /\ Handled(begin_value(S0, BEGIN_VALUE_STATES))

StartString ==
  StartsElement("string") /\ Handled(begin_value(S0, BEGIN_STRING_STATES))

StartArray(luck) ==
  LET s1 == begin_value(S0, BEGIN_VALUE_STATES)
      s2 == Call(s1, llsd_array_begin_fn(s1.b, luck))
  IN  StartsElement("array") /\ Handled(PushState(s2, "ARRAY_BEGIN", luck))

StartMap(luck) ==
  LET s1 == begin_value(S0, BEGIN_VALUE_STATES)
      s2 == Call(s1, llsd_map_begin_fn(s1.b, luck))
  IN  StartsElement("map") /\ Handled(PushState(s2, "MAP_BEGIN", luck))

StartUnknown == StartsElement("unknown") /\ Handled(S0)

(***************************************************************************)
(* llsd_xml_end_tag, by element type.  A scalar's text may be malformed,   *)
(* for integer_from_buf, real_from_buf, uuid_from_buf, binary_from_buf or  *)
(* date_from_buf; a string's never is.                                     *)
(***************************************************************************)
Converts(luck) == luck # "malformed"

(***************************************************************************)
(* The texts a string or a uri may be made from.  The zero behind it is    *)
(* appended to the buffer first, and nobody looks at whether that was      *)
(* done; without it the text goes on with what memory holds next, and may  *)
(* be anything that begins with the buffer.                                *)
(***************************************************************************)
TextsRead(luck) ==
  {p.buf} \union {Append(p.buf, next) : next \in
                     IF luck = "no_buffer" /\ p.buf # << >> THEN Texts ELSE {}}

EndLlsd == EndsElement("llsd") /\ Handled(PopState(S0))

EndScalar(luck) ==
  \E text \in TextsRead(luck) :
    LET s1 == Check(S0, Converts(luck))
        s2 == value(Call(s1, scalar_fn(s1.b, text, luck)), VALUE_STATES)
    IN  EndsElement("scalar") /\ Handled(end_value(s2, END_VALUE_STATES))

EndString(luck) ==
  \E text \in TextsRead(luck) :
    LET s1 == value(Call(S0, llsd_string_fn(b, text, luck)), STRING_STATES)
    IN  EndsElement("string") /\ Handled(end_value(s1, END_STRING_STATES))

EndArray ==
  LET s1 == value(PopState(Call(S0, llsd_array_end_fn(b))), VALUE_STATES)
  IN  EndsElement("array") /\ Handled(end_value(s1, END_VALUE_STATES))

EndMap ==
  LET s1 == value(PopState(Call(S0, llsd_map_end_fn(b))), VALUE_STATES)
  IN  EndsElement("map") /\ Handled(end_value(s1, END_VALUE_STATES))

EndUnknown == EndsElement("unknown") /\ Handled(S0)

(***************************************************************************)
(* llsd_xml_data_handler: whatever element it stands in, text is gathered, *)
(* or lost when the buffer can not grow.                                   *)
(***************************************************************************)
CharacterData(text, luck) ==
  /\ status = "parsing"
  /\ open # << >>
  /\ Cardinality(EventsOf("text")) < MaxTexts
  /\ read' = Append(read, Event("text", text))
  /\ IF luck = "no_buffer"
     THEN warned' = TRUE /\ UNCHANGED p
     ELSE p' = [p EXCEPT !.buf = Append(@, text)] /\ UNCHANGED warned
  /\ UNCHANGED <<open, b, status>>

(***************************************************************************)
(* Expat calls back no more, be it the end of the file or a syntax error,  *)
(* which is only logged.                                                   *)
(***************************************************************************)
EndOfFile ==
  /\ status = "parsing"
  /\ status' = Outcome(b, TRUE)
  /\ b' = delete_stacks(b)
  /\ UNCHANGED <<read, open, p, warned>>

Next ==
  \/ /\ \/ StartScalar \/ StartString \/ StartUnknown
        \/ EndLlsd \/ EndArray \/ EndMap \/ EndUnknown
        \/ EndOfFile
     /\ UNCHANGED lucky
  \/ \E luck \in Lucks :
       /\ \/ StartLlsd(luck) \/ StartArray(luck) \/ StartMap(luck)
          \/ EndScalar(luck) \/ EndString(luck)
          \/ \E text \in Texts : CharacterData(text, luck)
       /\ lucky' = (lucky /\ luck = "ok")

Spec == Init /\ [][Next]_vars

-----------------------------------------------------------------------------
TypeOK ==
  /\ read \in Seq([sym : {"open", "close", "text"}, val : Tags \union Texts])
  /\ open \in Seq(Tags)
  /\ p \in [state_stack : Seq(States), buf : Seq(Texts)]
  /\ warned \in BOOLEAN /\ lucky \in BOOLEAN
  /\ status \in {"parsing", "returned", "null"}

(***************************************************************************)
(* In a file with one llsd element, the root, the parser's stack and the   *)
(* builder's agree as long as no handler has failed and no PUSH is lost.   *)
(***************************************************************************)
LockStepUntilWarned ==
  status = "parsing" /\ ~warned /\ open # << >> /\ open[1] = "llsd"
    /\ (\A i \in EventsOf("open") : i > 1 => read[i].val # "llsd") =>
    InLockStep(p.state_stack, b.state_stack)
=============================================================================
