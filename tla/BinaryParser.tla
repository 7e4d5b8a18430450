---------------------------- MODULE BinaryParser ----------------------------
(***************************************************************************)
(* llsd_binary_parse_file with the tree builder behind it.                 *)
(*                                                                         *)
(* A token is what one turn of the parser's loop reads: a type marker with *)
(* its fixed or sized payload, or a bracket.  The element count after an   *)
(* opening bracket is a hint for the container's size and nothing checks   *)
(* it.  An unknown marker, or a payload cut short, is the token "garbage". *)
(***************************************************************************)
EXTENDS ParserOps

CONSTANTS
  Values,       \* payloads of scalars and strings
  Lucks,        \* what the calls outside src/ may answer
  MaxTokens     \* tokens in a document (bounds the run)

ASSUME LucksAssumption == Lucks \subseteq Luck \union LostPush
ASSUME MaxTokensAssumption == MaxTokens \in Nat

(* No stack fails to grow when a container opens, so no PUSH is lost. *)
StacksGrow == Lucks \cap LostPush = {}

VARIABLES
  read,         \* the tokens read so far
  p,            \* bs_state_t: the parser's state_stack
  b,            \* the builder
  lucky,        \* every call outside src/ has answered "ok" so far
  status        \* "parsing", then the parse's end: "returned" or "null"

vars == <<read, p, b, lucky, status>>

Token(sym, val) == [sym |-> sym, val |-> val]
Tokens == [sym : {"scalar", "string"}, val : Values]
          \union [sym : {"[", "]", "{", "}", "garbage"}, val : {"none"}]

Init ==
  /\ read = << >>
  /\ p = [state_stack |-> <<"TOP_LEVEL">>]
  /\ b = EmptyBuilder
  /\ lucky = TRUE
  /\ status = "parsing"

(***************************************************************************)
(* One turn of the loop: the run s of the token's handler.  A failed check *)
(* ends the parse, and llsd_parse_from_file then returns NULL.  Luck is    *)
(* what the calls it makes outside src/ have answered.                     *)
(***************************************************************************)
Turn(token, luck, s) ==
  /\ status = "parsing"
  /\ Len(read) < MaxTokens
  /\ read' = Append(read, token)
  /\ p' = s.p
  /\ lucky' = (lucky /\ luck = "ok")
  /\ IF s.ok THEN b' = s.b /\ UNCHANGED status
             ELSE b' = delete_stacks(s.b) /\ status' = Outcome(s.b, FALSE)

S0 == Start(p, b)

(***************************************************************************)
(* Nothing separates values, so each one is ended where it stands.         *)
(***************************************************************************)
Scalar(val, luck) ==
  LET s1 == begin_value(S0, BEGIN_VALUE_STATES)
      s2 == value(Call(s1, scalar_fn(s1.b, val, luck)), VALUE_STATES)
  IN  Turn(Token("scalar", val), luck, end_value(s2, END_VALUE_STATES))

(* Bug for the checks: a string is begun like any scalar. *)
String_NeverAKey(val, luck) ==
  LET s1 == begin_value(S0, BEGIN_VALUE_STATES)
      s2 == value(Call(s1, llsd_string_fn(s1.b, val, luck)), STRING_STATES)
  IN  Turn(Token("string", val), luck, end_value(s2, END_STRING_STATES))
String(val, luck) ==
  LET s1 == begin_value(S0, BEGIN_STRING_STATES)
      s2 == value(Call(s1, llsd_string_fn(s1.b, val, luck)), STRING_STATES)
  IN  Turn(Token("string", val), luck, end_value(s2, END_STRING_STATES))

OpenArray(luck) ==
  LET s1 == begin_value(S0, BEGIN_VALUE_STATES)
      s2 == Call(s1, llsd_array_begin_fn(s1.b, luck))
  IN  Turn(Token("[", "none"), luck, PushState(s2, "ARRAY_BEGIN", luck))

OpenMap(luck) ==
  LET s1 == begin_value(S0, BEGIN_VALUE_STATES)
      s2 == Call(s1, llsd_map_begin_fn(s1.b, luck))
  IN  Turn(Token("{", "none"), luck, PushState(s2, "MAP_BEGIN", luck))

(***************************************************************************)
(* The parser does not look at its own state before it pops a frame: the   *)
(* builder's verdict on the bracket is the only check.                     *)
(***************************************************************************)
CloseArray ==
  LET s1 == PopState(Call(S0, llsd_array_end_fn(b)))
  IN  Turn(Token("]", "none"), "ok",
           end_value(value(s1, VALUE_STATES), END_VALUE_STATES))

CloseMap ==
  LET s1 == PopState(Call(S0, llsd_map_end_fn(b)))
  IN  Turn(Token("}", "none"), "ok",
           end_value(value(s1, VALUE_STATES), END_VALUE_STATES))

Garbage == Turn(Token("garbage", "none"), "ok", Stop(S0))

(***************************************************************************)
(* The parser returns TRUE wherever the file ends; whether that was the    *)
(* end of the document is for llsd_parse_from_file to find out.            *)
(***************************************************************************)
EndOfFile ==
  /\ status = "parsing"
  /\ status' = Outcome(b, TRUE)
  /\ b' = delete_stacks(b)
  /\ UNCHANGED <<read, p, lucky>>

Next ==
  \/ \E val \in Values, luck \in Lucks : Scalar(val, luck) \/ String(val, luck)
  \/ \E luck \in Lucks : OpenArray(luck) \/ OpenMap(luck)
  \/ CloseArray \/ CloseMap \/ Garbage \/ EndOfFile

Spec == Init /\ [][Next]_vars

-----------------------------------------------------------------------------
TypeOK ==
  /\ read \in Seq(Tokens)
  /\ p \in [state_stack : Seq(States)]
  /\ lucky \in BOOLEAN
  /\ status \in {"parsing", "returned", "null"}

(***************************************************************************)
(* The two state stacks, kept by two files that never read each other's,   *)
(* agree between any two tokens, on values that have been ended, as long   *)
(* as no PUSH of theirs is lost.                                           *)
(***************************************************************************)
LockStep ==
  status = "parsing" =>
    /\ InLockStep(p.state_stack, b.state_stack)
    /\ Top(p.state_stack) \in {"TOP_LEVEL", "ARRAY_BEGIN", "ARRAY_VALUE_END",
                               "MAP_BEGIN", "MAP_KEY_END", "MAP_VALUE_END"}
=============================================================================
