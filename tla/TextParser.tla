----------------------------- MODULE TextParser -----------------------------
(***************************************************************************)
(* llsd_notation_parse_file and llsd_json_parse_file with the tree builder *)
(* behind them.  The two share their machine: values are followed by       *)
(* punctuation, a comma or a colon ends the value or the key before it,    *)
(* and a closing bracket ends the last value of a container that is not    *)
(* empty, which a second stack, of counts, is kept for.                    *)
(*                                                                         *)
(* A token is what one turn of the parser's loop reads: a scalar, a quoted *)
(* or sized string, or a punctuation character.  Text from which no token  *)
(* can be made is the token "garbage".                                     *)
(***************************************************************************)
EXTENDS ParserOps

CONSTANTS
  Values,       \* payloads of scalars and strings
  Lucks,        \* what the calls outside src/ may answer
  MaxTokens     \* tokens in a document (bounds the run)

ASSUME LucksAssumption == Lucks \subseteq Luck \union LostPush
ASSUME MaxTokensAssumption == MaxTokens \in Nat

(* No stack fails to grow when a container opens, so no PUSH is lost. *)
StacksGrow == Lucks \cap LostPush = {}

VARIABLES
  read,         \* the tokens read so far
  p,            \* ns_state_t, js_state_t: state_stack and count_stack
  b,            \* the builder
  lucky,        \* every call outside src/ has answered "ok" so far
  status        \* "parsing", then the parse's end: "returned" or "null"

vars == <<read, p, b, lucky, status>>

Punctuation == {"[", "]", "{", "}", ",", ":", "garbage"}
Token(sym, val) == [sym |-> sym, val |-> val]
Tokens == [sym : {"scalar", "string"}, val : Values]
          \union [sym : Punctuation, val : {"none"}]

Init ==
  /\ read = << >>
  /\ p = [state_stack |-> <<"TOP_LEVEL">>, count_stack |-> << >>]
  /\ b = EmptyBuilder
  /\ lucky = TRUE
  /\ status = "parsing"

(***************************************************************************)
(* The count stack.  incc counts a value of the innermost container; the   *)
(* count of an empty stack reads as 0.                                     *)
(***************************************************************************)
TopCount == TopObj(p.count_stack)
PushCount(s, luck) ==
  IF s.ok /\ luck \notin {"no_count", "no_stacks"}
  THEN [s EXCEPT !.p.count_stack = Push(@, 0)] ELSE s
PopCount(s) == IF s.ok THEN [s EXCEPT !.p.count_stack = Pop(@)] ELSE s
(* Bug for the checks: keys are counted too. *)
incc_CountsKeys(s) ==
  IF s.ok /\ Top(s.p.state_stack) \in {"ARRAY_VALUE", "MAP_KEY", "MAP_VALUE"}
  THEN [s EXCEPT !.p.count_stack = Replace(@, TopObj(@) + 1)]
  ELSE s
incc(s) ==
  IF s.ok /\ Top(s.p.state_stack) \in {"ARRAY_VALUE", "MAP_VALUE"}
  THEN [s EXCEPT !.p.count_stack = Replace(@, TopObj(@) + 1)]
  ELSE s

counted_value(s, valid_states) == incc(value(s, valid_states))

(***************************************************************************)
(* One turn of the loop: the run s of the token's handler.  A failed check *)
(* ends the parse, and llsd_parse_from_file then returns NULL.  Luck is    *)
(* what the calls it makes outside src/ have answered.                     *)
(***************************************************************************)
Turn(token, luck, s) ==
  /\ status = "parsing"
  /\ Len(read) < MaxTokens
  /\ read' = Append(read, token)
  /\ p' = s.p
  /\ lucky' = (lucky /\ luck = "ok")
  /\ IF s.ok THEN b' = s.b /\ UNCHANGED status
             ELSE b' = delete_stacks(s.b) /\ status' = Outcome(s.b, FALSE)

S0 == Start(p, b)

Scalar(val, luck) ==
  LET s1 == begin_value(S0, BEGIN_VALUE_STATES)
      s2 == Call(s1, scalar_fn(s1.b, val, luck))
  IN  Turn(Token("scalar", val), luck, counted_value(s2, VALUE_STATES))

String(val, luck) ==
  LET s1 == begin_value(S0, BEGIN_STRING_STATES)
      s2 == Call(s1, llsd_string_fn(s1.b, val, luck))
  IN  Turn(Token("string", val), luck, counted_value(s2, STRING_STATES))

OpenArray(luck) ==
  LET s1 == begin_value(S0, BEGIN_VALUE_STATES)
      s2 == Call(s1, llsd_array_begin_fn(s1.b, luck))
  IN  Turn(Token("[", "none"), luck, PushCount(PushState(s2, "ARRAY_BEGIN", luck), luck))

OpenMap(luck) ==
  LET s1 == begin_value(S0, BEGIN_VALUE_STATES)
      s2 == Call(s1, llsd_map_begin_fn(s1.b, luck))
  IN  Turn(Token("{", "none"), luck, PushCount(PushState(s2, "MAP_BEGIN", luck), luck))

(***************************************************************************)
(* There is no comma after a container's last value, so the bracket ends   *)
(* it.  The parser pops its stacks before the builder has agreed.          *)
(***************************************************************************)
(* Bug for the checks: the state decides, not the count. *)
EndLastValue_IfAny(state) ==
  IF Top(p.state_stack) = state THEN end_value(S0, {state}) ELSE S0
(* Bug for the checks: empty containers are not thought of. *)
EndLastValue_Always(state) == end_value(S0, {state})
EndLastValue(state) ==
  IF TopCount # 0 THEN end_value(S0, {state}) ELSE S0

CloseArray ==
  LET s1 == PopCount(PopState(EndLastValue("ARRAY_VALUE")))
      s2 == Call(s1, llsd_array_end_fn(s1.b))
  IN  Turn(Token("]", "none"), "ok", counted_value(s2, VALUE_STATES))

CloseMap ==
  LET s1 == PopCount(PopState(EndLastValue("MAP_VALUE")))
      s2 == Call(s1, llsd_map_end_fn(s1.b))
  IN  Turn(Token("}", "none"), "ok", counted_value(s2, VALUE_STATES))

Comma == Turn(Token(",", "none"), "ok", end_value(S0, {"ARRAY_VALUE", "MAP_VALUE"}))
Colon == Turn(Token(":", "none"), "ok", end_value(S0, {"MAP_KEY"}))

Garbage == Turn(Token("garbage", "none"), "ok", Stop(S0))

(***************************************************************************)
(* End of file, and the end of llsd_parse_from_file.                       *)
(***************************************************************************)
EndOfFile ==
  /\ status = "parsing"
  /\ status' = Outcome(b, Top(p.state_stack) = "TOP_LEVEL")
  /\ b' = delete_stacks(b)
  /\ UNCHANGED <<read, p, lucky>>

Next ==
  \/ \E val \in Values, luck \in Lucks : Scalar(val, luck) \/ String(val, luck)
  \/ \E luck \in Lucks : OpenArray(luck) \/ OpenMap(luck)
  \/ CloseArray \/ CloseMap \/ Comma \/ Colon \/ Garbage
  \/ EndOfFile

Spec == Init /\ [][Next]_vars

-----------------------------------------------------------------------------
TypeOK ==
  /\ read \in Seq(Tokens)
  /\ p \in [state_stack : Seq(States), count_stack : Seq(Nat)]
  /\ lucky \in BOOLEAN
  /\ status \in {"parsing", "returned", "null"}

(***************************************************************************)
(* The two state stacks, kept by two files that never read each other's,   *)
(* agree between any two tokens, as long as no PUSH of theirs is lost.     *)
(***************************************************************************)
LockStep == status = "parsing" => InLockStep(p.state_stack, b.state_stack)

(***************************************************************************)
(* A count is the number of values its container holds, the one still open *)
(* not counted; in a map a pair counts once.  A PUSHC that is lost, the    *)
(* parser's or the builder's, breaks it.                                   *)
(***************************************************************************)
ValuesIn(o) == IF b.heap[o].kind = "map" THEN Len(b.heap[o].kids) \div 2
                                         ELSE Len(b.heap[o].kids)

CountsAreValues ==
  status = "parsing" =>
    LET n == Len(p.count_stack)
    IN  /\ Len(b.container_stack) = n
        /\ \A i \in 1 .. n :
             p.count_stack[i] + (IF i < n THEN 1 ELSE 0)
               = ValuesIn(b.container_stack[i])
=============================================================================
