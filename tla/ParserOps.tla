----------------------------- MODULE ParserOps -----------------------------
(***************************************************************************)
(* What the binary, notation, JSON and XML parsers have in common.  Each   *)
(* keeps a state stack of its own beside the builder's and carries a       *)
(* private copy of begin_value, value and end_value, which move the        *)
(* innermost frame through the life of one value and make the callback     *)
(* that goes with the move.                                                *)
(*                                                                         *)
(* A run s of a handler is what it has done so far: ok, whether every      *)
(* check has passed, p, the parser's own record (state_stack and, in some  *)
(* formats, more), and b, the builder.  After a failed check nothing more  *)
(* happens, which is CHECK_RET and CHECK_GOTO.                             *)
(***************************************************************************)
EXTENDS BuilderOps

Start(p, b) == [ok |-> TRUE, p |-> p, b |-> b]
Stop(s)     == [s EXCEPT !.ok = FALSE]

Check(s, cond) == IF s.ok /\ ~cond THEN Stop(s) ELSE s

(***************************************************************************)
(* A callback whose outcome is r, as seen by the handler that makes it.    *)
(***************************************************************************)
(* Bug for the checks: the handler does not look at what it returned. *)
Call_Unchecked(s, r) == IF s.ok THEN [s EXCEPT !.b = r.b] ELSE s
Call(s, r) == IF s.ok THEN [s EXCEPT !.ok = r.ok, !.b = r.b] ELSE s

(***************************************************************************)
(* The parser's own PUSH of a container's frame, whose result it ignores,  *)
(* and its POP.                                                            *)
(***************************************************************************)
PushState(s, x, luck) ==
  IF s.ok /\ luck \notin {"no_frame", "no_stacks"}
  THEN [s EXCEPT !.p.state_stack = Push(@, x)] ELSE s
(* Bug for the checks: the frame moves on to an end state instead. *)
PopState_MovesToEnd(s) ==
  IF s.ok THEN [s EXCEPT !.p.state_stack = Replace(@, "ARRAY_END")] ELSE s
PopState(s) == IF s.ok THEN [s EXCEPT !.p.state_stack = Pop(@)] ELSE s
MoveTo(s, x) ==
  IF s.ok THEN [s EXCEPT !.p.state_stack = Replace(@, x)] ELSE s

(***************************************************************************)
(* The callback that announces a move of the innermost frame to next; at   *)
(* top level there is none.                                                *)
(***************************************************************************)
Announce(b, next) ==
  CASE next = "ARRAY_VALUE_BEGIN" -> llsd_array_value_begin_fn(b)
    [] next = "ARRAY_VALUE_END"   -> llsd_array_value_end_fn(b)
    [] next = "MAP_KEY_BEGIN"     -> llsd_map_key_begin_fn(b)
    [] next = "MAP_KEY_END"       -> llsd_map_key_end_fn(b)
    [] next = "MAP_VALUE_BEGIN"   -> llsd_map_value_begin_fn(b)
    [] next = "MAP_VALUE_END"     -> llsd_map_value_end_fn(b)
    [] next = "TOP_LEVEL"         -> Succeeds(b)

(* Bug for the checks: the builder is not told. *)
Step_TellsNobody(s, valid_states, table) ==
  LET state == Top(s.p.state_stack)
  IN  IF s.ok /\ state \in valid_states
      THEN MoveTo(s, table[state])
      ELSE Stop(s)

Step(s, valid_states, table) ==
  LET state == Top(s.p.state_stack)
  IN  IF s.ok /\ state \in valid_states
      THEN MoveTo(Call(s, Announce(s.b, table[state])), table[state])
      ELSE Stop(s)

begin_value(s, valid_states) == Step(s, valid_states, BeginOf)
end_value(s, valid_states)   == Step(s, valid_states, EndOf)

(***************************************************************************)
(* value tells nobody: the builder has moved its own frame when it got the *)
(* value.                                                                  *)
(***************************************************************************)
value(s, valid_states) ==
  LET state == Top(s.p.state_stack)
  IN  IF s.ok /\ state \in valid_states
      THEN MoveTo(s, ValueOf[state])
      ELSE Stop(s)

-----------------------------------------------------------------------------
(***************************************************************************)
(* How a parser's stack s and the builder's stack t are related.  The      *)
(* innermost frames are in the same state.  A frame that an inner          *)
(* container covers differs: the builder is told of a container when it    *)
(* begins, the parser notes the value when it has ended.                   *)
(***************************************************************************)
Covered == [TOP_LEVEL         |-> "TOP_LEVEL",
            ARRAY_VALUE_BEGIN |-> "ARRAY_VALUE",
            MAP_VALUE_BEGIN   |-> "MAP_VALUE"]

InLockStep(s, t) ==
  /\ Len(s) > 0
  /\ Len(t) = Len(s)
  /\ t[Len(s)] = s[Len(s)]
  /\ \A i \in 1 .. Len(s) - 1 : s[i] \in DOMAIN Covered /\ t[i] = Covered[s[i]]
=============================================================================
