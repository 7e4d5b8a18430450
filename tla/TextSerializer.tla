--------------------------- MODULE TextSerializer ---------------------------
(***************************************************************************)
(* The callbacks of llsd_notation_serializer.c and llsd_json_serializer.c. *)
(* The two files write the same punctuation and keep the same state; they  *)
(* differ in the notation's signature and in how they spell a value.       *)
(***************************************************************************)
EXTENDS SerializerOps

Punct(sym) == Token(sym, "none")

notation_init(s) == CheckedWrite(s, Signature)
json_init(s)     == s

(***************************************************************************)
(* A string's writes are not checked, nor are those of some scalars.       *)
(***************************************************************************)
text_string(s, node) == Write(s, Token("string", node.val))
text_scalar(s, node) == ScalarWrite(s, Token("scalar", node.val))

text_value(s, node) ==
  IF node.kind = "string" THEN text_string(s, node) ELSE text_scalar(s, node)

(***************************************************************************)
(* Which bracket stands on the new line is decided by map_value, a static  *)
(* variable of the file that outlives the serialization.                   *)
(***************************************************************************)
text_begin(s, node, bracket) ==
  LET s1 == PUSHML(PUSHC(s), size(node) > 1)
      s2 == IF s.st.map_value /\ size(node) > 1 THEN NewLine(s1) ELSE s1
  IN  INC_INDENT(CheckedWrite(s2, Punct(bracket)))

COMMA(s) ==
  IF TopObj(s.st.count_stack) # 0 THEN Write(s, Punct(",")) ELSE s

text_array_value_begin(s) == NewLine(COMMA(s))
text_map_key_begin(s)     == NewLine(COMMA(s))
text_map_key_end(s)       == Write(s, Punct(":"))
(* Bug for the checks: a value that begins twice is refused. *)
text_map_value_begin_Once(s) ==
  [s EXCEPT !.st.map_value = TRUE, !.ok = @ /\ ~s.st.map_value]
text_map_value_begin(s)   == [s EXCEPT !.st.map_value = TRUE]

(* Bug for the checks: a value is counted only when it follows another. *)
CountValue_AfterFirst(s) ==
  [s EXCEPT !.st.count_stack =
     Replace(@, IF TopObj(@) = 0 THEN 0 ELSE TopObj(@) + 1)]
CountValue(s) ==
  [s EXCEPT !.st.count_stack = Replace(@, TopObj(@) + 1)]
text_array_value_end(s) == CountValue(s)
text_map_value_end(s) ==
  [CountValue(s) EXCEPT !.st.map_value = FALSE]

text_end(s, bracket) ==
  POPC(POPML(CheckedWrite(INDENT(DEC_INDENT(NL(s))), Punct(bracket))))

text_callback(s, call, node) ==
  CASE call = "value"             -> text_value(s, node)
    [] call = "array_begin"       -> text_begin(s, node, "[")
    [] call = "array_value_begin" -> text_array_value_begin(s)
    [] call = "array_value_end"   -> text_array_value_end(s)
    [] call = "array_end"         -> text_end(s, "]")
    [] call = "map_begin"         -> text_begin(s, node, "{")
    [] call = "map_key_begin"     -> text_map_key_begin(s)
    [] call = "map_key_end"       -> text_map_key_end(s)
    [] call = "map_value_begin"   -> text_map_value_begin(s)
    [] call = "map_value_end"     -> text_map_value_end(s)
    [] call = "map_end"           -> text_end(s, "}")

(***************************************************************************)
(* The count stack is gone before the other stack is looked at.            *)
(***************************************************************************)
text_deinit(s) == IF TOPML(s.st) THEN [s EXCEPT !.ok = FALSE] ELSE s
=============================================================================
