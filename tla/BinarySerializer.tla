-------------------------- MODULE BinarySerializer --------------------------
(***************************************************************************)
(* The callbacks of llsd_binary_serializer.c: a marker and a payload per   *)
(* value, every write checked, no state but the file.                      *)
(***************************************************************************)
EXTENDS SerializerOps

binary_init(s) == CheckedWrite(s, Signature)

(* Bug for the checks: the writes of an ending bracket are not checked. *)
binary_callback_Unchecked(s, call, node) ==
  CASE call = "value"       -> CheckedWrite(s, Token(node.kind, node.val))
    [] call = "array_begin" -> CheckedWrite(s, Token("[", "none"))
    [] call = "array_end"   -> Write(s, Token("]", "none"))
    [] call = "map_begin"   -> CheckedWrite(s, Token("{", "none"))
    [] call = "map_end"     -> Write(s, Token("}", "none"))
    [] OTHER                -> s

(* Bug for the checks: a map is announced as an array. *)
binary_callback_MapAsArray(s, call, node) ==
  CASE call = "value"       -> CheckedWrite(s, Token(node.kind, node.val))
    [] call = "array_begin" -> CheckedWrite(s, Token("[", "none"))
    [] call = "array_end"   -> CheckedWrite(s, Token("]", "none"))
    [] call = "map_begin"   -> CheckedWrite(s, Token("[", "none"))
    [] call = "map_end"     -> CheckedWrite(s, Token("]", "none"))
    [] OTHER                -> s

binary_callback(s, call, node) ==
  CASE call = "value"       -> CheckedWrite(s, Token(node.kind, node.val))
    [] call = "array_begin" -> CheckedWrite(s, Token("[", "none"))
    [] call = "array_end"   -> CheckedWrite(s, Token("]", "none"))
    [] call = "map_begin"   -> CheckedWrite(s, Token("{", "none"))
    [] call = "map_end"     -> CheckedWrite(s, Token("}", "none"))
    [] OTHER                -> s
=============================================================================
