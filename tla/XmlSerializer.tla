--------------------------- MODULE XmlSerializer ---------------------------
(***************************************************************************)
(* The callbacks of llsd_xml_serializer.c.  What is written is given as    *)
(* what an XML parser reports of it: tags that open and close, and texts.  *)
(* A value that is zero or empty is written as an empty element.           *)
(***************************************************************************)
EXTENDS SerializerOps

Open(tag)  == Token("open", tag)
Close(tag) == Token("close", tag)
Text(val)  == Token("text", val)
(* One write, so that a fault loses both tags. *)
EmptyElement(s, tag) ==
  LET s1 == Write(s, Open(tag))
  IN  IF s.ok /\ ~Breaks(s)
      THEN [s1 EXCEPT !.st.out = Append(@, Close(tag))]
      ELSE s1

xml_init(s) == Write(CheckedWrite(s, Signature), Open("llsd"))

(***************************************************************************)
(* A key's element is written by the callbacks around it.                  *)
(***************************************************************************)
WriteString(s, val) == IF val = "zero" THEN s ELSE Write(s, Text(val))

xml_string(s, node) ==
  IF s.st.key THEN WriteString(s, node.val)
  ELSE IF node.val = "zero" THEN EmptyElement(s, "string")
  ELSE Write(WriteString(Write(s, Open("string")), node.val), Close("string"))

xml_scalar(s, node) ==
  IF node.val = "zero" THEN EmptyElement(s, "scalar")
  ELSE Write(ScalarWrite(Write(s, Open("scalar")), Text(node.val)),
             Close("scalar"))

xml_value(s, node) ==
  IF node.kind = "string" THEN xml_string(s, node) ELSE xml_scalar(s, node)

(***************************************************************************)
(* An empty container is written whole when it begins.                     *)
(***************************************************************************)
xml_begin(s, node) ==
  LET s1 == PUSHML(NewLine(s), size(node) > 1)
  IN  INC_INDENT(IF size(node) = 0 THEN EmptyElement(s1, node.kind)
                                   ELSE Write(s1, Open(node.kind)))

xml_array_value_begin(s) == NewLine(s)
xml_map_key_begin(s) ==
  [Write(NewLine(s), Open("string")) EXCEPT !.st.key = TRUE]
(* Bug for the checks: the key flag is not reset. *)
xml_map_key_end_KeepsFlag(s) == Write(s, Close("string"))
xml_map_key_end(s) == [Write(s, Close("string")) EXCEPT !.st.key = FALSE]

(* Bug for the checks: an empty container's end tag is written again. *)
xml_end_Always(s, node) ==
  POPML(Write(INDENT(DEC_INDENT(NL(s))), Close(node.kind)))
xml_end(s, node) ==
  LET s1 == INDENT(DEC_INDENT(NL(s)))
  IN  POPML(IF size(node) > 0 THEN Write(s1, Close(node.kind)) ELSE s1)

xml_callback(s, call, node) ==
  CASE call = "value"                      -> xml_value(s, node)
    [] call \in {"array_begin", "map_begin"} -> xml_begin(s, node)
    [] call = "array_value_begin"          -> xml_array_value_begin(s)
    [] call = "map_key_begin"              -> xml_map_key_begin(s)
    [] call = "map_key_end"                -> xml_map_key_end(s)
    [] call \in {"array_value_end", "map_value_begin", "map_value_end"} -> s
    [] call \in {"array_end", "map_end"}   -> xml_end(s, node)

xml_deinit(s) ==
  LET s1 == Write(NL(s), Close("llsd"))
  IN  IF TOPML(s.st) THEN s1 ELSE [s1 EXCEPT !.ok = FALSE]
=============================================================================
