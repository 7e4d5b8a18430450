--------------------------- MODULE SerializerOps ---------------------------
(***************************************************************************)
(* What the four serializers have in common.  A serializer is a table of   *)
(* callbacks over a state of its own; its state st here is                 *)
(*   out              what is in the file, as tokens                       *)
(*   count_stack      values written so far, one count per open container  *)
(*   multiline_stack  whether each open container has a line per value     *)
(*   indent           how deep the next line is indented                   *)
(*   key              a map key is being written (XML)                     *)
(*   map_value        a map's value is being written (static, see below)   *)
(*   pretty           the caller asked for line breaks                     *)
(*   lost             some write did not reach the file                    *)
(*                                                                         *)
(* A run s of a callback carries st, ok, whether every check has passed,   *)
(* and the fault the file system has in store: after how many writes one   *)
(* fails (0 for none), and whether the code notices when it is a scalar's, *)
(* which it does for some types and not for others.                        *)
(***************************************************************************)
EXTENDS LLSDTypes, Integers

Token(sym, val) == [sym |-> sym, val |-> val]
Space == Token("text", "space")
Signature == Token("signature", "none")

(***************************************************************************)
(* A value to be written.  kids is what an iterator from llsd_itr_begin to *)
(* llsd_itr_end passes, with keys and values alternating in a map; size is *)
(* llsd_get_count.                                                         *)
(***************************************************************************)
HasKids(node) == node.kind \in {"array", "map"}
size(node) == IF node.kind = "map" THEN Len(node.kids) \div 2
                                   ELSE Len(node.kids)

(***************************************************************************)
(* A set of values that holds the kids of every container in it.           *)
(***************************************************************************)
IsClosed(N) == \A n \in N : n.kind \in Kinds /\ n.kids \in Seq(N)

NoFault == [left |-> 0, noticed |-> FALSE]
Run(st, fault) == [ok |-> TRUE, st |-> st, fault |-> fault]

Breaks(s) == s.fault.left = 1
Written(s, token) ==
  [s EXCEPT !.st.out = Append(@, token),
            !.fault.left = IF @ > 0 THEN @ - 1 ELSE 0]
Lost(s) == [s EXCEPT !.st.lost = TRUE, !.fault.left = 0]

(***************************************************************************)
(* A write whose result is ignored, and one whose result is checked.       *)
(***************************************************************************)
Write(s, token) ==
  IF ~s.ok THEN s ELSE IF Breaks(s) THEN Lost(s) ELSE Written(s, token)
(* Bug for the checks: ferror is asked, which stays set after a failure. *)
CheckedWrite_AsksFerror(s, token) ==
  IF s.ok /\ (Breaks(s) \/ s.st.lost) THEN [Lost(s) EXCEPT !.ok = FALSE]
                                      ELSE Write(s, token)
CheckedWrite(s, token) ==
  IF s.ok /\ Breaks(s) THEN [Lost(s) EXCEPT !.ok = FALSE]
                       ELSE Write(s, token)
ScalarWrite(s, token) ==
  IF s.fault.noticed THEN CheckedWrite(s, token) ELSE Write(s, token)

(***************************************************************************)
(* PUSHML, POPML, PUSHC, POPC, NL, INDENT, INC_INDENT and DEC_INDENT.      *)
(***************************************************************************)
TOPML(st) == st.multiline_stack # << >> /\
             st.multiline_stack[Len(st.multiline_stack)]
PUSHML(s, x) == IF s.ok THEN [s EXCEPT !.st.multiline_stack = Push(@, x)] ELSE s
POPML(s)     == IF s.ok THEN [s EXCEPT !.st.multiline_stack = Pop(@)] ELSE s
PUSHC(s)     == IF s.ok THEN [s EXCEPT !.st.count_stack = Push(@, 0)] ELSE s
(* Bug for the checks: the count of a written container is left behind. *)
POPC_Never(s) == s
POPC(s)      == IF s.ok THEN [s EXCEPT !.st.count_stack = Pop(@)] ELSE s

NL(s)     == IF s.st.pretty /\ TOPML(s.st) THEN Write(s, Space) ELSE s
INDENT(s) == IF s.st.pretty /\ s.st.indent # 0 /\ TOPML(s.st)
             THEN Write(s, Space) ELSE s
NewLine(s) == INDENT(NL(s))

AddIndent(s, n) ==
  IF s.ok /\ s.st.pretty THEN [s EXCEPT !.st.indent = @ + n] ELSE s
(* Bug for the checks: a container that begins does not indent. *)
INC_INDENT_Never(s) == s
INC_INDENT(s) == AddIndent(s, 1)
DEC_INDENT(s) == AddIndent(s, -1)
=============================================================================
