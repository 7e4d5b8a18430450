----------------------------- MODULE LLSDTypes -----------------------------
(***************************************************************************)
(* Vocabulary shared by the models of the LLSD parsers and serializers:    *)
(* the states of the event protocol (state_t in llsd.h), the kinds of LLSD *)
(* values the protocol tells apart, and the stack discipline of the cutil  *)
(* lists the code uses as stacks.                                          *)
(***************************************************************************)
EXTENDS Naturals, Sequences

(***************************************************************************)
(* state_t.  The enumerators are distinct bits and a set of valid states   *)
(* is a mask; here a state is a string and a mask is a set of states.      *)
(* ARRAY_END and MAP_END are declared by the code and never entered.       *)
(***************************************************************************)
ArrayStates == {"ARRAY_BEGIN", "ARRAY_VALUE_BEGIN", "ARRAY_VALUE",
                "ARRAY_VALUE_END"}
MapStates   == {"MAP_BEGIN", "MAP_KEY_BEGIN", "MAP_KEY", "MAP_KEY_END",
                "MAP_VALUE_BEGIN", "MAP_VALUE", "MAP_VALUE_END"}
States      == {"TOP_LEVEL"} \union ArrayStates \union MapStates

(***************************************************************************)
(* What list_get_head returns for an empty stack: 0, a bit in no mask.     *)
(***************************************************************************)
NoState == "NO_STATE"

(***************************************************************************)
(* Every type but these three behaves alike in the event protocol, so      *)
(* undef, boolean, integer, real, uuid, date, uri and binary are "scalar". *)
(***************************************************************************)
Kinds == {"scalar", "string", "array", "map"}

(***************************************************************************)
(* The list used as a stack; its head is the last element here.  POP of an *)
(* empty list does nothing.                                                *)
(***************************************************************************)
Top(s)     == IF s = << >> THEN NoState ELSE s[Len(s)]
TopObj(s)  == IF s = << >> THEN 0 ELSE s[Len(s)]
Push(s, x) == Append(s, x)
Pop(s)     == SubSeq(s, 1, Len(s) - 1)

(***************************************************************************)
(* The pair  POP; PUSH( x )  by which every handler moves a frame on.      *)
(***************************************************************************)
Replace(s, x) == IF s = << >> THEN <<x>> ELSE [s EXCEPT ![Len(s)] = x]

(***************************************************************************)
(* Where one value moves the frame it belongs to: the three moves of a     *)
(* value's life, begun, delivered and ended.                               *)
(***************************************************************************)
BeginOf == [TOP_LEVEL       |-> "TOP_LEVEL",
            ARRAY_BEGIN     |-> "ARRAY_VALUE_BEGIN",
            ARRAY_VALUE_END |-> "ARRAY_VALUE_BEGIN",
            MAP_BEGIN       |-> "MAP_KEY_BEGIN",
            MAP_VALUE_END   |-> "MAP_KEY_BEGIN",
            MAP_KEY_END     |-> "MAP_VALUE_BEGIN"]

ValueOf == [TOP_LEVEL         |-> "TOP_LEVEL",
            ARRAY_VALUE_BEGIN |-> "ARRAY_VALUE",
            MAP_KEY_BEGIN     |-> "MAP_KEY",
            MAP_VALUE_BEGIN   |-> "MAP_VALUE"]

EndOf == [TOP_LEVEL   |-> "TOP_LEVEL",
          ARRAY_VALUE |-> "ARRAY_VALUE_END",
          MAP_KEY     |-> "MAP_KEY_END",
          MAP_VALUE   |-> "MAP_VALUE_END"]

(***************************************************************************)
(* The masks of the handlers.  A string may also stand for a map key.      *)
(***************************************************************************)
BEGIN_VALUE_STATES  == {"TOP_LEVEL", "ARRAY_BEGIN", "ARRAY_VALUE_END",
                        "MAP_KEY_END"}
BEGIN_STRING_STATES == BEGIN_VALUE_STATES \union {"MAP_VALUE_END", "MAP_BEGIN"}
VALUE_STATES        == {"TOP_LEVEL", "ARRAY_VALUE_BEGIN", "MAP_VALUE_BEGIN"}
STRING_STATES       == VALUE_STATES \union {"MAP_KEY_BEGIN"}
END_VALUE_STATES    == {"TOP_LEVEL", "ARRAY_VALUE", "MAP_VALUE"}
END_STRING_STATES   == END_VALUE_STATES \union {"MAP_KEY"}

(***************************************************************************)
(* A handler's outcome: the value it returns and the state it leaves,      *)
(* which a failing handler may have changed already.                       *)
(***************************************************************************)
Succeeds(x) == [ok |-> TRUE,  b |-> x]
Fails(x)    == [ok |-> FALSE, b |-> x]
=============================================================================
