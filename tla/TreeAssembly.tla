---------------------------- MODULE TreeAssembly ----------------------------
(***************************************************************************)
(* What llsd_parser.c promises its front ends and its caller, with neither *)
(* a heap nor an event protocol: values are put together from the inside   *)
(* out, an array being the sequence of its items and a map that of its     *)
(* pairs of a key and a value, and the caller gets a finished value or     *)
(* nothing.                                                                *)
(***************************************************************************)
EXTENDS Naturals, Sequences

CONSTANT Values        \* what leaves and keys carry

VARIABLES
  open,     \* containers begun and not ended: [kind, under, items]
  key,      \* the key read last that has no value yet, or Nothing
  value,    \* the last finished value that is in no container
  ended,    \* whether the parse is over
  outcome   \* what the caller gets then

vars == <<open, key, value, ended, outcome>>

Nothing == [kind |-> "nothing", val |-> "none", items |-> << >>]
Leaf(kind, val) == [kind |-> kind, val |-> val, items |-> << >>]
Container(kind, items) == [kind |-> kind, val |-> "none", items |-> items]

Init ==
  /\ open = << >>
  /\ key = Nothing
  /\ value = Nothing
  /\ ended = FALSE
  /\ outcome = Nothing

(* The stack with an item more in its innermost container. *)
WithItem(stack, item) ==
  [stack EXCEPT ![Len(stack)].items = Append(@, item)]

Ready == ~ended /\ UNCHANGED <<ended, outcome>>
InArray == open # << >> /\ open[Len(open)].kind = "array"
InMap   == open # << >> /\ open[Len(open)].kind = "map"

(***************************************************************************)
(* A leaf goes where the document is: to the top, to the end of an array,  *)
(* or into a map under the key read before it.                             *)
(***************************************************************************)
PutLeaf(leaf) ==
  /\ Ready
  /\ \/ open = << >> /\ value' = leaf /\ UNCHANGED <<open, key>>
     \/ InArray /\ open' = WithItem(open, leaf) /\ UNCHANGED <<key, value>>
     \/ /\ InMap /\ key # Nothing
        /\ open' = WithItem(open, <<key, leaf>>)
        /\ key' = Nothing
        /\ UNCHANGED value

PutKey(k) == Ready /\ InMap /\ key' = Leaf("string", k) /\ UNCHANGED <<open, value>>

(* Beginning a container takes the place, and the key, that it will have. *)
Begin(kind) ==
  /\ Ready
  /\ InMap => key # Nothing
  /\ open' = Append(open, [kind  |-> kind, items |-> << >>,
                           under |-> IF InMap THEN key ELSE Nothing])
  /\ key' = IF InMap THEN Nothing ELSE key
  /\ value' = IF open = << >> THEN Nothing ELSE value

End ==
  LET inner == open[Len(open)]
      outer == SubSeq(open, 1, Len(open) - 1)
      done  == Container(inner.kind, inner.items)
  IN  /\ Ready
      /\ open # << >>
      /\ open' = IF outer = << >> THEN outer
                 ELSE WithItem(outer, IF inner.under = Nothing THEN done
                                      ELSE <<inner.under, done>>)
      /\ value' = IF outer = << >> THEN done ELSE value
      /\ UNCHANGED key

(* The caller gets the value, and only when nothing is open; or nothing. *)
Finish ==
  /\ ~ended
  /\ ended' = TRUE
  /\ outcome' \in {Nothing} \union (IF open = << >> THEN {value} ELSE {})
  /\ open' = << >>
  /\ key' = Nothing
  /\ value' = Nothing

Next ==
  \/ \E kind \in {"scalar", "string"}, val \in Values : PutLeaf(Leaf(kind, val))
  \/ \E k \in Values : PutKey(k)
  \/ Begin("array") \/ Begin("map") \/ End \/ Finish

Spec == Init /\ [][Next]_vars
=============================================================================
