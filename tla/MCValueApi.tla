----------------------------- MODULE MCValueApi -----------------------------
(***************************************************************************)
(* ValueApi for a program that starts with nothing, or with two values     *)
(* that it has parsed.                                                     *)
(***************************************************************************)
EXTENDS ValueApi

Leaf(kind, val) == [kind |-> kind, val |-> val, kids |-> << >>]
Key(k) == Leaf("string", k)
One == Leaf("integer", "1")
Two == Leaf("integer", "2")
Node(kind, kids) == [kind |-> kind, val |-> "none", kids |-> kids]

Parsed ==
  {Node("array", kids) : kids \in {<<One>>, <<One, Two>>, <<Two, One>>,
                                   <<Node("array", <<One>>)>>}}
    \union
  {Node("map", kids) : kids \in {<<Key("j"), One>>, <<Key("k"), One>>,
                                 <<Key("k"), Two>>, <<Key("k"), One, Key("j"), Two>>,
                                 <<Key("j"), Two, Key("k"), One>>,
                                 <<Key("j"), Node("map", <<Key("k"), One>>)>>,
                                 <<Key("j"), Node("map", <<Key("k"), Two>>)>>}}

Texts == {"none", "true", "false", "1", "2", "7", "u", "j", "k"}

(* The heap with a tree's objects after those that are there. *)
RECURSIVE Place(_, _)
Place(h, t) ==
  LET root == Len(h) + 1
      Step[i \in 0 .. Len(t.kids)] ==
        IF i = 0
        THEN Append(h, Object(t.kind, Content(t.kind, t.val), << >>, <<0, 0>>))
        ELSE LET g == Step[i - 1]
             IN  Place([g EXCEPT ![root].kids = Append(@, Len(g) + 1)], t.kids[i])
  IN  Step[Len(t.kids)]

StartHeaps == {<< >>} \union {Place(Place(<< >>, t), u) : t, u \in Parsed}

Leaves == {[kind |-> "boolean", val |-> "false"], [kind |-> "boolean", val |-> "true"],
           [kind |-> "integer", val |-> "7"], [kind |-> "uuid", val |-> "u"],
           [kind |-> "string", val |-> "k"], [kind |-> "string", val |-> "7"],
           [kind |-> "array", val |-> "none"],
           [kind |-> "map", val |-> "none"]}
EmptyHeap == {<< >>}
Uuid == {[kind |-> "uuid", val |-> "u"]}
=============================================================================
