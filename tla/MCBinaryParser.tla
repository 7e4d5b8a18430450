--------------------------- MODULE MCBinaryParser ---------------------------
(***************************************************************************)
(* BinaryParser against the grammar of its documents, given as the set of  *)
(* trees a sequence of tokens denotes.                                     *)
(***************************************************************************)
EXTENDS BinaryParser, LLSDTrees, SequencesExt

RECURSIVE Denoted(_), Items(_), Pairs(_), IsDocument(_)

(* The trees of a value. *)
Denoted(t) ==
  (IF IsLeaf(t) THEN {Leaf(t[1])} ELSE {})
  \union {Tree("array", "none", kids) :
            kids \in IF Within(t, "[", "]") THEN Items(Inner(t)) ELSE {}}
  \union {Tree("map", "none", kids) :
            kids \in IF Within(t, "{", "}") THEN Pairs(Inner(t)) ELSE {}}

(* What  v1 ... vn  holds. *)
Items(t) ==
  IF t = << >> THEN {<< >>}
  ELSE UNION {{Append(l, v) : l \in Items(Upto(t, i)),
                              v \in Denoted(After(t, i - 1))} : i \in 1 .. Len(t)}

(* What  k1 v1 ... kn vn  holds. *)
Pairs(t) ==
  {l \in Items(t) : /\ Len(l) % 2 = 0
                    /\ \A i \in 1 .. Len(l) : i % 2 = 1 => l[i].kind = "string"}

(* A document is any number of values, and denotes its last one. *)
IsDocument(t)  == Items(t) # {}
LastValues(t)  == {Last(l) : l \in Items(t) \ {<< >>}}

(* A text some document begins with: what is missing is at most a value    *)
(* and the closing brackets.                                               *)
Closers(t) ==
  FoldLeft(LAMBDA c, k : CASE k.sym = "[" -> <<Token("]", "none")>> \o c
                           [] k.sym = "{" -> <<Token("}", "none")>> \o c
                           [] k.sym \in {"]", "}"} /\ c # << >> -> Tail(c)
                           [] OTHER -> c,
           << >>, t)
Fills == {<< >>, <<Token("scalar", "none")>>}
Viable(t) == \E fill \in Fills : IsDocument(t \o fill \o Closers(t))

(***************************************************************************)
(* At the end of the file the parse returns a value for exactly the        *)
(* documents of the grammar, although the parser itself accepts any end.   *)
(***************************************************************************)
AcceptsTheGrammar ==
  /\ status = "returned" => IsDocument(read)
  /\ status = "null" /\ lucky => ~IsDocument(read)

(***************************************************************************)
(* Before the end of the file the parse gives up only on a text no         *)
(* document begins with, if memory lasts and the map takes every key.      *)
(***************************************************************************)
StopsOnlyAtDeadEnds ==
  [][status' = "null" /\ read' # read /\ lucky' => ~Viable(read')]_vars

(***************************************************************************)
(* The value returned is the tree the document denotes, in its order, also *)
(* when a value could not be created or a container has refused it on the  *)
(* way.  A stack that could not grow is another matter: see LostPush.      *)
(***************************************************************************)
ReturnsTheTree ==
  status = "returned" =>
    IF b.llsd = 0 THEN read = << >>
                  ELSE LastValues(read) = {TreeAt(b.heap, b.llsd)}
=============================================================================
