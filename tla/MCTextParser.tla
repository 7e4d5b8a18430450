---------------------------- MODULE MCTextParser ----------------------------
(***************************************************************************)
(* TextParser against the grammar of its documents, given as the set of    *)
(* trees a sequence of tokens denotes.                                     *)
(***************************************************************************)
EXTENDS TextParser, LLSDTrees, SequencesExt

RECURSIVE Denoted(_), Items(_), Pairs(_)

(* The trees of a value. *)
Denoted(t) ==
  (IF IsLeaf(t) THEN {Leaf(t[1])} ELSE {})
  \union {Tree("array", "none", kids) :
            kids \in IF Within(t, "[", "]") THEN Items(Inner(t)) ELSE {}}
  \union {Tree("map", "none", kids) :
            kids \in IF Within(t, "{", "}") THEN Pairs(Inner(t)) ELSE {}}

(* What  v1 , ... , vn  holds; the empty text holds nothing. *)
Items(t) ==
  IF t = << >> THEN {<< >>}
  ELSE {<<v>> : v \in Denoted(t)} \union
       UNION {{Append(l, v) : l \in Items(Upto(t, i)) \ {<< >>},
                              v \in Denoted(After(t, i))} : i \in At(t, ",")}

(* What  k1 : v1 , ... , kn : vn  holds. *)
Pairs(t) ==
  LET pair(u) ==
        IF Len(u) > 2 /\ u[1].sym = "string" /\ u[2].sym = ":"
        THEN {<<Leaf(u[1]), v>> : v \in Denoted(After(u, 2))}
        ELSE {}
  IN  IF t = << >> THEN {<< >>}
      ELSE pair(t) \union
           UNION {{l \o q : l \in Pairs(Upto(t, i)) \ {<< >>},
                            q \in pair(After(t, i))} : i \in At(t, ",")}

(* A document is any number of values, and denotes its last one. *)
RECURSIVE IsDocument(_)
IsDocument(t) ==
  t = << >> \/ \E i \in 0 .. Len(t) - 1 :
                 Denoted(After(t, i)) # {} /\ IsDocument(Upto(t, i + 1))
LastValues(t) ==
  UNION {Denoted(After(t, i)) :
           i \in {j \in 0 .. Len(t) - 1 : IsDocument(Upto(t, j + 1))}}

(* A text some document begins with: what is missing is at most the rest of *)
(* one entry and the closing brackets.                                      *)
Closers(t) ==
  FoldLeft(LAMBDA c, k : CASE k.sym = "[" -> <<Token("]", "none")>> \o c
                           [] k.sym = "{" -> <<Token("}", "none")>> \o c
                           [] k.sym \in {"]", "}"} /\ c # << >> -> Tail(c)
                           [] OTHER -> c,
           << >>, t)
Fills ==
  LET key == Token("string", "none")  colon == Token(":", "none")
  IN  {<< >>, <<key>>, <<colon, key>>, <<key, colon, key>>}
Viable(t) == \E fill \in Fills : IsDocument(t \o fill \o Closers(t))

(***************************************************************************)
(* At the end of the text the parse returns a value for exactly the        *)
(* documents of the grammar: nothing else slips through the parser's two   *)
(* stacks and the builder's checks together.                               *)
(***************************************************************************)
AcceptsTheGrammar ==
  /\ status = "returned" => IsDocument(read)
  /\ status = "null" /\ lucky => ~IsDocument(read)

(***************************************************************************)
(* Before the end of the text the parse gives up only on a text no         *)
(* document begins with, if memory lasts and the map takes every key.      *)
(***************************************************************************)
StopsOnlyAtDeadEnds ==
  [][status' = "null" /\ read' # read /\ lucky' => ~Viable(read')]_vars

(***************************************************************************)
(* The value returned is the tree the document denotes, in its order, also *)
(* when a value could not be created or a container has refused it on the  *)
(* way.  A stack that could not grow is another matter: see LostPush.      *)
(***************************************************************************)
ReturnsTheTree ==
  status = "returned" =>
    IF b.llsd = 0 THEN read = << >> ELSE LastValues(read) = {TreeAt(b.heap, b.llsd)}
=============================================================================
