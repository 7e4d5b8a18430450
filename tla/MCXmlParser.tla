---------------------------- MODULE MCXmlParser ----------------------------
(***************************************************************************)
(* XmlParser against the grammar of its documents, given as the trees a    *)
(* sequence of tags and texts denotes.                                     *)
(***************************************************************************)
EXTENDS XmlParser, LLSDTrees, SequencesExt

Opens(t)  == At(t, "open")
Closes(t) == At(t, "close")
TextsIn(t) == LET texts == SelectSeq(t, LAMBDA e : e.sym = "text")
              IN  [i \in DOMAIN texts |-> texts[i].val]

(* How many elements are open after the first i events of t. *)
Nesting(t, i) == Cardinality({j \in Opens(t) : j <= i})
                   - Cardinality({j \in Closes(t) : j <= i})
(* The event that closes the element opened at i; 0 when it is still open. *)
CloseOf(t, i) ==
  LET ends == {j \in Closes(t) : j > i /\ Nesting(t, j) = Nesting(t, i) - 1}
  IN  IF ends = {} THEN 0 ELSE CHOOSE j \in ends : \A k \in ends : j <= k

RECURSIVE Element(_), Elements(_)

(* The trees of one element, and what a sequence of elements holds; texts  *)
(* outside of leaves are ignored.                                          *)
Element(e) ==
  LET tag == e[1].val
  IN  CASE tag \in {"scalar", "string"} /\ Opens(Inner(e)) = {} ->
             {Tree(tag, TextsIn(e), << >>)}
        [] tag = "array" -> {Tree("array", "none", l) : l \in Elements(Inner(e))}
        [] tag = "map" ->
             {Tree("map", "none", l) :
                l \in {m \in Elements(Inner(e)) :
                         /\ Len(m) % 2 = 0
                         /\ \A i \in 1 .. Len(m) :
                              i % 2 = 1 => m[i].kind = "string"}}
        [] OTHER -> {}

Elements(t) ==
  IF Opens(t) = {} THEN {<< >>}
  ELSE LET i == CHOOSE j \in Opens(t) : \A k \in Opens(t) : j <= k
           j == CloseOf(t, i)
       IN  {<<v>> \o l : v \in Element(SubSeq(t, i, j)), l \in Elements(After(t, j))}

(* A document is an llsd element with any number of values, and denotes    *)
(* the last one.                                                           *)
IsWhole == read # << >> /\ open = << >>
IsDocument == /\ IsWhole
              /\ read[1].val = "llsd"
              /\ Elements(Inner(read)) # {}

(***************************************************************************)
(* Every document of the grammar is taken, without a warning, and gives    *)
(* the last value in it, each scalar with the text of its own element, if  *)
(* conversions succeed, memory lasts and the map takes every key.          *)
(***************************************************************************)
ReturnsTheTree ==
  status # "parsing" /\ lucky /\ IsDocument =>
    /\ ~warned
    /\ status = "returned"
    /\ \A l \in Elements(Inner(read)) :
         IF l = << >> THEN b.llsd = 0
                      ELSE b.llsd # 0 /\ TreeAt(b.heap, b.llsd) = Last(l)

(* What is left of a document when llsd and unknown elements, which the    *)
(* handlers see through, are taken out; and the sequences of elements that *)
(* stand at top level, where the handlers let one leaf enclose others.     *)
Significant(t) ==
  SelectSeq(t, LAMBDA e : e.sym # "text" /\ e.val \notin {"llsd", "unknown"})

RECURSIVE IsTopLevel(_)
IsTopLevel(t) ==
  \/ Opens(t) = {}
  \/ LET j == CloseOf(t, 1)
         e == SubSeq(t, 1, j)
     IN  /\ Element(e) # {} \/ (e[1].val \in {"scalar", "string"}
                                  /\ IsTopLevel(Inner(e)))
         /\ IsTopLevel(After(t, j))

(***************************************************************************)
(* A file read to its end without one failed handler is a document, up to  *)
(* enclosed leaves at top level: an ill-nested array or map, a key without *)
(* value or a value without key never goes unnoticed.                      *)
(***************************************************************************)
UnwarnedIsDocument ==
  status = "returned" /\ ~warned /\ IsWhole => IsTopLevel(Significant(read))

(***************************************************************************)
(* The comment in llsd_parse_from_file, "make sure we had a complete       *)
(* parse": when a value is returned, the file has been read up to its last *)
(* closing tag.                                                            *)
(***************************************************************************)
OnlyCompleteParsesReturn ==
  status = "returned" /\ b.llsd # 0 => IsWhole
=============================================================================
