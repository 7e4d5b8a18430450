----------------------------- MODULE LLSDTrees -----------------------------
(***************************************************************************)
(* LLSD values as values: the trees that documents denote, that heaps of   *)
(* llsd_t objects hold and that serializers write.  Used by the model      *)
(* checking modules to say what a parse should have produced.              *)
(***************************************************************************)
EXTENDS Naturals, Sequences

(* The kids of a map alternate key and value, as in the heap. *)
Tree(kind, val, kids) == [kind |-> kind, val |-> val, kids |-> kids]

(* The tree below the object at address o of a heap. *)
RECURSIVE TreeAt(_, _)
TreeAt(heap, o) ==
  Tree(heap[o].kind, heap[o].val,
       [i \in DOMAIN heap[o].kids |-> TreeAt(heap, heap[o].kids[i])])

(* Parts of a sequence of tokens t; a token has at least a field sym. *)
Inner(t)     == SubSeq(t, 2, Len(t) - 1)
Upto(t, i)   == SubSeq(t, 1, i - 1)
After(t, i)  == SubSeq(t, i + 1, Len(t))
At(t, sym)   == {i \in 1 .. Len(t) : t[i].sym = sym}
Within(t, open, close) ==
  Len(t) > 1 /\ t[1].sym = open /\ t[Len(t)].sym = close
IsLeaf(t) == Len(t) = 1 /\ t[1].sym \in {"scalar", "string"}
Leaf(k)   == Tree(k.sym, k.val, << >>)
=============================================================================
