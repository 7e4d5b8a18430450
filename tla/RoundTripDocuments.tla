------------------------- MODULE RoundTripDocuments -------------------------
(***************************************************************************)
(* The values the round trips are checked with: every one with up to two   *)
(* levels of containers, and below a third level every pair of an inner    *)
(* container and a leaf, in either order.                                  *)
(***************************************************************************)
EXTENDS LLSDTrees

Scalars == {Tree("scalar", val, << >>) : val \in {"v", "zero"}}
Str     == Tree("string", "v", << >>)
Empty   == Tree("string", "zero", << >>)
(* A string that is spelt like a value of another type. *)
Like    == Tree("string", "like", << >>)
Leaves  == Scalars \union {Str, Like}

ArrayOf(kids) == Tree("array", "none", kids)
MapOf(vals) ==
  Tree("map", "none",
       [i \in 1 .. 2 * Len(vals) |->
          IF i % 2 = 0 THEN vals[i \div 2] ELSE IF i = 1 THEN Str ELSE Empty])
Over(S) == {ArrayOf(kids) : kids \in S} \union {MapOf(kids) : kids \in S}

Flat == Over({<< >>} \union {<<x>> : x \in Leaves}
                     \union {<<x, y>> : x, y \in Leaves})
Deep == Over({<<x>> : x \in Flat} \union {<<x, Str>> : x \in Flat}
                                  \union {<<Str, x>> : x \in Flat})
SmallDocuments == Leaves \union Flat \union Deep
=============================================================================
