---------------------------- MODULE MCSerializer ----------------------------
(* Serializer over values of every kind with up to two entries, and a chain *)
(* of three nested containers.                                              *)
EXTENDS Serializer, FiniteSetsExt

Leaf(kind) == [kind |-> kind, val |-> "v", kids |-> << >>]
ArrayOf(kids) == [kind |-> "array", val |-> "none", kids |-> kids]
MapOf(kids)   == [kind |-> "map", val |-> "none", kids |-> kids]

Key    == Leaf("string")
Scalar == Leaf("scalar")
Chain  == ArrayOf(<<MapOf(<<Key, ArrayOf(<<Scalar>>)>>)>>)
SmallDocuments ==
  {Key, Scalar, Chain,
   ArrayOf(<< >>), ArrayOf(<<Scalar>>), ArrayOf(<<Scalar, Key>>),
   MapOf(<< >>), MapOf(<<Key, Scalar>>), MapOf(<<Key, Scalar, Key, Key>>)}

(* The theorems ask of the documents to be part of such a set. *)
SmallValues ==
  SmallDocuments \union {Chain.kids[1], ArrayOf(<<Scalar>>)}
ASSUME ValuesAssumption == IsClosed(SmallValues)

RECURSIVE Height(_)
Height(t) ==
  1 + Max({0} \union {Height(t.kids[i]) : i \in DOMAIN t.kids})

(***************************************************************************)
(* The second attempts, and theirs at every level, come to an end, and     *)
(* llsd_serialize_to_file returns, unless so many writes fail that the C   *)
(* stack has no room for the value with one attempt for each of them.      *)
(***************************************************************************)
Terminates ==
  <>(verdict \in {"TRUE", "FALSE"} \/ Height(doc) + faults > CStack)
=============================================================================
