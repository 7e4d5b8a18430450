------------------------- MODULE BuilderRefinement -------------------------
(***************************************************************************)
(* Builder implements TreeAssembly: what its heap holds, seen as values.   *)
(***************************************************************************)
EXTENDS Builder

(* A value with something released in it is no value that can be used. *)
Dangling == [kind |-> "dangling", val |-> "none", items |-> << >>]
Nil == [kind |-> "nothing", val |-> "none", items |-> << >>]

(***************************************************************************)
(* The items that the first n kids of the object at o stand for, as far as *)
(* their values are seen: a map's are pairs.                               *)
(***************************************************************************)
Items(heap, o, n, seen) ==
  LET kids == heap[o].kids
  IN  IF heap[o].kind = "map"
      THEN [i \in 1 .. n \div 2 |-> <<seen[kids[2 * i - 1]], seen[kids[2 * i]]>>]
      ELSE [i \in 1 .. n |-> seen[kids[i]]]

Seen(heap) ==
  LET S[o \in 1 .. Len(heap)] ==
        IF heap[o].freed # 0 THEN Dangling
        ELSE [kind |-> heap[o].kind, val |-> heap[o].val,
              items |-> Items(heap, o, Len(heap[o].kids), S)]
  IN  S

ValueAt(heap, o) == IF o = 0 THEN Nil ELSE Seen(heap)[o]

(***************************************************************************)
(* A container is held by its parent from its begin on; as an item it      *)
(* counts when it has ended, so the last kids of all but the innermost     *)
(* open container, and the key among them, are left out.                   *)
(***************************************************************************)
LastKids(x, i) == IF i = Len(x.container_stack) THEN 0
                  ELSE IF x.heap[x.container_stack[i]].kind = "map" THEN 2 ELSE 1
KeyOver(x, i) ==
  IF i = 1 \/ x.heap[x.container_stack[i - 1]].kind = "array" THEN Nil
  ELSE LET kids == x.heap[x.container_stack[i - 1]].kids
       IN  Seen(x.heap)[kids[Len(kids) - 1]]

OpenEntry(x, i) ==
  LET o == x.container_stack[i]
  IN  [kind  |-> x.heap[o].kind,
       under |-> KeyOver(x, i),
       items |-> Items(x.heap, o, Len(x.heap[o].kids) - LastKids(x, i), Seen(x.heap))]

OpenNow(x) == [i \in 1 .. Len(x.container_stack) |-> OpenEntry(x, i)]

Parsing == phase = "parsing"

Assembly == INSTANCE TreeAssembly
  WITH open    <- IF Parsing THEN OpenNow(b) ELSE << >>,
       key     <- IF Parsing THEN ValueAt(b.heap, b.key) ELSE Nil,
       value   <- IF Parsing /\ Depth = 0 THEN ValueAt(b.heap, b.llsd) ELSE Nil,
       ended   <- ~Parsing,
       outcome <- IF phase = "returned" THEN ValueAt(b.heap, b.llsd) ELSE Nil

(***************************************************************************)
(* Whatever a front end calls and whatever fails on the way, the growth of *)
(* a stack excepted, the builder puts values together as TreeAssembly      *)
(* says: items in their order, values under the key read before them, no   *)
(* container in another before it has ended, and to the caller a finished  *)
(* value with nothing released in it.                                      *)
(***************************************************************************)
ImplementsAssembly == Assembly!Spec
=============================================================================
