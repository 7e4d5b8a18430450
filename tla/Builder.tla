------------------------------ MODULE Builder ------------------------------
(***************************************************************************)
(* The tree builder of llsd_parser.c under an arbitrary front end.         *)
(*                                                                         *)
(* llsd_parse_from_file hands its callback table to one of four format     *)
(* parsers.  What a parser calls, and in which order, follows the document *)
(* it reads; here it is any order whatever, and any parser verdict, so     *)
(* what holds here holds under each of the four.                           *)
(***************************************************************************)
EXTENDS BuilderOps

CONSTANTS
  Values,       \* payloads a scalar or a string can carry
  Lucks,        \* what the calls outside src/ may answer
  MaxObjects    \* objects one parse creates (bounds the heap)

ASSUME ValuesAssumption == "none" \notin Values
ASSUME LucksAssumption == Lucks \subseteq Luck \union LostPush
ASSUME MaxObjectsAssumption == MaxObjects \in Nat

(* No stack fails to grow when a container opens, so no PUSH is lost. *)
StacksGrow == Lucks \cap LostPush = {}

VARIABLES
  b,            \* parser_state_t and the heap, see BuilderOps
  phase         \* "parsing", then what the caller got: "returned" or "null"

vars == <<b, phase>>

Init == b = EmptyBuilder /\ phase = "parsing"

(***************************************************************************)
(* A callback runs: whatever it returns, its effects stay.  A parser may   *)
(* stop at a failure or, as the XML parser does, go on.                    *)
(***************************************************************************)
Callback(r) == phase = "parsing" /\ b' = r.b /\ UNCHANGED phase

HasRoom == Len(b.heap) < MaxObjects

Scalar(val, luck)  == HasRoom /\ Callback(scalar_fn(b, val, luck))
String(val, luck)  == HasRoom /\ Callback(llsd_string_fn(b, val, luck))
ArrayBegin(luck)   == HasRoom /\ Callback(llsd_array_begin_fn(b, luck))
MapBegin(luck)     == HasRoom /\ Callback(llsd_map_begin_fn(b, luck))
ArrayValueBegin    == Callback(llsd_array_value_begin_fn(b))
ArrayValueEnd      == Callback(llsd_array_value_end_fn(b))
ArrayEnd           == Callback(llsd_array_end_fn(b))
MapKeyBegin        == Callback(llsd_map_key_begin_fn(b))
MapKeyEnd          == Callback(llsd_map_key_end_fn(b))
MapValueBegin      == Callback(llsd_map_value_begin_fn(b))
MapValueEnd        == Callback(llsd_map_value_end_fn(b))
MapEnd             == Callback(llsd_map_end_fn(b))

(***************************************************************************)
(* The front end returned ok; llsd_parse_from_file decides what the caller *)
(* gets and deletes the container stack, whose destructor is llsd_delete.  *)
(***************************************************************************)
Finish(ok) ==
  /\ phase = "parsing"
  /\ phase' = Outcome(b, ok)
  /\ b' = delete_stacks(b)

Next ==
  \/ \E val \in Values, luck \in Lucks : Scalar(val, luck) \/ String(val, luck)
  \/ \E luck \in Lucks : ArrayBegin(luck) \/ MapBegin(luck)
  \/ ArrayValueBegin \/ ArrayValueEnd \/ ArrayEnd
  \/ MapKeyBegin \/ MapKeyEnd \/ MapValueBegin \/ MapValueEnd \/ MapEnd
  \/ \E ok \in BOOLEAN : Finish(ok)

Spec == Init /\ [][Next]_vars

-----------------------------------------------------------------------------
(***************************************************************************)
(* The builder's state is well formed.                                     *)
(***************************************************************************)
TypeOK == b \in BuilderType(Values) /\ phase \in {"parsing", "returned", "null"}

Addresses == 1 .. Len(b.heap)
Depth     == Len(b.container_stack)

(***************************************************************************)
(* Every open container has its own frame above TOP_LEVEL, in a state of   *)
(* its own kind: the checks in add_to_container for a missing container    *)
(* or one of the wrong type can not fail, whatever the front end does, as  *)
(* long as the stacks grow.                                                *)
(***************************************************************************)
FramesMatchContainers ==
  phase = "parsing" =>
    /\ Len(b.state_stack) = Depth + 1
    /\ b.state_stack[1] = "TOP_LEVEL"
    /\ \A i \in 1 .. Depth :
         /\ b.container_stack[i] \in Addresses
         /\ \/ /\ b.heap[b.container_stack[i]].kind = "array"
               /\ b.state_stack[i + 1] \in ArrayStates
            \/ /\ b.heap[b.container_stack[i]].kind = "map"
               /\ b.state_stack[i + 1] \in MapStates

(***************************************************************************)
(* The open containers are a path of the tree: each waits, in ARRAY_VALUE  *)
(* or MAP_VALUE, for the next one, which is the last value it was given,   *)
(* and the outermost is the value the parse will return.  With a PUSH or   *)
(* PUSHC that is lost (LostPush) this does not hold.                       *)
(***************************************************************************)
OpenContainersFormPath ==
  phase = "parsing" =>
    /\ Depth > 0 => b.container_stack[1] = b.llsd
    /\ \A i \in 1 .. Depth - 1 :
         LET kids == b.heap[b.container_stack[i]].kids
         IN  /\ b.state_stack[i + 1] \in {"ARRAY_VALUE", "MAP_VALUE"}
             /\ kids # << >>
             /\ kids[Len(kids)] = b.container_stack[i + 1]

(***************************************************************************)
(* Whenever a map waits for a value there is a key to file it under, a     *)
(* string that has not been released.                                      *)
(***************************************************************************)
KeyReady ==
  phase = "parsing" /\ Top(b.state_stack) \in
                         {"MAP_KEY", "MAP_KEY_END", "MAP_VALUE_BEGIN"} =>
    /\ b.key \in Addresses
    /\ b.heap[b.key].kind = "string"
    /\ b.heap[b.key].freed = 0

(***************************************************************************)
(* The tree is a tree: a created object is held at one place at most, by   *)
(* one container, as the pending key, or as the value to return.           *)
(***************************************************************************)
NoSharing ==
  phase = "parsing" =>
    \A o \in Addresses : \A i \in 1 .. Len(b.heap[o].kids) :
      LET n == b.heap[o].kids[i]
      IN  /\ n \in Addresses
          /\ n > o
          /\ n # b.llsd
          /\ n # b.key
          /\ \A p \in Addresses : \A j \in 1 .. Len(b.heap[p].kids) :
               b.heap[p].kids[j] = n => p = o /\ j = i

(***************************************************************************)
(* Nothing that is still used has been released: neither the value to      *)
(* return nor an open container, nor what a used container holds.  In      *)
(* particular the tree the caller gets is intact although failed callbacks *)
(* deleted values on the way.                                              *)
(***************************************************************************)
UsedIsLive ==
  phase # "null" =>
    /\ b.llsd # 0 => b.llsd \in Addresses /\ b.heap[b.llsd].freed = 0
    /\ \A i \in 1 .. Depth : b.heap[b.container_stack[i]].freed = 0
    /\ \A o \in Addresses : b.heap[o].freed = 0 =>
         \A i \in 1 .. Len(b.heap[o].kids) :
           b.heap[o].kids[i] \in Addresses /\ b.heap[b.heap[o].kids[i]].freed = 0

(***************************************************************************)
(* The tree's right spine, from the value to return down: what the state   *)
(* stack says are the containers not ended yet, whatever the other stack   *)
(* says.                                                                   *)
(***************************************************************************)
Spine ==
  LET S[i \in 1 .. Len(b.state_stack) - 1] ==
        IF i = 1 THEN b.llsd
        ELSE LET kids == b.heap[S[i - 1]].kids IN kids[Len(kids)]
  IN  S

(***************************************************************************)
(* A container that has ended, or that waits for an inner one, is never    *)
(* changed: a step adds values at the end of the innermost container that  *)
(* has not ended and nowhere else, and takes none away.  Behind a PUSHC    *)
(* that is lost they go to the container around it.                        *)
(***************************************************************************)
OnlyInnermostGrows ==
  [][\A o \in Addresses :
       b'.heap[o].kids # b.heap[o].kids =>
         /\ Len(b.state_stack) > 1
         /\ o = Spine[Len(b.state_stack) - 1]
         /\ SubSeq(b'.heap[o].kids, 1, Len(b.heap[o].kids)) = b.heap[o].kids
    ]_vars

(***************************************************************************)
(* When at most one container is open at the end, every object is released *)
(* at most once; with two open, see the README on the container stack.     *)
(***************************************************************************)
ReleasedOnce ==
  [][phase = "parsing" /\ phase' # "parsing" /\ Depth <= 1 =>
       \A o \in Addresses : b'.heap[o].freed <= 1]_vars
=============================================================================
