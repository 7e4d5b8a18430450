----------------------------- MODULE BuilderOps -----------------------------
(***************************************************************************)
(* The callbacks of llsd_parser.c as functions of the builder's state.     *)
(*                                                                         *)
(* A builder b is the record of parser_state_t together with the heap the  *)
(* callbacks allocate from:                                                *)
(*   state_stack      the event protocol's state, one frame per container  *)
(*   container_stack  the open containers, innermost last                  *)
(*   key              the map key waiting for its value, 0 when NULL       *)
(*   llsd             the value the parse will return, 0 when NULL         *)
(*   heap             every llsd_t created so far; an object's index is    *)
(*                    its address, kids are what its list or hash table    *)
(*                    holds (keys and values alternate in a map), freed    *)
(*                    counts how often llsd_delete reached it              *)
(*                                                                         *)
(* Each callback is given the luck of the calls it makes outside src/:     *)
(* "no_memory" when the llsd_t cannot be created, "refused" when the       *)
(* container's list or hash table does not take the value (out of memory,  *)
(* or a key it already has), "ok" otherwise.                               *)
(*                                                                         *)
(* A stack that has to grow for a new container may fail to, and nobody    *)
(* looks at what PUSH returns: LostPush says which stacks did not take the *)
(* container, the builder's two, the parser's own frame, its count, or all *)
(* of them.  A push right after a pop finds the room the pop has made.     *)
(***************************************************************************)
EXTENDS LLSDTypes, FiniteSets

Luck     == {"ok", "no_memory", "refused"}
LostPush == {"no_container", "no_state", "no_frame", "no_count", "no_stacks"}

PushUnlessLost(s, x, lost) == IF lost THEN s ELSE Push(s, x)

(***************************************************************************)
(* The state llsd_parse_from_file sets up.                                 *)
(***************************************************************************)
EmptyBuilder == [state_stack |-> <<"TOP_LEVEL">>, container_stack |-> << >>,
                 key |-> 0, llsd |-> 0, heap |-> << >>]

IsContainer(o) == o.kind \in {"array", "map"}

(***************************************************************************)
(* llsd_new_*: the created object is the heap's last one.                  *)
(***************************************************************************)
Create(b, kind, val) ==
  [b EXCEPT !.heap = Append(@, [kind |-> kind, val |-> val, kids |-> << >>,
                                freed |-> 0])]

(***************************************************************************)
(* llsd_delete of an object that holds nothing yet.                        *)
(***************************************************************************)
Delete(b, v) == [b EXCEPT !.heap[v].freed = @ + 1]

(***************************************************************************)
(* llsd_array_append and llsd_map_insert through add_to_container: what is *)
(* checked, and what a container that takes the value then holds.          *)
(***************************************************************************)
Takes(b, container, key, luck) ==
  /\ container # 0
  /\ IsContainer(b.heap[container])
  /\ b.heap[container].kind = "map" => key # 0 /\ b.heap[key].kind = "string"
  /\ luck # "refused"

(* Bug for the checks: a map is appended to like an array. *)
add_to_container_IgnoresKind(b, container, key, v, luck) ==
  IF Takes(b, container, key, luck)
  THEN Succeeds([b EXCEPT !.heap[container].kids = Append(@, v)])
  ELSE Fails(b)

(* Bug for the checks: the value is held and yet reported as refused. *)
add_to_container_HoldsRefused(b, container, key, v, luck) ==
  LET held == IF b.heap[container].kind = "map" THEN <<key, v>> ELSE <<v>>
  IN  IF Takes(b, container, key, "ok")
      THEN [ok |-> luck = "ok", b |-> [b EXCEPT !.heap[container].kids = @ \o held]]
      ELSE Fails(b)

(* Bug for the checks: list_push_head where the code has list_push_tail. *)
add_to_container_Prepends(b, container, key, v, luck) ==
  LET held == IF b.heap[container].kind = "map" THEN <<key, v>> ELSE <<v>>
  IN  IF Takes(b, container, key, luck)
      THEN Succeeds([b EXCEPT !.heap[container].kids = held \o @])
      ELSE Fails(b)

add_to_container(b, container, key, v, luck) ==
  LET held == IF b.heap[container].kind = "map" THEN <<key, v>> ELSE <<v>>
  IN  IF Takes(b, container, key, luck)
      THEN Succeeds([b EXCEPT !.heap[container].kids = @ \o held])
      ELSE Fails(b)

(***************************************************************************)
(* update_state.  The frame has moved on already when the container is     *)
(* asked to take the value, and stays moved when it refuses; the key is    *)
(* forgotten only once the map has it.                                     *)
(***************************************************************************)
(* Bug for the checks: the key is not reset. *)
update_state_KeepsKey(valid_states, b, v, luck) ==
  LET state == Top(b.state_stack)
      moved == [b EXCEPT !.state_stack = Replace(@, ValueOf[state])]
  IN  CASE state \notin valid_states -> Fails(b)
        [] state \in valid_states /\ state = "TOP_LEVEL" ->
             Succeeds([b EXCEPT !.llsd = v])
        [] state \in valid_states /\ state = "MAP_KEY_BEGIN" ->
             Succeeds([moved EXCEPT !.key = v])
        [] OTHER -> add_to_container(moved, TopObj(b.container_stack), b.key,
                                     v, luck)

update_state(valid_states, b, v, luck) ==
  LET state == Top(b.state_stack)
      moved == [b EXCEPT !.state_stack = Replace(@, ValueOf[state])]
      added == add_to_container(moved, TopObj(b.container_stack), b.key, v,
                                luck)
  IN  IF state \notin valid_states THEN Fails(b)
      ELSE CASE state = "TOP_LEVEL" -> Succeeds([b EXCEPT !.llsd = v])
             [] state = "MAP_KEY_BEGIN" -> Succeeds([moved EXCEPT !.key = v])
             [] state = "ARRAY_VALUE_BEGIN" -> added
             [] state = "MAP_VALUE_BEGIN" ->
                  IF added.ok THEN Succeeds([added.b EXCEPT !.key = 0])
                              ELSE added

(***************************************************************************)
(* Create a value and hand it to the tree; delete it when the tree does    *)
(* not take it.  The nine scalar callbacks and llsd_string_fn are this.    *)
(***************************************************************************)
Deliver(b, kind, val, valid_states, luck) ==
  LET v == Len(b.heap) + 1
      r == update_state(valid_states, Create(b, kind, val), v, luck)
  IN  CASE luck = "no_memory" -> Fails(b)
        [] luck # "no_memory" /\ r.ok -> r
        [] OTHER -> Fails(Delete(r.b, v))

scalar_fn(b, val, luck) == Deliver(b, "scalar", val, VALUE_STATES, luck)
llsd_string_fn(b, val, luck) == Deliver(b, "string", val, STRING_STATES, luck)

(***************************************************************************)
(* llsd_array_begin_fn and llsd_map_begin_fn: the container is delivered   *)
(* to its parent first and opened then, in both stacks or in what they     *)
(* take of it: the callback succeeds all the same.                         *)
(***************************************************************************)
(* Bug for the checks: opened without a look at whether it was delivered. *)
OpenContainer_Unchecked(b, kind, first, luck) ==
  LET r == Deliver(b, kind, "none", VALUE_STATES, luck)
  IN  IF luck # "no_memory"
      THEN Succeeds([r.b EXCEPT !.container_stack = Push(@, Len(r.b.heap)),
                                !.state_stack     = Push(@, first)])
      ELSE r

OpenContainer(b, kind, first, luck) ==
  LET r == Deliver(b, kind, "none", VALUE_STATES, luck)
  IN  IF r.ok
      THEN Succeeds([r.b EXCEPT
             !.container_stack = PushUnlessLost(@, Len(r.b.heap),
                                   luck \in {"no_container", "no_stacks"}),
             !.state_stack     = PushUnlessLost(@, first,
                                   luck \in {"no_state", "no_stacks"})])
      ELSE r

llsd_array_begin_fn(b, luck) == OpenContainer(b, "array", "ARRAY_BEGIN", luck)
llsd_map_begin_fn(b, luck)   == OpenContainer(b, "map", "MAP_BEGIN", luck)

(***************************************************************************)
(* The callbacks that only move the innermost frame.                       *)
(***************************************************************************)
Move(b, valid_states, next) ==
  IF Top(b.state_stack) \in valid_states
  THEN Succeeds([b EXCEPT !.state_stack = Replace(@, next)])
  ELSE Fails(b)

llsd_array_value_begin_fn(b) ==
  Move(b, {"ARRAY_BEGIN", "ARRAY_VALUE_END"}, "ARRAY_VALUE_BEGIN")
llsd_array_value_end_fn(b) == Move(b, {"ARRAY_VALUE"}, "ARRAY_VALUE_END")
llsd_map_key_begin_fn(b) ==
  Move(b, {"MAP_BEGIN", "MAP_VALUE_END"}, "MAP_KEY_BEGIN")
llsd_map_key_end_fn(b)     == Move(b, {"MAP_KEY"}, "MAP_KEY_END")
(* Bug for the checks: a value may follow a value. *)
llsd_map_value_begin_fn_AfterValue(b) ==
  Move(b, {"MAP_KEY_END", "MAP_VALUE_END"}, "MAP_VALUE_BEGIN")
llsd_map_value_begin_fn(b) == Move(b, {"MAP_KEY_END"}, "MAP_VALUE_BEGIN")
llsd_map_value_end_fn(b)   == Move(b, {"MAP_VALUE"}, "MAP_VALUE_END")

(***************************************************************************)
(* llsd_array_end_fn and llsd_map_end_fn close the innermost container.    *)
(***************************************************************************)
(* Bug for the checks: the container is not popped. *)
CloseContainer_StaysOpen(b, valid_states) ==
  IF Top(b.state_stack) \in valid_states
  THEN Succeeds([b EXCEPT !.state_stack = Pop(@)])
  ELSE Fails(b)

(* Bug for the checks: the frame moves on to an end state instead. *)
CloseContainer_MovesToEnd(b, valid_states) ==
  IF Top(b.state_stack) \in valid_states
  THEN Succeeds([b EXCEPT !.container_stack = Pop(@),
                          !.state_stack = Replace(@, "ARRAY_END")])
  ELSE Fails(b)

CloseContainer(b, valid_states) ==
  IF Top(b.state_stack) \in valid_states
  THEN Succeeds([b EXCEPT !.container_stack = Pop(@), !.state_stack = Pop(@)])
  ELSE Fails(b)

llsd_array_end_fn(b) == CloseContainer(b, {"ARRAY_BEGIN", "ARRAY_VALUE_END"})
(* Bug for the checks: a map may end after a key. *)
llsd_map_end_fn_AfterKey(b) ==
  CloseContainer(b, {"MAP_BEGIN", "MAP_KEY_END", "MAP_VALUE_END"})
llsd_map_end_fn(b)   == CloseContainer(b, {"MAP_BEGIN", "MAP_VALUE_END"})

(***************************************************************************)
(* The completeness test at the end of llsd_parse_from_file.               *)
(***************************************************************************)
(* Bug for the checks: only the containers are looked at.                  *)
CompleteParse_AnyEnd(b) == Top(b.state_stack) \in States
CompleteParse(b) == b.container_stack = << >> /\ Top(b.state_stack) = "TOP_LEVEL"

(* What the caller gets, after a front end that returned ok. *)
Outcome(b, ok) == IF ok /\ CompleteParse(b) THEN "returned" ELSE "null"

(***************************************************************************)
(* What llsd_delete reaches from each object: the object, what its list or *)
(* hash table holds, and what that holds.                                  *)
(***************************************************************************)
Reached(b) ==
  LET S[o \in DOMAIN b.heap] ==
        {o} \union UNION {S[b.heap[o].kids[i]] : i \in DOMAIN b.heap[o].kids}
  IN  S

(***************************************************************************)
(* list_delete of both stacks.  The container stack's destructor is        *)
(* llsd_delete: each container still open is deleted, with all it holds,   *)
(* so an object is deleted once for every open container it is under.      *)
(***************************************************************************)
deletions(b, o) ==
  Cardinality({i \in DOMAIN b.container_stack :
                 o \in Reached(b)[b.container_stack[i]]})

delete_stacks(b) ==
  [b EXCEPT !.heap = [o \in DOMAIN b.heap |->
                        [b.heap[o] EXCEPT !.freed = @ + deletions(b, o)]],
            !.container_stack = << >>,
            !.state_stack = << >>]

-----------------------------------------------------------------------------
(***************************************************************************)
(* A well-formed builder whose scalars and strings carry payloads of V.    *)
(***************************************************************************)
Object(V) == [kind : Kinds, val : V \union {"none"}, kids : Seq(Nat),
              freed : Nat]
BuilderType(V) == [state_stack : Seq(States), container_stack : Seq(Nat),
                   key : Nat, llsd : Nat, heap : Seq(Object(V))]
=============================================================================
