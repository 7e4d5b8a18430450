------------------------------ MODULE ValueApi ------------------------------
(***************************************************************************)
(* The functions of llsd.c on values, called one after the other by a      *)
(* program that keeps what the functions gave it: the containers' append,  *)
(* unappend, insert and remove, llsd_delete, llsd_equal, and llsd_as_*,    *)
(* whose results are pointers to storage of the value or to the static     *)
(* variables of the function.                                              *)
(*                                                                         *)
(* The program is a lawful one: it gives away, or deletes, only values     *)
(* that it owns, and it uses no deleted one.                               *)
(***************************************************************************)
EXTENDS Naturals, Sequences, SequencesExt

CONSTANTS
  Vals,         \* what values may carry, as text or bytes
  Start,        \* heaps to start from: sequences of Objects
  NewValues,    \* leaves the program creates: [kind, val]
  MaxObjects,   \* objects there may be when one is created or converted
  MaxCalls      \* conversions made at most

VARIABLES
  heap,         \* every llsd_t created, see Object
  static,       \* contents of buf, dummy and be32
  calls         \* the conversions so far: [call, obj, at]

vars == <<heap, static, calls>>

(***************************************************************************)
(* What storage holds: the text or the bytes that stand for a value.  A    *)
(* leaf holds its own; a string or a binary made of a conversion's result  *)
(* holds what the result pointed to.  made is <<i, n>> for one made of the *)
(* i-th conversion's result when n had been made, else <<0, 0>>.           *)
(***************************************************************************)
Content(of, val) == [of |-> of, val |-> val]
Empty == Content("nothing", "none")
Object(kind, content, kids, made) ==
  [kind |-> kind, content |-> content, kids |-> kids, made |-> made,
   freed |-> 0]
Kinds == {"undef", "boolean", "integer", "real", "uuid", "string", "date", "uri",
          "binary", "array", "map"}
ContentType == [of : Kinds \union {"nothing"}, val : Vals]
ObjectType == [kind : Kinds, content : ContentType, kids : Seq(Nat),
               made : Nat \X Nat, freed : Nat]

(* The containers hold objects, maps pairs under strings. *)
Formed(h) ==
  \A o \in DOMAIN h :
    LET kids == h[o].kids
    IN  /\ ToSet(kids) \subseteq DOMAIN h
        /\ kids # << >> => h[o].kind \in {"array", "map"}
        /\ h[o].kind = "map" =>
             /\ Len(kids) % 2 = 0
             /\ \A i \in 1 .. Len(kids) \div 2 : h[kids[2 * i - 1]].kind = "string"

(***************************************************************************)
(* Strings are compared by STRCMP, whatever their text was made from; what *)
(* other values carry is one if it is from one kind.  (Binaries made of    *)
(* values of different kinds thus count as different.)                     *)
(***************************************************************************)
Text(c) == [c EXCEPT !.of = IF @ = "nothing" THEN @ ELSE "string"]
Compared(x) == IF x.kind = "string" THEN Text(x.content) ELSE x.content

(* A value of that kind carries val. *)
Carries(kind, val) ==
  /\ kind = "boolean" => val \in {"true", "false"}
  /\ kind \in {"undef", "array", "map"} => val = "none"

(***************************************************************************)
(* A heap as a parse leaves it (see TreeIsATree in BuilderProofs): each    *)
(* object is held at one place at most, by an older one, and no map has a  *)
(* key twice.                                                              *)
(***************************************************************************)
AsParsed(h) ==
  /\ h \in Seq(ObjectType)
  /\ Formed(h)
  /\ \A o \in DOMAIN h :
       LET x == h[o]
       IN  /\ x.made = <<0, 0>> /\ x.freed = 0
           /\ x.content.of = x.kind /\ Carries(x.kind, x.content.val)
           /\ \A i \in DOMAIN x.kids :
                /\ x.kids[i] > o
                /\ \A p \in DOMAIN h : \A j \in DOMAIN h[p].kids :
                     h[p].kids[j] = x.kids[i] => p = o /\ j = i
           /\ x.kind = "map" =>
                \A i, j \in 1 .. Len(x.kids) \div 2 :
                  Text(h[x.kids[2 * i - 1]].content) = Text(h[x.kids[2 * j - 1]].content)
                    => i = j

ASSUME ValsAssumption == "none" \in Vals
ASSUME StartAssumption == \A h \in Start : AsParsed(h)
ASSUME NewValuesAssumption ==
  /\ NewValues \subseteq [kind : Kinds, val : Vals]
  /\ \A v \in NewValues : Carries(v.kind, v.val)

Live == {o \in DOMAIN heap : heap[o].freed = 0}
Kids(o) == ToSet(heap[o].kids)
Owned == {o \in Live : \A c \in Live : o \notin Kids(c)}

(* An object and all that is below it. *)
Below == LET B[o \in DOMAIN heap] == {o} \union UNION {B[k] : k \in Kids(o)} IN B

Init == /\ heap \in Start
        /\ static = [buf |-> Empty, dummy |-> Empty, be32 |-> Empty]
        /\ calls = << >>

-----------------------------------------------------------------------------
(***************************************************************************)
(* llsd_equal.  Arrays of one length are compared item by item; maps of    *)
(* one size by looking the left one's keys up in the right one, where a    *)
(* missing value is NULL and equals nothing.                               *)
(***************************************************************************)
PairsOf(m) == {2 * i - 1 : i \in 1 .. Len(heap[m].kids) \div 2}
KeyAt(m, i) == Text(heap[heap[m].kids[i]].content)

(* The index of the pair with an equal key, 0 when ht_find is at the end. *)
ht_find(m, key) ==
  LET found == {i \in PairsOf(m) : KeyAt(m, i) = key}
  IN  IF found = {} THEN 0 ELSE CHOOSE i \in found : TRUE

llsd_map_find_llsd(m, key) ==
  IF ht_find(m, key) = 0 THEN 0 ELSE heap[m].kids[ht_find(m, key) + 1]

(* Bug for the checks: a right map may have more than the left one. *)
llsd_equal_Subset(l, r) ==
  LET E[p \in (DOMAIN heap) \X (DOMAIN heap)] ==
        LET x == heap[p[1]]
            y == heap[p[2]]
        IN  /\ x.kind = y.kind
            /\ CASE x.kind = "array" ->
                      /\ Len(x.kids) = Len(y.kids)
                      /\ \A i \in DOMAIN x.kids : E[<<x.kids[i], y.kids[i]>>]
                 [] x.kind = "map" ->
                      \A i \in PairsOf(p[1]) :
                        LET rv == llsd_map_find_llsd(p[2], KeyAt(p[1], i))
                        IN  rv # 0 /\ E[<<x.kids[i + 1], rv>>]
                 [] OTHER -> Compared(x) = Compared(y)
  IN  E[<<l, r>>]

llsd_equal(l, r) ==
  LET E[p \in (DOMAIN heap) \X (DOMAIN heap)] ==
        LET x == heap[p[1]]
            y == heap[p[2]]
        IN  /\ x.kind = y.kind
            /\ CASE x.kind = "array" ->
                      /\ Len(x.kids) = Len(y.kids)
                      /\ \A i \in DOMAIN x.kids : E[<<x.kids[i], y.kids[i]>>]
                 [] x.kind = "map" ->
                      /\ Len(x.kids) = Len(y.kids)
                      /\ \A i \in PairsOf(p[1]) :
                           LET rv == llsd_map_find_llsd(p[2], KeyAt(p[1], i))
                           IN  rv # 0 /\ E[<<x.kids[i + 1], rv>>]
                 [] OTHER -> Compared(x) = Compared(y)
  IN  E[<<l, r>>]

-----------------------------------------------------------------------------
(***************************************************************************)
(* Values come and go.                                                     *)
(***************************************************************************)
Keep == UNCHANGED <<static, calls>>

NewLeaf(kind, val) ==
  /\ Len(heap) < MaxObjects
  /\ heap' = Append(heap, Object(kind, Content(kind, val), << >>, <<0, 0>>))
  /\ Keep

(* The heap h after llsd_delete of each of the roots, with all below them. *)
Released(h, roots) ==
  [o \in DOMAIN h |->
     [h[o] EXCEPT !.freed = @ + Cardinality({r \in roots : o \in Below[r]})]]

Delete(o) == o \in Owned /\ heap' = Released(heap, {o}) /\ Keep

ArrayAppend(a, v) ==
  /\ heap[a].kind = "array" /\ v \in Owned /\ a \notin Below[v]
  /\ heap' = [heap EXCEPT ![a].kids = Append(@, v)]
  /\ Keep

(* The last value is not deleted: whoever still knows it owns it. *)
ArrayUnappend(a) ==
  /\ heap[a].kind = "array" /\ heap[a].kids # << >>
  /\ heap' = [heap EXCEPT ![a].kids = Front(@)]
  /\ Keep

(* Bug for the checks: any value may be a key. *)
MapInsert_AnyKey(m, k, v) ==
  /\ heap[m].kind = "map"
  /\ k # v /\ {k, v} \subseteq Owned /\ m \notin Below[k] \union Below[v]
  /\ ht_find(m, Text(heap[k].content)) = 0
  /\ heap' = [heap EXCEPT ![m].kids = @ \o <<k, v>>]
  /\ Keep

(***************************************************************************)
(* A key that is there already is refused; the program keeps both then.    *)
(***************************************************************************)
MapInsert(m, k, v) ==
  /\ heap[m].kind = "map"
  /\ k # v /\ {k, v} \subseteq Owned /\ m \notin Below[k] \union Below[v]
  /\ heap[k].kind = "string"
  /\ ht_find(m, Text(heap[k].content)) = 0
  /\ heap' = [heap EXCEPT ![m].kids = @ \o <<k, v>>]
  /\ Keep

(* Bug for the checks: the pair's halves are deleted and it stays. *)
MapRemove_Stays(m, k) ==
  LET i == ht_find(m, Text(heap[k].content))
  IN  /\ heap[m].kind = "map" /\ heap[k].kind = "string" /\ i # 0
      /\ heap' = Released(heap, {heap[m].kids[i], heap[m].kids[i + 1]})
      /\ Keep

(***************************************************************************)
(* The key to remove is any string with that content, the map's own one    *)
(* included.  Key and value of the pair are deleted.                       *)
(***************************************************************************)
MapRemove(m, k) ==
  LET i == ht_find(m, Text(heap[k].content))
      h == Released(heap, {heap[m].kids[i], heap[m].kids[i + 1]})
  IN  /\ heap[m].kind = "map" /\ heap[k].kind = "string" /\ i # 0
      /\ heap' = [h EXCEPT ![m].kids = SubSeq(@, 1, i - 1)
                                        \o SubSeq(@, i + 2, Len(@))]
      /\ Keep

-----------------------------------------------------------------------------
(***************************************************************************)
(* Conversions.  at is where the result points to: a static variable, or   *)
(* the value's own storage.                                                *)
(***************************************************************************)
Own == "own"
Convert(call, o, at, after) ==
  /\ Len(calls) < MaxCalls /\ Len(heap) <= MaxObjects
  /\ static' = after
  /\ calls' = Append(calls, [call |-> call, obj |-> o, at |-> at])
  /\ UNCHANGED heap

(***************************************************************************)
(* buf is cleared first, whatever is converted.                            *)
(***************************************************************************)
AsString(o) ==
  CASE heap[o].kind \in {"string", "uri", "binary"} ->
         Convert("as_string", o, Own, [static EXCEPT !.buf = Empty])
    [] heap[o].kind \in {"undef", "array", "map"} ->
         Convert("as_string", o, "buf", [static EXCEPT !.buf = Empty])
    [] OTHER ->
         Convert("as_string", o, "buf", [static EXCEPT !.buf = heap[o].content])

(* Bug for the checks: numbers share the buffer of the texts. *)
AsBinary_InBuf(o) ==
  CASE heap[o].kind = "boolean" ->
         Convert("as_binary", o, "dummy", [static EXCEPT !.dummy = heap[o].content])
    [] heap[o].kind = "integer" ->
         Convert("as_binary", o, "buf", [static EXCEPT !.buf = heap[o].content])
    [] heap[o].kind \in {"string", "uri", "binary"} ->
         Convert("as_binary", o, Own, static)

(***************************************************************************)
(* Undefined values, dates and containers have no binary.  A uuid's case   *)
(* falls through to the string's, which takes its bits for a pointer: no   *)
(* lawful program does that.  Reals, which go by be64, are left out.       *)
(***************************************************************************)
AsBinary(o) ==
  CASE heap[o].kind = "boolean" ->
         Convert("as_binary", o, "dummy", [static EXCEPT !.dummy = heap[o].content])
    [] heap[o].kind = "integer" ->
         Convert("as_binary", o, "be32", [static EXCEPT !.be32 = heap[o].content])
    [] heap[o].kind \in {"string", "uri", "binary"} ->
         Convert("as_binary", o, Own, static)
HasBinary == {"boolean", "integer", "string", "uri", "binary"}

KindOf(c) == heap[c.obj].kind

(***************************************************************************)
(* A string or a binary is made of what a result points to now.  The bytes *)
(* of a binary end in no NUL: no text is made of them.                     *)
(***************************************************************************)
Points(c) == IF c.at = Own THEN heap[c.obj].content ELSE static[c.at]
NewFrom(i) ==
  LET c == calls[i]
      kind == IF c.call = "as_string" THEN "string" ELSE "binary"
  IN  /\ Len(heap) < MaxObjects
      /\ c.at = Own => heap[c.obj].freed = 0
      /\ c.call = "as_string" => KindOf(c) # "binary"
      /\ heap' = Append(heap, Object(kind, Points(c), << >>, <<i, Len(calls)>>))
      /\ UNCHANGED <<static, calls>>

Next ==
  \/ \E v \in NewValues : NewLeaf(v.kind, v.val)
  \/ \E o \in Live : \/ Delete(o) \/ ArrayUnappend(o) \/ AsString(o)
                     \/ heap[o].kind \in HasBinary /\ AsBinary(o)
                     \/ \E v \in Live : ArrayAppend(o, v) \/ MapRemove(o, v)
                     \/ \E k, v \in Live : MapInsert(o, k, v)
  \/ \E i \in DOMAIN calls : NewFrom(i)

Spec == Init /\ [][Next]_vars

-----------------------------------------------------------------------------
(***************************************************************************)
(* Heap, static variables and calls are well formed.                       *)
(***************************************************************************)
TypeOK ==
  /\ heap \in Seq(ObjectType)
  /\ Formed(heap)
  /\ DOMAIN static = {"buf", "dummy", "be32"}
  /\ \A i \in DOMAIN calls : calls[i].at \in DOMAIN static \union {Own}

(***************************************************************************)
(* A lawful program never meets a released value: nothing is released      *)
(* twice, what a value in use holds is in use, and each of those is held   *)
(* at one place, whatever is moved from container to container, taken out, *)
(* removed by its own key, or deleted.                                     *)
(***************************************************************************)
OwnedOnce ==
  /\ \A o \in DOMAIN heap : heap[o].freed <= 1
  /\ \A c \in Live :
       /\ Kids(c) \subseteq Live
       /\ Cardinality(Kids(c)) = Len(heap[c].kids)
       /\ \A d \in Live \ {c} : Kids(c) \intersect Kids(d) = {}

(***************************************************************************)
(* llsd_equal finds two values equal exactly when they have one shape, the *)
(* order of a map's pairs aside: looking up the left one's keys suffices   *)
(* because no map ever has a key twice.                                    *)
(***************************************************************************)
Shape ==
  LET S[o \in DOMAIN heap] ==
        LET x == heap[o]
        IN  [kind |-> x.kind, content |-> Compared(x),
             items |-> IF x.kind = "map"
                       THEN {<<KeyAt(o, i), S[x.kids[i + 1]]>> : i \in PairsOf(o)}
                       ELSE {<<i, S[x.kids[i]]>> : i \in DOMAIN x.kids}]
  IN  S
EqualIsStructural ==
  \A l, r \in Live : heap[l].kind = heap[r].kind =>
    (llsd_equal(l, r) <=> Shape[l] = Shape[r])

(***************************************************************************)
(* What the conversions make of a string or binary with that content.      *)
(***************************************************************************)
llsd_as_boolean(content) == IF content # Empty THEN "true" ELSE "false"
llsd_as_integer(content) == IF content.of = "integer" THEN content.val ELSE "0"
(***************************************************************************)
(* The test for the text of a uuid asks each character to be in all of the *)
(* groups to be a digit, and wants a dash else: no uuid's text passes.     *)
(* What is shorter is a null uuid.                                         *)
(***************************************************************************)
llsd_as_uuid(content) == [ok |-> content.of # "uuid", uuid |-> "null"]

Restores(o, src) ==
  LET made == heap[o].content
  IN  CASE src.kind = "boolean" -> llsd_as_boolean(made) = src.content.val
        [] src.kind = "integer" -> llsd_as_integer(made) = src.content.val
        [] src.kind = "uuid" ->
             llsd_as_uuid(made) = [ok |-> TRUE, uuid |-> src.content.val]
        [] OTHER -> made = src.content

(***************************************************************************)
(* The result of a conversion is good until a later one needs its storage: *)
(* any as_string for a text in buf, an as_binary of the same kind for a    *)
(* number.  A string or binary made of it until then converts back to the  *)
(* value it is from, whatever else has happened to values in between.      *)
(* FALSE is left out, which becomes a text or a byte that is not empty,    *)
(* and so are uuids (UuidTextsComeBack).                                   *)
(***************************************************************************)
Overwrites(later, c) ==
  /\ later.call = c.call
  /\ IF c.call = "as_string" THEN KindOf(c) \notin {"string", "uri", "binary"}
     ELSE KindOf(c) \in {"boolean", "integer"} /\ KindOf(later) = KindOf(c)
Fresh(made) ==
  \A j \in made[1] + 1 .. made[2] : ~Overwrites(calls[j], calls[made[1]])
Convertible == {"boolean", "integer", "uuid", "string", "uri", "binary"}

Lossless(src) ==
  /\ src.kind \in Convertible \ {"uuid"}
  /\ src.kind = "boolean" => src.content.val # "false"

ConversionsComeBack ==
  \A o \in DOMAIN heap : heap[o].made # <<0, 0>> /\ Fresh(heap[o].made) =>
    LET src == heap[calls[heap[o].made[1]].obj]
    IN  Lossless(src) => Restores(o, src)

(***************************************************************************)
(* llsd.c:828, "check for 8-4-4-4-12": the text that llsd_as_string writes *)
(* of a uuid is one that llsd_as_uuid takes.                               *)
(***************************************************************************)
UuidTextsComeBack ==
  \A o \in DOMAIN heap : heap[o].made # <<0, 0>> /\ Fresh(heap[o].made) =>
    LET src == heap[calls[heap[o].made[1]].obj]
    IN  src.kind = "uuid" => Restores(o, src)
=============================================================================
