--------------------------- MODULE CallbackProofs ---------------------------
(***************************************************************************)
(* What the callbacks of llsd_parser.c do to a builder, for every set V of *)
(* payloads and every builder x, and, in the last part, what the parsers'  *)
(* handlers that call them have in common, for every set Q of parser       *)
(* records: lemmas that the proofs about the builder on its own and about  *)
(* the parsers in front of it share.                                       *)
(*                                                                         *)
(* Ind(V, x) says that the two stacks fit each other (Frames), that the    *)
(* open containers are a path of the tree from the value to return         *)
(* downwards, in the order they were created (Path), that a key is there   *)
(* when one is needed (Keyed) and that nothing in use has been released    *)
(* (Live).  The four parts need each other: a value can only be filed if   *)
(* its container is the innermost one, and releasing a refused value is    *)
(* only safe if nothing refers to it.  Every callback keeps Ind.           *)
(*                                                                         *)
(* Three more layers rest on Ind.  The Shape lemmas say exactly what each  *)
(* callback leaves behind, whether it succeeds (Taken, Opened, SameTree)   *)
(* or fails (Refused).  From them follows that the tree stays a tree       *)
(* (Sole), and that it grows at its innermost container only (Grows).      *)
(*                                                                         *)
(* The lemmas go from sequences to fields to the parts of Ind, then        *)
(* callback by callback, and then to the parsers' handlers.                *)
(***************************************************************************)
EXTENDS ParserOps, FiniteSetTheorems, SequenceTheorems, WellFoundedInduction, TLAPS

(* PUSH puts the new head on top and leaves the rest of the stack alone. *)
LEMMA PushFacts ==
  ASSUME NEW S, NEW s \in Seq(S), NEW x \in S
  PROVE  /\ Push(s, x) \in Seq(S)
         /\ Len(Push(s, x)) = Len(s) + 1
         /\ Push(s, x)[Len(s) + 1] = x
         /\ \A i \in 1 .. Len(s) : Push(s, x)[i] = s[i]
  BY DEF Push

(* POP of a stack that is not empty takes its head off and nothing else. *)
LEMMA PopFacts ==
  ASSUME NEW S, NEW s \in Seq(S), Len(s) > 0
  PROVE  /\ Pop(s) \in Seq(S)
         /\ Len(Pop(s)) = Len(s) - 1
         /\ \A i \in 1 .. Len(s) - 1 : Pop(s)[i] = s[i]
<1>1. PICK n \in Nat : Len(s) = n + 1
  <2>1. Len(s) - 1 \in Nat /\ Len(s) = (Len(s) - 1) + 1
    OBVIOUS
  <2> QED BY <2>1
<1>2. \A i \in 1 .. n : s[i] \in S
  BY <1>1
<1>3. Pop(s) = SubSeq(s, 1, n)
  BY <1>1 DEF Pop
<1>8. /\ SubSeq(s, 1, n) \in Seq(S)
      /\ Len(SubSeq(s, 1, n)) = IF 1 <= n THEN n - 1 + 1 ELSE 0
      /\ \A i \in 1 .. n - 1 + 1 : SubSeq(s, 1, n)[i] = s[1 + i - 1]
  BY <1>2, SubSeqProperties
<1>4. PICK t : t = SubSeq(s, 1, n)
  OBVIOUS
<1>5. /\ t \in Seq(S)
      /\ Len(t) = IF 1 <= n THEN n - 1 + 1 ELSE 0
      /\ \A i \in 1 .. n - 1 + 1 : t[i] = s[1 + i - 1]
  BY <1>8, <1>4, Zenon
<1>6. Len(t) = n
  BY <1>5
<1>7. ASSUME NEW i \in 1 .. n PROVE t[i] = s[i]
  <2>1. i \in 1 .. n - 1 + 1 /\ 1 + i - 1 = i
    OBVIOUS
  <2> QED BY <1>5, <2>1
<1> QED BY SMTT(30), <1>1, <1>3, <1>4, <1>5, <1>6, <1>7

(* POP and PUSH together change the head only. *)
LEMMA ReplaceFacts ==
  ASSUME NEW S, NEW s \in Seq(S), NEW x \in S, Len(s) > 0
  PROVE  /\ Replace(s, x) \in Seq(S)
         /\ Len(Replace(s, x)) = Len(s)
         /\ Replace(s, x)[Len(s)] = x
         /\ \A i \in 1 .. Len(s) - 1 : Replace(s, x)[i] = s[i]
  BY DEF Replace

(* The head of a stack that is not empty is its last element. *)
LEMMA TopFacts ==
  ASSUME NEW S, NEW s \in Seq(S), Len(s) > 0
  PROVE  /\ Top(s) = s[Len(s)]
         /\ TopObj(s) = s[Len(s)]
         /\ s[Len(s)] \in S
  BY DEF Top, TopObj


(* The fields of a builder have their types, and keep them when one is set. *)
LEMMA BuilderFields ==
  ASSUME NEW V, NEW x \in BuilderType(V)
  PROVE  /\ x.state_stack \in Seq(States)
         /\ x.container_stack \in Seq(Nat)
         /\ x.key \in Nat
         /\ x.llsd \in Nat
         /\ x.heap \in Seq(Object(V))
         /\ \A h \in Seq(Object(V)) : [x EXCEPT !.heap = h] \in BuilderType(V)
         /\ \A t \in Seq(States) : [x EXCEPT !.state_stack = t] \in BuilderType(V)
         /\ \A h : [x EXCEPT !.heap = h].heap = h
  BY DEF BuilderType


(* A change of one object of the heap. *)
LEMMA HeapFacts ==
  ASSUME NEW V, NEW x \in BuilderType(V), NEW o \in 1 .. Len(x.heap), NEW obj \in Object(V),
         NEW y, y = [x EXCEPT !.heap = [@ EXCEPT ![o] = obj]]
  PROVE  /\ y \in BuilderType(V)
         /\ Len(y.heap) = Len(x.heap)
         /\ y.heap[o] = obj
         /\ \A a \in 1 .. Len(x.heap) : a # o => y.heap[a] = x.heap[a]
         /\ y.state_stack = x.state_stack
         /\ y.container_stack = x.container_stack
         /\ y.key = x.key
         /\ y.llsd = x.llsd
<1> DEFINE h == [x.heap EXCEPT ![o] = obj]
<1>1. x.heap \in Seq(Object(V))
  BY BuilderFields
<1>2. /\ h \in Seq(Object(V))
      /\ Len(h) = Len(x.heap)
      /\ h[o] = obj
      /\ \A a \in 1 .. Len(x.heap) : a # o => h[a] = x.heap[a]
  BY <1>1
<1>3. y = [x EXCEPT !.heap = h]
  OBVIOUS
<1> HIDE DEF h
<1>4. y \in BuilderType(V) /\ y.heap = h
  <2>1. [x EXCEPT !.heap = h] \in BuilderType(V) /\ [x EXCEPT !.heap = h].heap = h
    BY <1>2, BuilderFields
  <2> QED BY <1>3, <2>1, Zenon
<1>5. /\ y.state_stack = x.state_stack
      /\ y.container_stack = x.container_stack
      /\ y.key = x.key
      /\ y.llsd = x.llsd
  BY <1>3 DEF BuilderType
<1> QED BY <1>2, <1>4, <1>5

-----------------------------------------------------------------------------
(* The kind of a container and the state of its frame go together. *)
Suits(kind, state) == \/ kind = "array" /\ state \in ArrayStates
                      \/ kind = "map"   /\ state \in MapStates

(* Wherever a frame may be in state, it may as well be in next. *)
SameKind(state, next) == \A kind : Suits(kind, state) => Suits(kind, next)

Frames(ss, cs, heap) ==
  /\ Len(ss) = Len(cs) + 1
  /\ ss[1] = "TOP_LEVEL"
  /\ \A i \in 1 .. Len(cs) : /\ cs[i] \in 1 .. Len(heap)
                             /\ Suits(heap[cs[i]].kind, ss[i + 1])

Path(ss, cs, llsd, heap) ==
  /\ Len(cs) > 0 => cs[1] = llsd
  /\ \A i \in 1 .. Len(cs) - 1 :
       /\ ss[i + 1] \in {"ARRAY_VALUE", "MAP_VALUE"}
       /\ Len(heap[cs[i]].kids) > 0
       /\ heap[cs[i]].kids[Len(heap[cs[i]].kids)] = cs[i + 1]
  /\ \A i, j \in 1 .. Len(cs) : i < j => cs[i] < cs[j]

NeedsKey == {"MAP_KEY", "MAP_KEY_END", "MAP_VALUE_BEGIN"}

Keyed(ss, key, heap) ==
  /\ key <= Len(heap)
  /\ ss[Len(ss)] \in NeedsKey =>
       key > 0 /\ heap[key].kind = "string" /\ heap[key].freed = 0

Live(cs, llsd, heap) ==
  /\ llsd # 0 => llsd \in 1 .. Len(heap) /\ heap[llsd].freed = 0
  /\ \A i \in 1 .. Len(cs) : heap[cs[i]].freed = 0
  /\ \A o \in 1 .. Len(heap) : \A i \in 1 .. Len(heap[o].kids) :
       /\ heap[o].kids[i] \in 1 .. Len(heap)
       /\ heap[heap[o].kids[i]].freed = 0

Ind(V, x) ==
  /\ x \in BuilderType(V)
  /\ Frames(x.state_stack, x.container_stack, x.heap)
  /\ Path(x.state_stack, x.container_stack, x.llsd, x.heap)
  /\ Keyed(x.state_stack, x.key, x.heap)
  /\ Live(x.container_stack, x.llsd, x.heap)

(* The state llsd_parse_from_file sets up is one of them. *)
LEMMA EmptyInd == \A V : Ind(V, EmptyBuilder)
<1> DEFINE x == EmptyBuilder
<1> SUFFICES ASSUME NEW V PROVE Ind(V, x)
  OBVIOUS
<1>1. /\ x.state_stack = <<"TOP_LEVEL">>
      /\ x.container_stack = << >>
      /\ x.key = 0
      /\ x.llsd = 0
      /\ x.heap = << >>
  BY DEF EmptyBuilder
<1>2. x \in BuilderType(V)
  BY DEF BuilderType, EmptyBuilder, States
<1> HIDE DEF x
<1>3. Frames(x.state_stack, x.container_stack, x.heap)
  BY <1>1 DEF Frames
<1>4. Path(x.state_stack, x.container_stack, x.llsd, x.heap)
  BY <1>1 DEF Path
<1>5. Keyed(x.state_stack, x.key, x.heap)
  BY <1>1 DEF Keyed, NeedsKey
<1>6. Live(x.container_stack, x.llsd, x.heap)
  BY <1>1 DEF Live
<1> QED BY <1>2, <1>3, <1>4, <1>5, <1>6 DEF Ind

(* The stacks still fit when the innermost frame moves within its kind and
   the heap grows or changes without changing kinds. *)
LEMMA FramesStep ==
  ASSUME NEW V, NEW ss \in Seq(States), NEW cs \in Seq(Nat), NEW heap \in Seq(Object(V)),
         NEW ss2 \in Seq(States), NEW heap2 \in Seq(Object(V)),
         Frames(ss, cs, heap),
         Len(ss2) = Len(ss),
         \A i \in 1 .. Len(ss) - 1 : ss2[i] = ss[i],
         Len(cs) = 0 => ss2[1] = ss[1],
         Len(cs) > 0 => SameKind(ss[Len(ss)], ss2[Len(ss)]),
         Len(heap2) >= Len(heap),
         \A o \in 1 .. Len(heap) : heap2[o].kind = heap[o].kind
  PROVE  Frames(ss2, cs, heap2)
<1>1. Len(ss2) = Len(cs) + 1 /\ ss2[1] = "TOP_LEVEL"
  BY DEF Frames
<1>2. ASSUME NEW i \in 1 .. Len(cs)
      PROVE  cs[i] \in 1 .. Len(heap2) /\ Suits(heap2[cs[i]].kind, ss2[i + 1])
  <2>1. cs[i] \in 1 .. Len(heap) /\ Suits(heap[cs[i]].kind, ss[i + 1])
    BY DEF Frames
  <2>2. cs[i] \in 1 .. Len(heap2)
    BY <2>1
  <2>5. heap2[cs[i]].kind = heap[cs[i]].kind
    BY <2>1
  <2>3. CASE i < Len(cs)
    <3>1. ss2[i + 1] = ss[i + 1]
      BY <2>3 DEF Frames
    <3> QED BY <2>1, <2>2, <2>5, <3>1
  <2>4. CASE i = Len(cs)
    <3>1. i + 1 = Len(ss) /\ Len(cs) > 0
      BY <2>4 DEF Frames
    <3> QED BY <2>1, <2>2, <2>5, <3>1 DEF SameKind
  <2> QED BY <2>3, <2>4
<1> QED BY <1>1, <1>2 DEF Frames

(* The open containers stay a path when only the innermost one's frame and
   kids change. *)
LEMMA PathStep ==
  ASSUME NEW V, NEW ss \in Seq(States), NEW cs \in Seq(Nat), NEW heap \in Seq(Object(V)),
         NEW ss2 \in Seq(States), NEW heap2 \in Seq(Object(V)), NEW llsd, NEW llsd2,
         Frames(ss, cs, heap), Path(ss, cs, llsd, heap),
         \A i \in 1 .. Len(ss) - 1 : ss2[i] = ss[i],
         Len(cs) > 0 => llsd2 = llsd,
         \A o \in 1 .. Len(heap) : o # cs[Len(cs)] => heap2[o].kids = heap[o].kids
  PROVE  Path(ss2, cs, llsd2, heap2)
<1>1. Len(cs) > 0 => cs[1] = llsd2
  BY DEF Path
<1>2. ASSUME NEW i \in 1 .. Len(cs) - 1
      PROVE  /\ ss2[i + 1] \in {"ARRAY_VALUE", "MAP_VALUE"}
             /\ Len(heap2[cs[i]].kids) > 0
             /\ heap2[cs[i]].kids[Len(heap2[cs[i]].kids)] = cs[i + 1]
  <2>1. cs[i] \in 1 .. Len(heap) /\ cs[i] < cs[Len(cs)]
    <3>1. i \in 1 .. Len(cs) /\ Len(cs) \in 1 .. Len(cs) /\ i < Len(cs)
      OBVIOUS
    <3> QED BY <3>1 DEF Frames, Path
  <2>2. heap2[cs[i]].kids = heap[cs[i]].kids
    <3>1. cs[i] \in Nat /\ cs[Len(cs)] \in Nat
      OBVIOUS
    <3>2. cs[i] # cs[Len(cs)]
      BY SMTT(30), <2>1, <3>1
    <3> QED BY <2>1, <3>2
  <2>3. ss2[i + 1] = ss[i + 1]
    BY DEF Frames
  <2>4. /\ ss[i + 1] \in {"ARRAY_VALUE", "MAP_VALUE"}
        /\ Len(heap[cs[i]].kids) > 0
        /\ heap[cs[i]].kids[Len(heap[cs[i]].kids)] = cs[i + 1]
    BY DEF Path
  <2> QED BY <2>2, <2>3, <2>4
<1>3. \A i, j \in 1 .. Len(cs) : i < j => cs[i] < cs[j]
  BY DEF Path
<1> QED BY <1>1, <1>2, <1>3 DEF Path

(* An object is added that holds nothing. *)
LEMMA LiveCreate ==
  ASSUME NEW V, NEW cs \in Seq(Nat), NEW heap \in Seq(Object(V)), NEW heap2 \in Seq(Object(V)),
         NEW llsd \in Nat,
         Live(cs, llsd, heap),
         \A i \in 1 .. Len(cs) : cs[i] \in 1 .. Len(heap),
         Len(heap2) = Len(heap) + 1,
         \A o \in 1 .. Len(heap) : heap2[o] = heap[o],
         heap2[Len(heap) + 1].kids = << >>
  PROVE  Live(cs, llsd, heap2)
<1>1. llsd # 0 => llsd \in 1 .. Len(heap2) /\ heap2[llsd].freed = 0
  BY DEF Live
<1>2. ASSUME NEW i \in 1 .. Len(cs) PROVE heap2[cs[i]].freed = 0
  <2>1. heap2[cs[i]] = heap[cs[i]]
    OBVIOUS
  <2> QED BY <2>1 DEF Live
<1>3. ASSUME NEW o \in 1 .. Len(heap2), NEW i \in 1 .. Len(heap2[o].kids)
      PROVE  /\ heap2[o].kids[i] \in 1 .. Len(heap2)
             /\ heap2[heap2[o].kids[i]].freed = 0
  <2>1. CASE o = Len(heap) + 1
    BY <2>1
  <2>2. CASE o \in 1 .. Len(heap)
    <3>1. heap2[o] = heap[o]
      BY <2>2
    <3>2. heap[o].kids[i] \in 1 .. Len(heap) /\ heap[heap[o].kids[i]].freed = 0
      BY <2>2, <3>1 DEF Live
    <3>3. heap2[heap[o].kids[i]] = heap[heap[o].kids[i]]
      BY <3>2
    <3> QED BY <3>1, <3>2, <3>3
  <2> QED BY <2>1, <2>2
<1> QED BY <1>1, <1>2, <1>3 DEF Live

(* Neither a container, nor the stack, nor the result refers to v. *)
Unreferenced(cs, llsd, heap, v) ==
  /\ llsd # v
  /\ \A i \in 1 .. Len(cs) : cs[i] # v
  /\ \A o \in 1 .. Len(heap) : \A i \in 1 .. Len(heap[o].kids) : heap[o].kids[i] # v

(* An object is deleted that nothing refers to. *)
LEMMA LiveDelete ==
  ASSUME NEW V, NEW cs \in Seq(Nat), NEW heap \in Seq(Object(V)), NEW heap2 \in Seq(Object(V)),
         NEW llsd \in Nat, NEW v,
         Live(cs, llsd, heap),
         \A i \in 1 .. Len(cs) : cs[i] \in 1 .. Len(heap),
         Unreferenced(cs, llsd, heap, v),
         Len(heap2) = Len(heap),
         \A o \in 1 .. Len(heap) : /\ heap2[o].kids = heap[o].kids
                                   /\ o # v => heap2[o].freed = heap[o].freed
  PROVE  Live(cs, llsd, heap2)
<1>1. llsd # 0 => llsd \in 1 .. Len(heap2) /\ heap2[llsd].freed = 0
  BY DEF Live, Unreferenced
<1>2. ASSUME NEW i \in 1 .. Len(cs) PROVE heap2[cs[i]].freed = 0
  <2>1. heap2[cs[i]].freed = heap[cs[i]].freed
    BY DEF Unreferenced
  <2> QED BY <2>1 DEF Live
<1>3. ASSUME NEW o \in 1 .. Len(heap2), NEW i \in 1 .. Len(heap2[o].kids)
      PROVE  /\ heap2[o].kids[i] \in 1 .. Len(heap2)
             /\ heap2[heap2[o].kids[i]].freed = 0
  <2>1. heap2[o].kids = heap[o].kids /\ o \in 1 .. Len(heap)
    OBVIOUS
  <2>2. /\ heap[o].kids[i] \in 1 .. Len(heap)
        /\ heap[heap[o].kids[i]].freed = 0
        /\ heap[o].kids[i] # v
    BY <2>1 DEF Live, Unreferenced
  <2>3. heap2[heap[o].kids[i]].freed = heap[heap[o].kids[i]].freed
    BY <2>2
  <2> QED BY <2>1, <2>2, <2>3
<1> QED BY <1>1, <1>2, <1>3 DEF Live

(* A container c is given live objects to hold. *)
LEMMA LiveHold ==
  ASSUME NEW V, NEW cs \in Seq(Nat), NEW heap \in Seq(Object(V)), NEW heap2 \in Seq(Object(V)),
         NEW llsd \in Nat, NEW c \in 1 .. Len(heap), NEW held \in Seq(Nat),
         Live(cs, llsd, heap),
         \A i \in 1 .. Len(cs) : cs[i] \in 1 .. Len(heap),
         Len(heap2) = Len(heap),
         \A o \in 1 .. Len(heap) : /\ heap2[o].freed = heap[o].freed
                                   /\ o # c => heap2[o].kids = heap[o].kids,
         heap2[c].kids = heap[c].kids \o held,
         \A i \in 1 .. Len(held) : held[i] \in 1 .. Len(heap) /\ heap[held[i]].freed = 0
  PROVE  Live(cs, llsd, heap2)
<1>1. llsd # 0 => llsd \in 1 .. Len(heap2) /\ heap2[llsd].freed = 0
  BY DEF Live
<1>2. ASSUME NEW i \in 1 .. Len(cs) PROVE heap2[cs[i]].freed = 0
  <2>1. heap2[cs[i]].freed = heap[cs[i]].freed
    OBVIOUS
  <2> QED BY <2>1 DEF Live
<1>3. ASSUME NEW o \in 1 .. Len(heap2), NEW i \in 1 .. Len(heap2[o].kids)
      PROVE  /\ heap2[o].kids[i] \in 1 .. Len(heap2)
             /\ heap2[heap2[o].kids[i]].freed = 0
  <2>1. o \in 1 .. Len(heap)
    OBVIOUS
  <2>2. /\ heap2[o].kids[i] \in 1 .. Len(heap)
        /\ heap[heap2[o].kids[i]].freed = 0
    <3>1. CASE o # c
      <4>1. heap2[o].kids = heap[o].kids
        BY <2>1, <3>1
      <4> QED BY SMTT(30), <2>1, <4>1 DEF Live
    <3>2. CASE o = c
      <4>1. heap[c].kids \in Seq(Nat)
        <5>1. heap[c] \in Object(V)
          OBVIOUS
        <5> QED BY <5>1 DEF Object
      <4>2. i \in 1 .. Len(heap[c].kids) + Len(held)
        BY <3>2, <4>1
      <4>3. heap2[o].kids[i] = IF i <= Len(heap[c].kids) THEN heap[c].kids[i]
                               ELSE held[i - Len(heap[c].kids)]
        BY <3>2, <4>1, <4>2
      <4>4. CASE i <= Len(heap[c].kids)
        <5>1. i \in 1 .. Len(heap[c].kids)
          BY <4>1, <4>2, <4>4
        <5> QED BY <4>3, <4>4, <5>1 DEF Live
      <4>5. CASE ~(i <= Len(heap[c].kids))
        <5>1. i - Len(heap[c].kids) \in 1 .. Len(held)
          BY <4>1, <4>2, <4>5
        <5> QED BY <4>3, <4>5, <5>1
      <4> QED BY <4>4, <4>5
    <3> QED BY <3>1, <3>2
  <2>3. heap2[heap2[o].kids[i]].freed = heap[heap2[o].kids[i]].freed
    BY <2>2
  <2> QED BY <2>2, <2>3
<1> QED BY <1>1, <1>2, <1>3 DEF Live

-----------------------------------------------------------------------------
(* What the invariant says about the stacks' lengths and innermost elements. *)
LEMMA IndFields ==
  ASSUME NEW V, NEW x, Ind(V, x)
  PROVE  /\ x \in BuilderType(V)
         /\ x.state_stack \in Seq(States)
         /\ x.container_stack \in Seq(Nat)
         /\ x.key \in Nat
         /\ x.llsd \in Nat
         /\ x.heap \in Seq(Object(V))
         /\ Len(x.state_stack) = Len(x.container_stack) + 1
         /\ Top(x.state_stack) = x.state_stack[Len(x.state_stack)]
         /\ Top(x.state_stack) \in States
         /\ Len(x.container_stack) = 0 => Top(x.state_stack) = "TOP_LEVEL"
         /\ Len(x.container_stack) > 0 =>
              /\ TopObj(x.container_stack) = x.container_stack[Len(x.container_stack)]
              /\ TopObj(x.container_stack) \in 1 .. Len(x.heap)
              /\ Suits(x.heap[TopObj(x.container_stack)].kind, Top(x.state_stack))
<1>1. x \in BuilderType(V) /\ Frames(x.state_stack, x.container_stack, x.heap)
  BY DEF Ind
<1>2. /\ x.state_stack \in Seq(States)
      /\ x.container_stack \in Seq(Nat)
      /\ x.key \in Nat
      /\ x.llsd \in Nat
      /\ x.heap \in Seq(Object(V))
  BY <1>1, BuilderFields
<1>3. /\ Len(x.state_stack) = Len(x.container_stack) + 1
      /\ x.state_stack[1] = "TOP_LEVEL"
  BY <1>1 DEF Frames
<1>4. /\ Top(x.state_stack) = x.state_stack[Len(x.state_stack)]
      /\ Top(x.state_stack) \in States
  BY SMTT(30), <1>2, <1>3, TopFacts
<1>5. Len(x.container_stack) = 0 => Top(x.state_stack) = "TOP_LEVEL"
  BY <1>3, <1>4
<1>6. ASSUME Len(x.container_stack) > 0
      PROVE  /\ TopObj(x.container_stack) = x.container_stack[Len(x.container_stack)]
             /\ TopObj(x.container_stack) \in 1 .. Len(x.heap)
             /\ Suits(x.heap[TopObj(x.container_stack)].kind, Top(x.state_stack))
  <2>1. TopObj(x.container_stack) = x.container_stack[Len(x.container_stack)]
    BY <1>2, <1>6, TopFacts
  <2>2. Len(x.container_stack) \in 1 .. Len(x.container_stack)
    BY <1>2, <1>6
  <2> QED BY <1>1, <1>3, <1>4, <2>1, <2>2 DEF Frames
<1> QED BY <1>1, <1>2, <1>3, <1>4, <1>5, <1>6

(* The fields of an object of the heap have their types. *)
LEMMA ObjectFields ==
  ASSUME NEW V, NEW heap \in Seq(Object(V)), NEW o \in 1 .. Len(heap)
  PROVE  /\ heap[o] \in Object(V)
         /\ heap[o].kind \in Kinds
         /\ heap[o].kids \in Seq(Nat)
         /\ heap[o].freed \in Nat
<1>1. heap[o] \in Object(V)
  OBVIOUS
<1> QED BY <1>1 DEF Object

(* y is x but for the innermost frame, now in st, and for the key. *)
Moved(V, x, y, st) ==
  /\ y \in BuilderType(V)
  /\ y.state_stack = Replace(x.state_stack, st)
  /\ y.container_stack = x.container_stack
  /\ y.llsd = x.llsd
  /\ y.heap = x.heap

(* What SetTop, the move of the innermost frame, changes and what it keeps. *)
LEMMA MovedFacts ==
  ASSUME NEW V, NEW x \in BuilderType(V), NEW st \in States, Len(x.state_stack) > 0
  PROVE  LET y == [x EXCEPT !.state_stack = Replace(@, st)]
         IN  Moved(V, x, y, st) /\ y.key = x.key
<1> DEFINE t == Replace(x.state_stack, st)
           y == [x EXCEPT !.state_stack = t]
<1>1. t \in Seq(States)
  BY BuilderFields, ReplaceFacts
<1> HIDE DEF t
<1>2. y \in BuilderType(V)
  BY <1>1, BuilderFields
<1>3. /\ y.state_stack = t
      /\ y.container_stack = x.container_stack
      /\ y.key = x.key
      /\ y.llsd = x.llsd
      /\ y.heap = x.heap
  BY DEF BuilderType
<1> HIDE DEF y
<1>4. Moved(V, x, y, st) /\ y.key = x.key
  BY <1>2, <1>3 DEF Moved, t
<1> QED BY <1>4 DEF y, t

(* What add_to_container leaves when the container takes the value. *)
Hold(x, c, held) == [x EXCEPT !.heap[c].kids = @ \o held]

(* y is x but for the objects held that c has been given. *)
Holding(V, x, y, c, held) ==
  /\ y \in BuilderType(V)
  /\ y.state_stack = x.state_stack
  /\ y.container_stack = x.container_stack
  /\ y.key = x.key
  /\ y.llsd = x.llsd
  /\ Len(y.heap) = Len(x.heap)
  /\ \A o \in 1 .. Len(x.heap) : /\ y.heap[o].kind = x.heap[o].kind
                                 /\ y.heap[o].freed = x.heap[o].freed
                                 /\ o # c => y.heap[o].kids = x.heap[o].kids
  /\ y.heap[c].kids = x.heap[c].kids \o held
  /\ y.heap[c] = [x.heap[c] EXCEPT !.kids = @ \o held]
  /\ \A o \in 1 .. Len(x.heap) : o # c => y.heap[o] = x.heap[o]

(* What Hold, a container's taking of values, changes and what it keeps. *)
LEMMA HoldFacts ==
  ASSUME NEW V, NEW x \in BuilderType(V), NEW c \in 1 .. Len(x.heap), NEW held \in Seq(Nat)
  PROVE  Holding(V, x, Hold(x, c, held), c, held)
<1> DEFINE y == Hold(x, c, held)
<1> DEFINE obj == [x.heap[c] EXCEPT !.kids = @ \o held]
<1>1. x.heap \in Seq(Object(V))
  BY BuilderFields
<1>2. x.heap[c] \in Object(V) /\ x.heap[c].kids \in Seq(Nat)
  BY <1>1, ObjectFields
<1>3. x.heap[c].kids \o held \in Seq(Nat)
  BY <1>2
<1>4. obj \in Object(V)
  BY <1>2, <1>3 DEF Object
<1>5. /\ obj.kids = x.heap[c].kids \o held
      /\ obj.kind = x.heap[c].kind
      /\ obj.freed = x.heap[c].freed
  BY <1>2 DEF Object
<1>6. y = [x EXCEPT !.heap = [@ EXCEPT ![c] = obj]]
  BY DEF Hold
<1> HIDE DEF obj, y
<1>7. /\ y \in BuilderType(V)
      /\ Len(y.heap) = Len(x.heap)
      /\ y.heap[c] = obj
      /\ \A a \in 1 .. Len(x.heap) : a # c => y.heap[a] = x.heap[a]
      /\ y.state_stack = x.state_stack
      /\ y.container_stack = x.container_stack
      /\ y.key = x.key
      /\ y.llsd = x.llsd
  BY <1>4, <1>6, HeapFacts
<1>8. \A o \in 1 .. Len(x.heap) : /\ y.heap[o].kind = x.heap[o].kind
                                  /\ y.heap[o].freed = x.heap[o].freed
                                  /\ o # c => y.heap[o].kids = x.heap[o].kids
  BY <1>5, <1>7
<1>9. y.heap[c].kids = x.heap[c].kids \o held
  BY <1>5, <1>7
<1>10. y.heap[c] = [x.heap[c] EXCEPT !.kids = @ \o held]
  BY <1>7 DEF obj
<1> QED BY <1>7, <1>8, <1>9, <1>10 DEF Holding, y

(* What llsd_delete of an object changes and what it keeps. *)
LEMMA DeleteFacts ==
  ASSUME NEW V, NEW x \in BuilderType(V), NEW v \in 1 .. Len(x.heap),
         NEW y, y = Delete(x, v)
  PROVE  /\ y \in BuilderType(V)
         /\ y.state_stack = x.state_stack
         /\ y.container_stack = x.container_stack
         /\ y.key = x.key
         /\ y.llsd = x.llsd
         /\ Len(y.heap) = Len(x.heap)
         /\ \A o \in 1 .. Len(x.heap) : o # v => y.heap[o] = x.heap[o]
         /\ y.heap[v].kids = x.heap[v].kids
         /\ y.heap[v].kind = x.heap[v].kind
<1> DEFINE obj == [x.heap[v] EXCEPT !.freed = @ + 1]
<1>1. x.heap \in Seq(Object(V))
  BY BuilderFields
<1>2. x.heap[v] \in Object(V) /\ x.heap[v].freed \in Nat
  BY <1>1, ObjectFields
<1>3. obj \in Object(V)
  BY SMTT(30), <1>2 DEF Object
<1>4. obj.kids = x.heap[v].kids /\ obj.kind = x.heap[v].kind
  BY <1>2 DEF Object
<1>5. y = [x EXCEPT !.heap = [@ EXCEPT ![v] = obj]]
  BY DEF Delete
<1> HIDE DEF obj
<1>6. /\ y \in BuilderType(V)
      /\ Len(y.heap) = Len(x.heap)
      /\ y.heap[v] = obj
      /\ \A a \in 1 .. Len(x.heap) : a # v => y.heap[a] = x.heap[a]
      /\ y.state_stack = x.state_stack
      /\ y.container_stack = x.container_stack
      /\ y.key = x.key
      /\ y.llsd = x.llsd
  BY <1>3, <1>5, HeapFacts
<1>7. y.heap[v].kids = x.heap[v].kids /\ y.heap[v].kind = x.heap[v].kind
  BY <1>4, <1>6
<1> QED BY <1>6, <1>7

-----------------------------------------------------------------------------
(* v is the object created last, and nothing refers to it yet. *)
Fresh(x, v) ==
  /\ v = Len(x.heap)
  /\ v > 0
  /\ x.key # v
  /\ Unreferenced(x.container_stack, x.llsd, x.heap, v)

(* llsd_new_* keeps the invariant, and nothing refers to the new object. *)
LEMMA CreateInd ==
  ASSUME NEW V, NEW x, Ind(V, x), NEW kind \in Kinds, NEW val \in V \union {"none"},
         NEW z, z = Create(x, kind, val)
  PROVE  /\ Ind(V, z)
         /\ Len(z.heap) = Len(x.heap) + 1
         /\ Fresh(z, Len(x.heap) + 1)
         /\ z.heap[Len(x.heap) + 1].kind = kind
         /\ z.heap[Len(x.heap) + 1].freed = 0
         /\ z.state_stack = x.state_stack
         /\ z.container_stack = x.container_stack
<1> DEFINE obj == [kind |-> kind, val |-> val, kids |-> << >>, freed |-> 0]
           h == Append(x.heap, obj)
           n == Len(x.heap)
<1>1. obj \in Object(V) /\ obj.kind = kind /\ obj.freed = 0 /\ obj.kids = << >>
  BY DEF Object
<1>2. /\ x \in BuilderType(V)
      /\ x.state_stack \in Seq(States)
      /\ x.container_stack \in Seq(Nat)
      /\ x.key \in Nat
      /\ x.llsd \in Nat
      /\ x.heap \in Seq(Object(V))
  BY IndFields
<1>3. /\ h \in Seq(Object(V))
      /\ Len(h) = Len(x.heap) + 1
      /\ h[Len(x.heap) + 1] = obj
      /\ \A i \in 1 .. Len(x.heap) : h[i] = x.heap[i]
  <2> HIDE DEF obj
  <2> QED BY <1>1, <1>2
<1>4. z = [x EXCEPT !.heap = h]
  BY DEF Create
<1> HIDE DEF h, obj
<1>5. z \in BuilderType(V) /\ z.heap = h
  BY <1>2, <1>3, <1>4, BuilderFields
<1>6. /\ z.state_stack = x.state_stack
      /\ z.container_stack = x.container_stack
      /\ z.key = x.key
      /\ z.llsd = x.llsd
  BY <1>2, <1>4 DEF BuilderType
<1>7. /\ Frames(x.state_stack, x.container_stack, x.heap)
      /\ Path(x.state_stack, x.container_stack, x.llsd, x.heap)
      /\ Keyed(x.state_stack, x.key, x.heap)
      /\ Live(x.container_stack, x.llsd, x.heap)
  BY DEF Ind
<1>8. Frames(x.state_stack, x.container_stack, h)
  <2>1. /\ Len(h) >= Len(x.heap)
        /\ \A o \in 1 .. Len(x.heap) : h[o].kind = x.heap[o].kind
    BY <1>2, <1>3
  <2>2. SameKind(x.state_stack[Len(x.state_stack)], x.state_stack[Len(x.state_stack)])
    BY DEF SameKind
  <2> QED BY <1>2, <1>3, <1>7, <2>1, <2>2, FramesStep
<1>9. Path(x.state_stack, x.container_stack, x.llsd, h)
  BY <1>2, <1>3, <1>7, PathStep
<1>10. Keyed(x.state_stack, x.key, h)
  BY SMTT(30), <1>2, <1>3, <1>7 DEF Keyed
<1>11. \A i \in 1 .. Len(x.container_stack) : x.container_stack[i] \in 1 .. n
  BY <1>7 DEF Frames
<1>12. Live(x.container_stack, x.llsd, h)
  <2>1. h[Len(x.heap) + 1].kids = << >>
    BY <1>1, <1>3
  <2> QED BY <1>2, <1>3, <1>7, <1>11, <2>1, LiveCreate
<1>13. Ind(V, z)
  BY <1>5, <1>6, <1>8, <1>9, <1>10, <1>12 DEF Ind
<1>14. Fresh(z, n + 1)
  <2>1. n + 1 = Len(z.heap) /\ n + 1 > 0 /\ n \in Nat
    BY <1>2, <1>3, <1>5
  <2>2. z.key # n + 1 /\ z.llsd # n + 1
    BY <1>2, <1>6, <1>7, <2>1 DEF Keyed, Live
  <2>3. ASSUME NEW i \in 1 .. Len(z.container_stack)
        PROVE  z.container_stack[i] # n + 1
    BY <1>6, <1>11, <2>1
  <2>4. ASSUME NEW o \in 1 .. Len(z.heap), NEW i \in 1 .. Len(z.heap[o].kids)
        PROVE  z.heap[o].kids[i] # n + 1
    <3>1. CASE o = n + 1
      <4>1. z.heap[o].kids = << >>
        BY <1>1, <1>3, <1>5, <3>1
      <4> QED BY <4>1
    <3>2. CASE o \in 1 .. n
      <4>1. z.heap[o] = x.heap[o]
        BY <1>3, <1>5, <3>2
      <4>2. x.heap[o].kids[i] \in 1 .. n
        BY <1>7, <3>2, <4>1 DEF Live
      <4> QED BY <2>1, <4>1, <4>2
    <3> QED BY <2>1, <3>1, <3>2
  <2> QED BY <2>1, <2>2, <2>3, <2>4 DEF Fresh, Unreferenced
<1> QED BY <1>1, <1>3, <1>5, <1>6, <1>13, <1>14

(* llsd_delete of an object nothing refers to keeps the invariant. *)
LEMMA DeleteInd ==
  ASSUME NEW V, NEW x, Ind(V, x), NEW v, Fresh(x, v)
  PROVE  Ind(V, Delete(x, v))
<1> DEFINE y == Delete(x, v)
<1>1. /\ x \in BuilderType(V)
      /\ x.state_stack \in Seq(States)
      /\ x.container_stack \in Seq(Nat)
      /\ x.key \in Nat
      /\ x.llsd \in Nat
      /\ x.heap \in Seq(Object(V))
  BY IndFields
<1>2. v \in 1 .. Len(x.heap)
  BY <1>1 DEF Fresh
<1>3. /\ y \in BuilderType(V)
      /\ y.state_stack = x.state_stack
      /\ y.container_stack = x.container_stack
      /\ y.key = x.key
      /\ y.llsd = x.llsd
      /\ Len(y.heap) = Len(x.heap)
      /\ \A o \in 1 .. Len(x.heap) : o # v => y.heap[o] = x.heap[o]
      /\ y.heap[v].kids = x.heap[v].kids
      /\ y.heap[v].kind = x.heap[v].kind
  BY <1>1, <1>2, DeleteFacts
<1> HIDE DEF y
<1>4. /\ Frames(x.state_stack, x.container_stack, x.heap)
      /\ Path(x.state_stack, x.container_stack, x.llsd, x.heap)
      /\ Keyed(x.state_stack, x.key, x.heap)
      /\ Live(x.container_stack, x.llsd, x.heap)
  BY DEF Ind
<1>5. y.heap \in Seq(Object(V))
  BY <1>3, BuilderFields
<1>6. \A o \in 1 .. Len(x.heap) :
        /\ y.heap[o].kind = x.heap[o].kind
        /\ y.heap[o].kids = x.heap[o].kids
        /\ o # v => y.heap[o].freed = x.heap[o].freed
  BY <1>3
<1>7. Frames(x.state_stack, x.container_stack, y.heap)
  <2>1. /\ Len(y.heap) >= Len(x.heap)
        /\ \A o \in 1 .. Len(x.heap) : y.heap[o].kind = x.heap[o].kind
    BY <1>1, <1>3, <1>6
  <2>2. SameKind(x.state_stack[Len(x.state_stack)], x.state_stack[Len(x.state_stack)])
    BY DEF SameKind
  <2> QED BY <1>1, <1>4, <1>5, <2>1, <2>2, FramesStep
<1>8. Path(x.state_stack, x.container_stack, x.llsd, y.heap)
  BY <1>1, <1>3, <1>4, <1>5, <1>6, PathStep
<1>9. Keyed(x.state_stack, x.key, y.heap)
  BY <1>1, <1>3, <1>4, <1>5, <1>6 DEF Keyed, Fresh
<1>10. Live(x.container_stack, x.llsd, y.heap)
  <2>1. Unreferenced(x.container_stack, x.llsd, x.heap, v)
    BY DEF Fresh
  <2>2. \A i \in 1 .. Len(x.container_stack) : x.container_stack[i] \in 1 .. Len(x.heap)
    BY <1>4 DEF Frames
  <2>3. /\ Live(x.container_stack, x.llsd, x.heap)
        /\ Len(y.heap) = Len(x.heap)
    BY <1>3, <1>4
  <2>4. \A o \in 1 .. Len(x.heap) :
          /\ y.heap[o].kids = x.heap[o].kids
          /\ o # v => y.heap[o].freed = x.heap[o].freed
    BY <1>6
  <2>5. x.container_stack \in Seq(Nat) /\ x.llsd \in Nat /\ x.heap \in Seq(Object(V))
    BY <1>1
  <2> QED BY ONLY ZenonT(60), <1>5, <2>1, <2>2, <2>3, <2>4, <2>5, LiveDelete
<1> QED BY <1>3, <1>7, <1>8, <1>9, <1>10 DEF Ind, y

-----------------------------------------------------------------------------
(* The innermost frame moves within its own kind of states. *)
LEMMA FrameMoves ==
  ASSUME NEW V, NEW x, Ind(V, x), Len(x.container_stack) > 0, NEW st \in States,
         SameKind(Top(x.state_stack), st),
         NEW y, Moved(V, x, y, st),
         y.key <= Len(x.heap),
         st \in NeedsKey => /\ y.key > 0
                            /\ x.heap[y.key].kind = "string"
                            /\ x.heap[y.key].freed = 0
  PROVE  Ind(V, y) /\ Top(y.state_stack) = st
<1> DEFINE ss == x.state_stack
           t  == Replace(ss, st)
<1>1. /\ ss \in Seq(States)
      /\ x.container_stack \in Seq(Nat)
      /\ x.key \in Nat
      /\ x.llsd \in Nat
      /\ x.heap \in Seq(Object(V))
      /\ Len(ss) > 0
      /\ Top(x.state_stack) = ss[Len(ss)]
  BY IndFields
<1>2. /\ t \in Seq(States)
      /\ Len(t) = Len(ss)
      /\ t[Len(ss)] = st
      /\ \A i \in 1 .. Len(ss) - 1 : t[i] = ss[i]
  <2>1. ss \in Seq(States) /\ Len(ss) > 0
    BY <1>1
  <2> HIDE DEF ss
  <2> QED BY ONLY <2>1, st \in States, t = Replace(ss, st), ReplaceFacts
<1>3. /\ Frames(ss, x.container_stack, x.heap)
      /\ Path(ss, x.container_stack, x.llsd, x.heap)
      /\ Live(x.container_stack, x.llsd, x.heap)
  BY DEF Ind
<1> HIDE DEF t, ss
<1>4. Frames(t, x.container_stack, x.heap)
  <2>1. SameKind(ss[Len(ss)], t[Len(ss)])
    BY <1>1, <1>2
  <2>2. Len(x.heap) >= Len(x.heap)
    BY <1>1
  <2>3. /\ x.container_stack \in Seq(Nat)
        /\ x.heap \in Seq(Object(V))
        /\ ss \in Seq(States)
    BY <1>1
  <2> QED BY SMTT(30), <1>2, <1>3, <2>1, <2>2, <2>3, FramesStep
<1>5. Path(t, x.container_stack, x.llsd, x.heap)
  BY <1>1, <1>2, <1>3, PathStep
<1>6. Keyed(t, y.key, x.heap)
  BY <1>2 DEF Keyed
<1>7. Top(t) = st
  BY <1>1, <1>2, TopFacts
<1> QED BY <1>3, <1>4, <1>5, <1>6, <1>7 DEF Ind, Moved, t, ss

(* POP; PUSH( st ) on the state stack. *)
SetTop(x, st) == [x EXCEPT !.state_stack = Replace(@, st)]

(* A move of the innermost frame within its kind keeps the invariant, if a
   state that needs a key is only reached from one. *)
LEMMA MoveInd ==
  ASSUME NEW V, NEW x, Ind(V, x), Len(x.container_stack) > 0, NEW st \in States,
         SameKind(Top(x.state_stack), st),
         st \in NeedsKey => Top(x.state_stack) \in NeedsKey
  PROVE  /\ Ind(V, SetTop(x, st))
         /\ Top(SetTop(x, st).state_stack) = st
         /\ Moved(V, x, SetTop(x, st), st)
         /\ SetTop(x, st).key = x.key
<1> DEFINE y == SetTop(x, st)
<1>1. /\ x \in BuilderType(V)
      /\ x.state_stack \in Seq(States)
      /\ x.heap \in Seq(Object(V))
      /\ x.key \in Nat
      /\ Len(x.state_stack) > 0
      /\ Top(x.state_stack) = x.state_stack[Len(x.state_stack)]
  BY IndFields
<1>2. Moved(V, x, y, st) /\ y.key = x.key
  BY <1>1, MovedFacts DEF SetTop
<1>3. Keyed(x.state_stack, x.key, x.heap)
  BY DEF Ind
<1>4. /\ x.key <= Len(x.heap)
      /\ st \in NeedsKey => /\ x.key > 0
                            /\ x.heap[x.key].kind = "string"
                            /\ x.heap[x.key].freed = 0
  BY <1>1, <1>3 DEF Keyed
<1> HIDE DEF y
<1>5. Ind(V, y) /\ Top(y.state_stack) = st
  BY <1>2, <1>4, FrameMoves
<1> QED BY <1>2, <1>5 DEF y

(* c is the container that is given the next value. *)
Innermost(x, c) == Len(x.container_stack) > 0 /\ c = TopObj(x.container_stack)

(* v was the last value delivered, and may be opened. *)
Delivered(x, v) ==
  /\ v = Len(x.heap)
  /\ v > 0
  /\ x.heap[v].freed = 0
  /\ \A i \in 1 .. Len(x.container_stack) : x.container_stack[i] # v
  /\ Len(x.container_stack) = 0 => x.llsd = v
  /\ Len(x.container_stack) > 0 =>
       LET kids == x.heap[TopObj(x.container_stack)].kids
       IN  /\ Top(x.state_stack) \in {"ARRAY_VALUE", "MAP_VALUE"}
           /\ Len(kids) > 0
           /\ kids[Len(kids)] = v

(* What add_to_container may return. *)
Added(V, x, r, v) ==
  \/ r.ok = FALSE /\ r.b = x
  \/ /\ r.ok = TRUE
     /\ Ind(V, r.b)
     /\ Delivered(r.b, v)
     /\ Len(r.b.heap) = Len(x.heap)
     /\ r.b.heap[v].kind = x.heap[v].kind
     /\ r.b.state_stack = x.state_stack
     /\ r.b.container_stack = x.container_stack

(* add_to_container keeps the invariant, and when it refuses the value it
   has changed nothing. *)
LEMMA AddInd ==
  ASSUME NEW V, NEW x, Ind(V, x), NEW v, Fresh(x, v), x.heap[v].freed = 0,
         NEW luck \in Luck,
         Top(x.state_stack) \in {"ARRAY_VALUE", "MAP_VALUE"},
         NEW c, Innermost(x, c),
         x.heap[c].kind = "map" => x.key > 0 /\ x.heap[x.key].freed = 0
  PROVE  Added(V, x, add_to_container(x, c, x.key, v, luck), v)
<1> DEFINE r == add_to_container(x, c, x.key, v, luck)
<1> DEFINE held == IF x.heap[c].kind = "map" THEN <<x.key, v>> ELSE <<v>>
           y == Hold(x, c, held)
<1>1. /\ x \in BuilderType(V)
      /\ x.state_stack \in Seq(States)
      /\ x.container_stack \in Seq(Nat)
      /\ x.key \in Nat
      /\ x.llsd \in Nat
      /\ x.heap \in Seq(Object(V))
      /\ c = x.container_stack[Len(x.container_stack)]
      /\ c \in 1 .. Len(x.heap)
      /\ Len(x.state_stack) = Len(x.container_stack) + 1
      /\ Top(x.state_stack) = x.state_stack[Len(x.state_stack)]
  BY IndFields DEF Innermost
<1>2. /\ Frames(x.state_stack, x.container_stack, x.heap)
      /\ Path(x.state_stack, x.container_stack, x.llsd, x.heap)
      /\ Keyed(x.state_stack, x.key, x.heap)
      /\ Live(x.container_stack, x.llsd, x.heap)
  BY DEF Ind
<1>3. /\ v \in 1 .. Len(x.heap)
      /\ v = Len(x.heap)
      /\ c # v
      /\ \A i \in 1 .. Len(x.container_stack) : x.container_stack[i] # v
  <2>1. /\ v = Len(x.heap) /\ v > 0
        /\ \A i \in 1 .. Len(x.container_stack) : x.container_stack[i] # v
    BY DEF Fresh, Unreferenced
  <2>2. Len(x.heap) \in Nat
    BY <1>1
  <2>3. Len(x.container_stack) \in 1 .. Len(x.container_stack)
    BY <1>1 DEF Innermost
  <2> QED BY ONLY <1>1, <2>1, <2>2, <2>3
<1>4. /\ held \in Seq(Nat)
      /\ Len(held) > 0
      /\ held[Len(held)] = v
      /\ \A i \in 1 .. Len(held) : held[i] \in 1 .. Len(x.heap) /\ x.heap[held[i]].freed = 0
  <2>1. x.key <= Len(x.heap)
    BY <1>2 DEF Keyed
  <2>2. CASE x.heap[c].kind = "map"
    <3>1. held = <<x.key, v>>
      BY <2>2
    <3>2. x.key \in 1 .. Len(x.heap) /\ x.heap[x.key].freed = 0
      BY <1>1, <2>1, <2>2
    <3>3. /\ <<x.key, v>> \in Seq(Nat)
          /\ Len(<<x.key, v>>) = 2
          /\ <<x.key, v>>[1] = x.key
          /\ <<x.key, v>>[2] = v
      BY <1>1, <1>3
    <3> HIDE DEF held
    <3> QED BY <1>3, <3>1, <3>2, <3>3
  <2>3. CASE x.heap[c].kind # "map"
    <3>1. held = <<v>>
      BY <2>3
    <3>2. /\ <<v>> \in Seq(Nat)
          /\ Len(<<v>>) = 1
          /\ <<v>>[1] = v
      BY <1>1, <1>3
    <3> HIDE DEF held
    <3> QED BY <1>3, <3>1, <3>2
  <2> QED BY <2>2, <2>3
<1>5. r = IF Takes(x, c, x.key, luck) THEN [ok |-> TRUE, b |-> y] ELSE [ok |-> FALSE, b |-> x]
  BY DEF add_to_container, Succeeds, Fails, Hold
<1> HIDE DEF held, r
<1>16. Holding(V, x, y, c, held)
  <2>1. x \in BuilderType(V) /\ c \in 1 .. Len(x.heap)
    BY <1>1
  <2>2. held \in Seq(Nat)
    BY <1>4
  <2> QED BY <2>1, <2>2, HoldFacts
<1> HIDE DEF y
<1>6. /\ y \in BuilderType(V)
      /\ y.state_stack = x.state_stack
      /\ y.container_stack = x.container_stack
      /\ y.key = x.key
      /\ y.llsd = x.llsd
      /\ Len(y.heap) = Len(x.heap)
      /\ y.heap[c].kids = x.heap[c].kids \o held
  BY <1>16 DEF Holding
<1>7. y.heap \in Seq(Object(V))
  BY <1>6, BuilderFields
<1>8. \A o \in 1 .. Len(x.heap) :
        /\ y.heap[o].kind = x.heap[o].kind
        /\ y.heap[o].freed = x.heap[o].freed
        /\ o # c => y.heap[o].kids = x.heap[o].kids
  BY <1>16 DEF Holding
<1>9. Frames(x.state_stack, x.container_stack, y.heap)
  <2>3. Len(x.heap) \in Nat
    <3>1. x.heap \in Seq(Object(V))
      BY <1>1
    <3> QED BY <3>1
  <2>5. Len(y.heap) = Len(x.heap)
    BY <1>6
  <2>4. Len(y.heap) >= Len(x.heap)
    BY <2>3, <2>5
  <2>1. /\ Len(y.heap) >= Len(x.heap)
        /\ \A o \in 1 .. Len(x.heap) : y.heap[o].kind = x.heap[o].kind
    BY <2>4, <1>8
  <2>2. SameKind(x.state_stack[Len(x.state_stack)], x.state_stack[Len(x.state_stack)])
    BY DEF SameKind
  <2>6. /\ x.state_stack \in Seq(States)
        /\ x.container_stack \in Seq(Nat)
        /\ x.heap \in Seq(Object(V))
        /\ Frames(x.state_stack, x.container_stack, x.heap)
    BY <1>1, <1>2
  <2> QED BY ONLY <1>7, <2>1, <2>2, <2>6, FramesStep
<1>10. Path(x.state_stack, x.container_stack, x.llsd, y.heap)
  <2>1. \A o \in 1 .. Len(x.heap) : o # x.container_stack[Len(x.container_stack)] =>
           y.heap[o].kids = x.heap[o].kids
    BY <1>1, <1>8
  <2>2. /\ x.state_stack \in Seq(States)
        /\ x.container_stack \in Seq(Nat)
        /\ x.heap \in Seq(Object(V))
        /\ Frames(x.state_stack, x.container_stack, x.heap)
        /\ Path(x.state_stack, x.container_stack, x.llsd, x.heap)
    BY <1>1, <1>2
  <2> QED BY ONLY <1>7, <2>1, <2>2, PathStep
<1>11. Keyed(x.state_stack, x.key, y.heap)
  <2>1. /\ x.key <= Len(y.heap)
        /\ x.key \in Nat
        /\ x.key <= Len(x.heap)
    BY <1>1, <1>2, <1>6 DEF Keyed
  <2>2. x.key > 0 => /\ y.heap[x.key].kind = x.heap[x.key].kind
                     /\ y.heap[x.key].freed = x.heap[x.key].freed
    BY SMTT(30), <1>1, <1>8, <2>1
  <2> QED BY SMTT(30), <1>2, <2>1, <2>2 DEF Keyed
<1>12. Live(x.container_stack, x.llsd, y.heap)
  <2>1. \A i \in 1 .. Len(x.container_stack) : x.container_stack[i] \in 1 .. Len(x.heap)
    BY <1>2 DEF Frames
  <2>2. \A o \in 1 .. Len(x.heap) : /\ y.heap[o].freed = x.heap[o].freed
                                    /\ o # c => y.heap[o].kids = x.heap[o].kids
    BY <1>8
  <2>3. Len(y.heap) = Len(x.heap) /\ y.heap[c].kids = x.heap[c].kids \o held
    BY <1>6
  <2>4. /\ x.container_stack \in Seq(Nat)
        /\ x.llsd \in Nat
        /\ x.heap \in Seq(Object(V))
        /\ c \in 1 .. Len(x.heap)
        /\ Live(x.container_stack, x.llsd, x.heap)
    BY <1>1, <1>2
  <2>5. /\ held \in Seq(Nat)
        /\ \A i \in 1 .. Len(held) : held[i] \in 1 .. Len(x.heap) /\ x.heap[held[i]].freed = 0
    BY <1>4
  <2> QED BY ONLY ZenonT(60), <1>7, <2>1, <2>2, <2>3, <2>4, <2>5, LiveHold
<1>13. Ind(V, y)
  BY <1>6, <1>9, <1>10, <1>11, <1>12 DEF Ind
<1>14. Delivered(y, v)
  <2>1. v = Len(y.heap) /\ v > 0 /\ y.heap[v].freed = 0
    BY <1>3, <1>6, <1>8
  <2>2. x.heap[c].kids \in Seq(Nat)
    BY <1>1, ObjectFields
  <2>3. /\ Len(y.heap[c].kids) = Len(x.heap[c].kids) + Len(held)
        /\ y.heap[c].kids[Len(x.heap[c].kids) + Len(held)] = held[Len(held)]
    BY <1>4, <1>6, <2>2
  <2>4. Len(y.heap[c].kids) > 0 /\ y.heap[c].kids[Len(y.heap[c].kids)] = v
    BY SMTT(30), <1>4, <2>2, <2>3
  <2>5. /\ \A i \in 1 .. Len(y.container_stack) : y.container_stack[i] # v
        /\ Len(y.container_stack) > 0
        /\ TopObj(y.container_stack) = c
        /\ Top(y.state_stack) \in {"ARRAY_VALUE", "MAP_VALUE"}
    BY <1>3, <1>6 DEF Innermost
  <2>6. ~(Len(y.container_stack) = 0)
    BY <2>5
  <2> QED BY <2>1, <2>4, <2>5, <2>6 DEF Delivered
<1>15. y.heap[v].kind = x.heap[v].kind
  BY <1>3, <1>8
<1> QED BY <1>5, <1>6, <1>13, <1>14, <1>15 DEF Added, r

-----------------------------------------------------------------------------
(* Only the key differs. *)
LEMMA KeyInd ==
  ASSUME NEW V, NEW x, Ind(V, x), Top(x.state_stack) \notin NeedsKey
  PROVE  LET y == [x EXCEPT !.key = 0]
         IN  /\ Ind(V, y)
             /\ y.state_stack = x.state_stack
             /\ y.container_stack = x.container_stack
             /\ y.heap = x.heap
             /\ y.llsd = x.llsd
<1> DEFINE y == [x EXCEPT !.key = 0]
<1>1. x \in BuilderType(V) /\ Top(x.state_stack) = x.state_stack[Len(x.state_stack)]
      /\ x.heap \in Seq(Object(V))
  BY IndFields
<1>2. /\ y \in BuilderType(V)
      /\ y.state_stack = x.state_stack
      /\ y.container_stack = x.container_stack
      /\ y.heap = x.heap
      /\ y.llsd = x.llsd
      /\ y.key = 0
  BY <1>1 DEF BuilderType
<1> HIDE DEF y
<1>3. Keyed(y.state_stack, y.key, y.heap)
  <2>1. 0 <= Len(x.heap)
    BY <1>1
  <2> QED BY <1>1, <1>2, <2>1 DEF Keyed
<1>4. Ind(V, y)
  BY <1>2, <1>3 DEF Ind
<1> QED BY <1>2, <1>4 DEF y

(* What update_state may leave. *)
Updated(V, x, r, v, valid_states) ==
  /\ r.ok \in BOOLEAN
  /\ Ind(V, r.b)
  /\ Len(r.b.heap) = Len(x.heap)
  /\ r.b.heap[v].kind = x.heap[v].kind
  /\ ~r.ok => Fresh(r.b, v)
  /\ r.ok /\ valid_states = VALUE_STATES => Delivered(r.b, v)

(* update_state keeps the invariant, and when it refuses the value nothing
   refers to it, so the callback may delete it. *)
LEMMA UpdateInd ==
  ASSUME NEW V, NEW x, Ind(V, x), NEW v, Fresh(x, v), x.heap[v].freed = 0,
         NEW valid_states \in {VALUE_STATES, STRING_STATES},
         valid_states = STRING_STATES => x.heap[v].kind = "string",
         NEW luck \in Luck
  PROVE  Updated(V, x, update_state(valid_states, x, v, luck), v, valid_states)
<1> DEFINE state == Top(x.state_stack)
           moved == SetTop(x, ValueOf[state])
           c     == TopObj(x.container_stack)
           added == add_to_container(moved, TopObj(moved.container_stack), moved.key, v, luck)
           r     == update_state(valid_states, x, v, luck)
<1>1. /\ x \in BuilderType(V)
      /\ x.state_stack \in Seq(States)
      /\ x.container_stack \in Seq(Nat)
      /\ x.key \in Nat
      /\ x.llsd \in Nat
      /\ x.heap \in Seq(Object(V))
      /\ Len(x.state_stack) = Len(x.container_stack) + 1
      /\ state \in States
      /\ state = x.state_stack[Len(x.state_stack)]
      /\ Len(x.container_stack) = 0 => state = "TOP_LEVEL"
      /\ Len(x.container_stack) > 0 => c \in 1 .. Len(x.heap) /\ Suits(x.heap[c].kind, state)
  BY IndFields
<1>2. /\ v \in 1 .. Len(x.heap)
      /\ v = Len(x.heap)
      /\ v > 0
      /\ \A i \in 1 .. Len(x.container_stack) : x.container_stack[i] # v
  BY <1>1 DEF Fresh, Unreferenced
<1>3. Len(x.container_stack) > 0 <=> state # "TOP_LEVEL"
  <2>1. Len(x.container_stack) > 0 => state # "TOP_LEVEL"
    BY <1>1 DEF Suits, ArrayStates, MapStates
  <2>2. Len(x.container_stack) \in Nat
    BY <1>1
  <2> QED BY <1>1, <2>1, <2>2
<1>4. CASE state \notin valid_states
  <2>1. r = [ok |-> FALSE, b |-> x]
    BY <1>4 DEF update_state, Fails
  <2> HIDE DEF r
  <2> QED BY <2>1 DEF Updated, r
<1>5. CASE state \in valid_states /\ state = "TOP_LEVEL"
  <2> DEFINE y == [x EXCEPT !.llsd = v]
  <2>1. r = [ok |-> TRUE, b |-> y]
    BY <1>5 DEF update_state, Succeeds, SetTop
  <2>2. /\ y \in BuilderType(V)
        /\ y.state_stack = x.state_stack
        /\ y.container_stack = x.container_stack
        /\ y.heap = x.heap
        /\ y.key = x.key
        /\ y.llsd = v
    BY SMTT(30), <1>1, <1>2 DEF BuilderType
  <2> HIDE DEF r, y, state
  <2>3. Len(x.container_stack) = 0
    BY <1>1, <1>3, <1>5
  <2>4. Path(y.state_stack, y.container_stack, y.llsd, y.heap)
    BY <2>2, <2>3 DEF Path
  <2>5. Live(y.container_stack, y.llsd, y.heap)
    BY <1>2, <2>2 DEF Ind, Live
  <2>6. Ind(V, y)
    BY <2>2, <2>4, <2>5 DEF Ind
  <2>7. Delivered(y, v)
    BY <1>2, <2>2, <2>3 DEF Delivered
  <2> QED BY <2>1, <2>2, <2>6, <2>7 DEF Updated, r
<1>6. CASE state \in valid_states /\ state = "MAP_KEY_BEGIN"
  <2> DEFINE y == [moved EXCEPT !.key = v]
  <2>1. r = [ok |-> TRUE, b |-> y]
    BY <1>6 DEF update_state, Succeeds, SetTop
  <2>2. valid_states = STRING_STATES /\ x.heap[v].kind = "string"
    BY <1>6 DEF VALUE_STATES
  <2>3. ValueOf[state] = "MAP_KEY"
    BY <1>6 DEF ValueOf
  <2>4. Moved(V, x, moved, "MAP_KEY")
    <3>1. moved = [x EXCEPT !.state_stack = Replace(@, "MAP_KEY")]
      BY <2>3 DEF SetTop
    <3>2. "MAP_KEY" \in States /\ Len(x.state_stack) > 0
      BY <1>1 DEF States, MapStates
    <3> HIDE DEF moved
    <3> QED BY <1>1, <3>1, <3>2, MovedFacts
  <2> HIDE DEF moved
  <2>5. y.key = v /\ Moved(V, x, y, "MAP_KEY")
    BY SMTT(30), <1>2, <2>4 DEF Moved, BuilderType
  <2> HIDE DEF y, r
  <2>6. SameKind(Top(x.state_stack), "MAP_KEY")
    BY <1>6 DEF SameKind, Suits, ArrayStates, MapStates
  <2>7. Len(x.container_stack) > 0 /\ "MAP_KEY" \in States
    BY <1>3, <1>6 DEF States, MapStates
  <2>8. y.key <= Len(x.heap) /\ y.key > 0
    BY <1>1, <1>2, <2>5
  <2>9. Ind(V, y)
    BY <2>2, <2>5, <2>6, <2>7, <2>8, FrameMoves
  <2>10. Len(y.heap) = Len(x.heap) /\ y.heap[v].kind = x.heap[v].kind
    BY <2>5 DEF Moved
  <2>11. VALUE_STATES # STRING_STATES
    BY DEF VALUE_STATES, STRING_STATES
  <2> QED BY <2>1, <2>2, <2>9, <2>10, <2>11 DEF Updated, r
<1>7. CASE state \in valid_states /\ state \in {"ARRAY_VALUE_BEGIN", "MAP_VALUE_BEGIN"}
  <2>1. /\ ValueOf[state] \in {"ARRAY_VALUE", "MAP_VALUE"}
        /\ ValueOf[state] \in States
        /\ ValueOf[state] \notin NeedsKey
        /\ SameKind(state, ValueOf[state])
    <3>1. CASE state = "ARRAY_VALUE_BEGIN"
      <4>1. ValueOf[state] = "ARRAY_VALUE"
        BY <3>1 DEF ValueOf
      <4> HIDE DEF state
      <4> QED BY <3>1, <4>1 DEF States, ArrayStates, MapStates, NeedsKey, SameKind, Suits
    <3>2. CASE state = "MAP_VALUE_BEGIN"
      <4>1. ValueOf[state] = "MAP_VALUE"
        BY <3>2 DEF ValueOf
      <4> HIDE DEF state
      <4> QED BY <3>2, <4>1 DEF States, ArrayStates, MapStates, NeedsKey, SameKind, Suits
    <3> QED BY <1>7, <3>1, <3>2
  <2>2. Len(x.container_stack) > 0
    BY <1>3, <1>7
  <2>3. /\ Ind(V, moved)
        /\ Top(moved.state_stack) = ValueOf[state]
        /\ moved.container_stack = x.container_stack
        /\ moved.key = x.key
        /\ moved.llsd = x.llsd
        /\ moved.heap = x.heap
    BY <2>1, <2>2, MoveInd DEF Moved
  <2>4. Fresh(moved, v)
    BY <2>3 DEF Fresh
  <2>5. r = IF state = "MAP_VALUE_BEGIN" /\ added.ok
            THEN [ok |-> TRUE, b |-> [added.b EXCEPT !.key = 0]] ELSE added
    <3>1. added = add_to_container(moved, c, x.key, v, luck)
      BY <2>3
    <3>2. state \in valid_states /\ state # "TOP_LEVEL" /\ state # "MAP_KEY_BEGIN"
      BY <1>7
    <3>3. CASE state = "ARRAY_VALUE_BEGIN"
      BY <3>1, <3>2, <3>3 DEF update_state, Succeeds, SetTop
    <3>4. CASE state = "MAP_VALUE_BEGIN"
      BY <3>1, <3>2, <3>4 DEF update_state, Succeeds, SetTop
    <3> QED BY <1>7, <3>3, <3>4
  <2> HIDE DEF moved, r
  <2>6. Innermost(moved, TopObj(moved.container_stack))
    BY <2>2, <2>3 DEF Innermost
  <2>7. moved.heap[TopObj(moved.container_stack)].kind = "map" =>
          moved.key > 0 /\ moved.heap[moved.key].freed = 0
    <3>1. c = TopObj(moved.container_stack) /\ moved.heap[c].kind = x.heap[c].kind
      BY <2>3
    <3>2. x.heap[c].kind = "map" => state = "MAP_VALUE_BEGIN"
      BY <1>1, <1>7, <2>2 DEF Suits, ArrayStates, MapStates
    <3>3. state = "MAP_VALUE_BEGIN" => x.key > 0 /\ x.heap[x.key].freed = 0
      BY <1>1 DEF Ind, Keyed, NeedsKey
    <3> QED BY <2>3, <3>1, <3>2, <3>3
  <2>8. moved.heap[v].freed = 0 /\ Top(moved.state_stack) \in {"ARRAY_VALUE", "MAP_VALUE"}
    BY <2>1, <2>3
  <2>9. Added(V, moved, added, v)
    BY <2>3, <2>4, <2>6, <2>7, <2>8, AddInd
  <2> HIDE DEF added
  <2>10. CASE added.ok = FALSE /\ added.b = moved
    <3>1. r = added
      BY <2>5, <2>10
    <3> QED BY <2>3, <2>4, <2>10, <3>1 DEF Updated, r
  <2>11. CASE /\ added.ok = TRUE
              /\ Ind(V, added.b)
              /\ Delivered(added.b, v)
              /\ Len(added.b.heap) = Len(moved.heap)
              /\ added.b.heap[v].kind = moved.heap[v].kind
              /\ added.b.state_stack = moved.state_stack
              /\ added.b.container_stack = moved.container_stack
    <3>1. CASE state = "MAP_VALUE_BEGIN"
      <4> DEFINE y == [added.b EXCEPT !.key = 0]
      <4>1. r = [ok |-> TRUE, b |-> y]
        BY <2>5, <2>11, <3>1
      <4>2. Top(added.b.state_stack) \notin NeedsKey
        BY <2>1, <2>3, <2>11
      <4>3. /\ Ind(V, y)
            /\ y.state_stack = added.b.state_stack
            /\ y.container_stack = added.b.container_stack
            /\ y.heap = added.b.heap
            /\ y.llsd = added.b.llsd
        BY <2>11, <4>2, KeyInd
      <4> HIDE DEF y
      <4>4. Delivered(y, v)
        BY <2>11, <4>3 DEF Delivered
      <4>5. r.ok = TRUE /\ r.b = y
        BY <4>1
      <4>6. Len(y.heap) = Len(x.heap) /\ y.heap[v].kind = x.heap[v].kind
        BY <2>3, <2>11, <4>3
      <4> QED BY <4>3, <4>4, <4>5, <4>6 DEF Updated, r
    <3>2. CASE state # "MAP_VALUE_BEGIN"
      <4>1. r = added
        BY <2>5, <3>2
      <4> QED BY <2>3, <2>11, <4>1 DEF Updated, r
    <3> QED BY <3>1, <3>2
  <2> QED BY <2>9, <2>10, <2>11 DEF Added
<1>8. valid_states \subseteq {"TOP_LEVEL", "MAP_KEY_BEGIN", "ARRAY_VALUE_BEGIN", "MAP_VALUE_BEGIN"}
  BY DEF VALUE_STATES, STRING_STATES
<1> QED BY <1>4, <1>5, <1>6, <1>7, <1>8

-----------------------------------------------------------------------------
(* What Deliver may return. *)
Offered(V, r, kind, valid_states) ==
  /\ r.ok \in BOOLEAN
  /\ Ind(V, r.b)
  /\ r.ok /\ valid_states = VALUE_STATES =>
       /\ Delivered(r.b, Len(r.b.heap))
       /\ r.b.heap[Len(r.b.heap)].kind = kind

(* A value callback as a whole keeps the invariant; a value that was taken
   is live and is the innermost container's last one, or the one to return. *)
LEMMA DeliverInd ==
  ASSUME NEW V, NEW x, Ind(V, x), NEW kind \in Kinds, NEW val \in V \union {"none"},
         NEW valid_states \in {VALUE_STATES, STRING_STATES},
         valid_states = STRING_STATES => kind = "string",
         NEW luck \in Luck
  PROVE  Offered(V, Deliver(x, kind, val, valid_states, luck), kind, valid_states)
<1> DEFINE v == Len(x.heap) + 1
           z == Create(x, kind, val)
           u == update_state(valid_states, z, v, luck)
           r == Deliver(x, kind, val, valid_states, luck)
<1>1. /\ Ind(V, z)
      /\ Len(z.heap) = v
      /\ Fresh(z, v)
      /\ z.heap[v].kind = kind
      /\ z.heap[v].freed = 0
  BY CreateInd
<1> HIDE DEF z, v
<1>2. Updated(V, z, u, v, valid_states)
  BY <1>1, UpdateInd
<1>3. r = IF luck = "no_memory" THEN [ok |-> FALSE, b |-> x]
          ELSE IF u.ok THEN u ELSE [ok |-> FALSE, b |-> Delete(u.b, v)]
  BY DEF Deliver, Fails, z, v
<1> HIDE DEF u, r
<1>4. CASE luck = "no_memory"
  <2>1. r.ok = FALSE /\ r.b = x
    BY <1>3, <1>4
  <2> QED BY <2>1 DEF Offered, r
<1>5. CASE luck # "no_memory" /\ u.ok
  <2>1. r = u
    BY <1>3, <1>5
  <2>2. Len(u.b.heap) = v /\ u.b.heap[v].kind = kind
    BY <1>1, <1>2 DEF Updated
  <2>3. /\ u.ok \in BOOLEAN
        /\ Ind(V, u.b)
        /\ valid_states = VALUE_STATES => Delivered(u.b, v)
    BY <1>2, <1>5 DEF Updated
  <2> QED BY <2>1, <2>2, <2>3 DEF Offered, r
<1>6. CASE luck # "no_memory" /\ ~u.ok
  <2>1. r.ok = FALSE /\ r.b = Delete(u.b, v)
    BY <1>3, <1>6
  <2>2. Ind(V, u.b) /\ Fresh(u.b, v)
    BY <1>2, <1>6 DEF Updated
  <2>3. Ind(V, r.b)
    BY <2>1, <2>2, DeleteInd
  <2> QED BY <2>1, <2>3 DEF Offered, r
<1> QED BY <1>4, <1>5, <1>6

(* The delivered container is opened. *)
LEMMA OpenInd ==
  ASSUME NEW V, NEW x, Ind(V, x), NEW v, Delivered(x, v), NEW first \in States,
         Suits(x.heap[v].kind, first), first \notin NeedsKey
  PROVE  Ind(V, [x EXCEPT !.container_stack = Push(@, v),
                       !.state_stack     = Push(@, first)])
<1> DEFINE cs == x.container_stack
           ss == x.state_stack
           heap == x.heap
           cs2 == Push(cs, v)
           ss2 == Push(ss, first)
           n  == Len(cs)
           y == [x EXCEPT !.container_stack = cs2, !.state_stack = ss2]
<1>1. /\ x \in BuilderType(V)
      /\ ss \in Seq(States)
      /\ cs \in Seq(Nat)
      /\ x.key \in Nat
      /\ x.llsd \in Nat
      /\ heap \in Seq(Object(V))
      /\ Len(ss) = Len(cs) + 1
      /\ Top(ss) = ss[Len(ss)]
      /\ Len(cs) > 0 => TopObj(cs) = cs[Len(cs)]
  BY IndFields
<1>2. /\ Frames(ss, cs, heap)
      /\ Path(ss, cs, x.llsd, heap)
      /\ Keyed(ss, x.key, heap)
      /\ Live(cs, x.llsd, heap)
  BY DEF Ind
<1>3. /\ v = Len(heap)
      /\ v > 0
      /\ heap[v].freed = 0
      /\ \A i \in 1 .. n : cs[i] # v
      /\ n = 0 => x.llsd = v
      /\ n > 0 => /\ ss[Len(ss)] \in {"ARRAY_VALUE", "MAP_VALUE"}
                  /\ Len(heap[cs[n]].kids) > 0
                  /\ heap[cs[n]].kids[Len(heap[cs[n]].kids)] = v
  BY <1>1 DEF Delivered
<1>4. v \in Nat /\ v \in 1 .. Len(heap) /\ n \in Nat
  BY <1>1, <1>3
<1> HIDE DEF cs, ss
<1>5. /\ cs2 \in Seq(Nat)
      /\ Len(cs2) = n + 1
      /\ cs2[n + 1] = v
      /\ \A i \in 1 .. n : cs2[i] = cs[i]
  <2>1. cs \in Seq(Nat) /\ v \in Nat
    BY <1>1, <1>4
  <2>2. /\ cs2 \in Seq(Nat)
        /\ Len(cs2) = Len(cs) + 1
        /\ cs2[Len(cs) + 1] = v
        /\ \A i \in 1 .. Len(cs) : cs2[i] = cs[i]
    <3> HIDE DEF n
    <3> QED BY <2>1 DEF Push
  <2> QED BY <2>2
<1>6. /\ ss2 \in Seq(States)
      /\ Len(ss2) = n + 2
      /\ ss2[n + 2] = first
      /\ \A i \in 1 .. n + 1 : ss2[i] = ss[i]
  <2>1. /\ ss2 \in Seq(States)
        /\ Len(ss2) = Len(ss) + 1
        /\ ss2[Len(ss) + 1] = first
        /\ \A i \in 1 .. Len(ss) : ss2[i] = ss[i]
    <3>1. ss \in Seq(States)
      BY <1>1
    <3> QED BY <3>1, PushFacts
  <2>2. Len(ss) = n + 1 /\ Len(ss) + 1 = n + 2
    BY <1>1, <1>4
  <2> QED BY <2>1, <2>2
<1>7. y \in BuilderType(V)
  <2> HIDE DEF cs2, ss2
  <2> QED BY <1>1, <1>5, <1>6 DEF BuilderType
<1>8. /\ y.state_stack = ss2
      /\ y.container_stack = cs2
      /\ y.key = x.key
      /\ y.llsd = x.llsd
      /\ y.heap = heap
  <2> HIDE DEF cs2, ss2
  <2> QED BY <1>1 DEF BuilderType
<1> HIDE DEF cs2, ss2, y, heap, n
<1>9. Frames(ss2, cs2, heap)
  <2>1. Len(ss2) = Len(cs2) + 1 /\ ss2[1] = "TOP_LEVEL"
    <3>1. ss[1] = "TOP_LEVEL" /\ 1 \in 1 .. n + 1
      BY <1>2, <1>4 DEF Frames
    <3> QED BY <1>4, <1>5, <1>6, <3>1
  <2>2. ASSUME NEW i \in 1 .. Len(cs2)
        PROVE  cs2[i] \in 1 .. Len(heap) /\ Suits(heap[cs2[i]].kind, ss2[i + 1])
    <3>1. CASE i = n + 1
      <4>1. cs2[i] = v /\ ss2[i + 1] = first
        BY <1>4, <1>5, <1>6, <3>1
      <4> QED BY <1>4, <4>1 DEF heap
    <3>2. CASE i \in 1 .. n
      <4>0. i + 1 \in 1 .. n + 1
        BY <1>4, <3>2
      <4>1. cs2[i] = cs[i] /\ ss2[i + 1] = ss[i + 1]
        BY <1>5, <1>6, <3>2, <4>0
      <4> QED BY <1>2, <3>2, <4>1 DEF Frames, n
    <3> QED BY <1>4, <1>5, <3>1, <3>2
  <2> QED BY <2>1, <2>2 DEF Frames
<1>10. Path(ss2, cs2, x.llsd, heap)
  <2>1. cs2[1] = x.llsd
    <3>1. CASE n = 0
      BY <1>3, <1>5, <3>1
    <3>2. CASE n > 0
      <4>1. cs[1] = x.llsd
        BY <1>2, <3>2 DEF Path, n
      <4> QED BY <1>4, <1>5, <3>2, <4>1
    <3> QED BY <1>4, <3>1, <3>2
  <2>2. ASSUME NEW i \in 1 .. Len(cs2) - 1
        PROVE  /\ ss2[i + 1] \in {"ARRAY_VALUE", "MAP_VALUE"}
               /\ Len(heap[cs2[i]].kids) > 0
               /\ heap[cs2[i]].kids[Len(heap[cs2[i]].kids)] = cs2[i + 1]
    <3>0. i \in 1 .. n /\ i + 1 \in 1 .. n + 1
      BY <1>4, <1>5
    <3>1. i \in 1 .. n /\ cs2[i] = cs[i] /\ ss2[i + 1] = ss[i + 1]
      BY <1>5, <1>6, <3>0
    <3>2. CASE i = n
      <4>1. cs2[i + 1] = v /\ n > 0 /\ i + 1 = Len(ss)
        BY <1>1, <1>4, <1>5, <3>1, <3>2 DEF n
      <4> QED BY <1>3, <3>1, <3>2, <4>1
    <3>3. CASE i < n
      <4>0. i \in 1 .. n - 1 /\ i + 1 \in 1 .. n
        BY <1>4, <3>1, <3>3
      <4>1. i \in 1 .. Len(cs) - 1 /\ cs2[i + 1] = cs[i + 1]
        BY <1>5, <4>0 DEF n
      <4> QED BY <1>2, <3>1, <4>1 DEF Path
    <3> QED BY <1>4, <3>1, <3>2, <3>3
  <2>3. ASSUME NEW i \in 1 .. Len(cs2), NEW j \in 1 .. Len(cs2), i < j
        PROVE  cs2[i] < cs2[j]
    <3>1. i \in 1 .. n /\ cs2[i] = cs[i]
      BY SMTT(30), <1>4, <1>5, <2>3
    <3>2. CASE j = n + 1
      <4>1. cs[i] \in 1 .. Len(heap) /\ cs[i] # v
        BY <1>2, <1>3, <3>1 DEF Frames, n
      <4>2. cs[i] < v
        BY <1>3, <1>4, <4>1
      <4> QED BY <1>5, <3>1, <3>2, <4>2
    <3>3. CASE j \in 1 .. n
      <4>1. cs2[j] = cs[j]
        BY <1>5, <3>3
      <4> QED BY <1>2, <2>3, <3>1, <3>3, <4>1 DEF Path, n
    <3> QED BY <1>4, <1>5, <3>2, <3>3
  <2> QED BY <2>1, <2>2, <2>3 DEF Path
<1>11. Keyed(ss2, x.key, heap)
  BY <1>2, <1>6 DEF Keyed
<1>12. Live(cs2, x.llsd, heap)
  <2>1. ASSUME NEW i \in 1 .. Len(cs2) PROVE heap[cs2[i]].freed = 0
    <3>1. CASE i = n + 1
      BY <1>3, <1>5, <3>1
    <3>2. CASE i \in 1 .. n
      <4>1. cs2[i] = cs[i]
        BY <1>5, <3>2
      <4> QED BY <1>2, <3>2, <4>1 DEF Live, n
    <3> QED BY <1>4, <1>5, <3>1, <3>2
  <2> QED BY <1>2, <2>1 DEF Live
<1>13. Ind(V, y)
  BY <1>7, <1>8, <1>9, <1>10, <1>11, <1>12 DEF Ind
<1> QED BY <1>13 DEF y, cs2, ss2, cs, ss

(* Luck that says of no push that it was lost. *)
LEMMA LuckGrows ==
  ASSUME NEW luck \in Luck
  PROVE  /\ luck \notin {"no_container", "no_stacks"}
         /\ luck \notin {"no_state", "no_stacks"}
         /\ luck \notin {"no_frame", "no_stacks"}
         /\ luck \notin {"no_count", "no_stacks"}
  BY DEF Luck

(* A container that was delivered is opened on both stacks when they grow. *)
LEMMA OpensWhenStacksGrow ==
  ASSUME NEW x, NEW kind, NEW first, NEW luck \in Luck,
         NEW d, d = Deliver(x, kind, "none", VALUE_STATES, luck)
  PROVE  OpenContainer(x, kind, first, luck) =
           IF d.ok THEN [ok |-> TRUE,
                         b |-> [d.b EXCEPT !.container_stack = Push(@, Len(d.b.heap)),
                                           !.state_stack     = Push(@, first)]]
           ELSE d
  BY LuckGrows DEF OpenContainer, PushUnlessLost, Succeeds

(* llsd_array_begin_fn and llsd_map_begin_fn keep the invariant. *)
LEMMA OpenContainerInd ==
  ASSUME NEW V, NEW x, Ind(V, x), NEW kind \in {"array", "map"}, NEW first \in States,
         Suits(kind, first), first \notin NeedsKey, NEW luck \in Luck
  PROVE  Ind(V, OpenContainer(x, kind, first, luck).b)
<1> DEFINE d == Deliver(x, kind, "none", VALUE_STATES, luck)
           v == Len(d.b.heap)
           r == OpenContainer(x, kind, first, luck)
<1>1. kind \in Kinds /\ VALUE_STATES # STRING_STATES
  BY DEF Kinds, VALUE_STATES, STRING_STATES
<1>2. Offered(V, d, kind, VALUE_STATES)
  BY <1>1, DeliverInd
<1>3. r = IF d.ok THEN [ok |-> TRUE,
                        b |-> [d.b EXCEPT !.container_stack = Push(@, v),
                                          !.state_stack     = Push(@, first)]]
          ELSE d
  BY OpensWhenStacksGrow
<1> HIDE DEF d, r
<1>4. CASE d.ok
  <2>1. Ind(V, d.b) /\ Delivered(d.b, v) /\ d.b.heap[v].kind = kind
    BY <1>2, <1>4 DEF Offered
  <2>2. Ind(V, [d.b EXCEPT !.container_stack = Push(@, v), !.state_stack = Push(@, first)])
    BY <2>1, OpenInd
  <2>3. r.b = [d.b EXCEPT !.container_stack = Push(@, v), !.state_stack = Push(@, first)]
    BY <1>3, <1>4
  <2> QED BY <2>2, <2>3 DEF r
<1>5. CASE ~d.ok
  <2>1. r = d
    BY <1>3, <1>5
  <2> QED BY <1>2, <2>1 DEF Offered, r
<1> QED BY <1>4, <1>5

(* A covered frame becomes the innermost one again. *)
LEMMA CloseInd ==
  ASSUME NEW V, NEW x, Ind(V, x), Len(x.container_stack) > 0
  PROVE  Ind(V, [x EXCEPT !.container_stack = Pop(@), !.state_stack = Pop(@)])
<1> DEFINE cs == x.container_stack
           ss == x.state_stack
           heap == x.heap
           cs2 == Pop(cs)
           ss2 == Pop(ss)
           n  == Len(cs)
           y == [x EXCEPT !.container_stack = cs2, !.state_stack = ss2]
<1>1. /\ x \in BuilderType(V)
      /\ ss \in Seq(States)
      /\ cs \in Seq(Nat)
      /\ x.key \in Nat
      /\ x.llsd \in Nat
      /\ heap \in Seq(Object(V))
      /\ Len(ss) = Len(cs) + 1
  BY IndFields
<1>2. /\ Frames(ss, cs, heap)
      /\ Path(ss, cs, x.llsd, heap)
      /\ Keyed(ss, x.key, heap)
      /\ Live(cs, x.llsd, heap)
  BY DEF Ind
<1>3. n \in Nat /\ n > 0 /\ Len(ss) = n + 1 /\ Len(ss) > 0 /\ Len(ss) - 1 = n
  BY <1>1
<1> HIDE DEF cs, ss
<1>4. /\ cs2 \in Seq(Nat)
      /\ Len(cs2) = n - 1
      /\ \A i \in 1 .. n - 1 : cs2[i] = cs[i]
  <2>1. cs \in Seq(Nat) /\ Len(cs) > 0
    BY <1>1, <1>3
  <2>2. /\ cs2 \in Seq(Nat)
        /\ Len(cs2) = Len(cs) - 1
        /\ \A i \in 1 .. Len(cs) - 1 : cs2[i] = cs[i]
    <3> HIDE DEF n
    <3> QED BY <2>1, PopFacts
  <2> QED BY <2>2
<1>5. /\ ss2 \in Seq(States)
      /\ Len(ss2) = n
      /\ \A i \in 1 .. n : ss2[i] = ss[i]
  <2>1. ss \in Seq(States) /\ Len(ss) > 0
    BY <1>1, <1>3
  <2>2. /\ ss2 \in Seq(States)
        /\ Len(ss2) = Len(ss) - 1
        /\ \A i \in 1 .. Len(ss) - 1 : ss2[i] = ss[i]
    <3> HIDE DEF n
    <3> QED BY <2>1, PopFacts
  <2> QED BY <1>3, <2>2
<1>6. y \in BuilderType(V)
  <2> HIDE DEF cs2, ss2
  <2> QED BY <1>1, <1>4, <1>5 DEF BuilderType
<1>7. /\ y.state_stack = ss2
      /\ y.container_stack = cs2
      /\ y.key = x.key
      /\ y.llsd = x.llsd
      /\ y.heap = heap
  <2> HIDE DEF cs2, ss2
  <2> QED BY <1>1 DEF BuilderType
<1> HIDE DEF cs2, ss2, y, heap, n
<1>8. Frames(ss2, cs2, heap)
  <2>1. Len(ss2) = Len(cs2) + 1 /\ ss2[1] = "TOP_LEVEL"
    <3>1. ss[1] = "TOP_LEVEL" /\ 1 \in 1 .. n
      BY <1>2, <1>3 DEF Frames
    <3> QED BY <1>3, <1>4, <1>5, <3>1
  <2>2. ASSUME NEW i \in 1 .. Len(cs2)
        PROVE  cs2[i] \in 1 .. Len(heap) /\ Suits(heap[cs2[i]].kind, ss2[i + 1])
    <3>1. i \in 1 .. n - 1 /\ i \in 1 .. n /\ i + 1 \in 1 .. n
      BY <1>3, <1>4
    <3>2. cs2[i] = cs[i] /\ ss2[i + 1] = ss[i + 1]
      BY <1>4, <1>5, <3>1
    <3> QED BY <1>2, <3>1, <3>2 DEF Frames, n
  <2> QED BY <2>1, <2>2 DEF Frames
<1>9. Path(ss2, cs2, x.llsd, heap)
  <2>1. Len(cs2) > 0 => cs2[1] = x.llsd
    <3>1. cs[1] = x.llsd
      BY <1>2, <1>3 DEF Path, n
    <3>2. Len(cs2) > 0 => 1 \in 1 .. n - 1
      BY <1>3, <1>4
    <3> QED BY <1>4, <3>1, <3>2
  <2>2. ASSUME NEW i \in 1 .. Len(cs2) - 1
        PROVE  /\ ss2[i + 1] \in {"ARRAY_VALUE", "MAP_VALUE"}
               /\ Len(heap[cs2[i]].kids) > 0
               /\ heap[cs2[i]].kids[Len(heap[cs2[i]].kids)] = cs2[i + 1]
    <3>1. i \in 1 .. n - 1 /\ i + 1 \in 1 .. n - 1 /\ i + 1 \in 1 .. n
      BY <1>3, <1>4
    <3>2. cs2[i] = cs[i] /\ cs2[i + 1] = cs[i + 1] /\ ss2[i + 1] = ss[i + 1]
      BY <1>4, <1>5, <3>1
    <3> QED BY <1>2, <3>1, <3>2 DEF Path, n
  <2>3. ASSUME NEW i \in 1 .. Len(cs2), NEW j \in 1 .. Len(cs2), i < j
        PROVE  cs2[i] < cs2[j]
    <3>1. i \in 1 .. n - 1 /\ j \in 1 .. n - 1 /\ i \in 1 .. n /\ j \in 1 .. n
      BY <1>3, <1>4
    <3>2. cs2[i] = cs[i] /\ cs2[j] = cs[j]
      BY <1>4, <3>1
    <3> QED BY <1>2, <2>3, <3>1, <3>2 DEF Path, n
  <2> QED BY <2>1, <2>2, <2>3 DEF Path
<1>10. Keyed(ss2, x.key, heap)
  <2>1. ss2[n] = ss[n] /\ Len(ss2) = n
    <3>1. n \in 1 .. n
      BY <1>3
    <3> QED BY <1>5, <3>1
  <2>2. CASE n = 1
    BY <1>2, <2>1, <2>2 DEF Keyed, Frames, NeedsKey
  <2>3. CASE n > 1
    <3>1. n - 1 \in 1 .. n - 1 /\ n - 1 + 1 = n
      BY <1>3, <2>3
    <3>2. ss[n] \in {"ARRAY_VALUE", "MAP_VALUE"}
      BY <1>2, <3>1 DEF Path, n
    <3> QED BY <1>2, <2>1, <3>2 DEF Keyed, NeedsKey
  <2> QED BY <1>3, <2>2, <2>3
<1>11. Live(cs2, x.llsd, heap)
  <2>1. ASSUME NEW i \in 1 .. Len(cs2) PROVE heap[cs2[i]].freed = 0
    <3>1. i \in 1 .. n - 1 /\ i \in 1 .. n
      BY <1>3, <1>4
    <3>2. cs2[i] = cs[i]
      BY <1>4, <3>1
    <3> QED BY <1>2, <3>1, <3>2 DEF Live, n
  <2> QED BY <1>2, <2>1 DEF Live
<1>12. Ind(V, y)
  BY <1>6, <1>7, <1>8, <1>9, <1>10, <1>11 DEF Ind
<1> QED BY <1>12 DEF y, cs2, ss2, cs, ss

(* llsd_array_end_fn and llsd_map_end_fn keep the invariant. *)
LEMMA CloseContainerInd ==
  ASSUME NEW V, NEW x, Ind(V, x), NEW valid_states, "TOP_LEVEL" \notin valid_states
  PROVE  Ind(V, CloseContainer(x, valid_states).b)
<1>1. CASE Top(x.state_stack) \in valid_states
  <2>1. Len(x.container_stack) > 0
    <3>1. Len(x.container_stack) \in Nat /\ Len(x.container_stack) # 0
      BY <1>1, IndFields
    <3> QED BY <3>1
  <2>2. CloseContainer(x, valid_states).b =
          [x EXCEPT !.container_stack = Pop(@), !.state_stack = Pop(@)]
    BY <1>1 DEF CloseContainer, Succeeds
  <2>3. Ind(V, [x EXCEPT !.container_stack = Pop(@), !.state_stack = Pop(@)])
    BY <2>1, CloseInd
  <2> QED BY <2>2, <2>3
<1>2. CASE Top(x.state_stack) \notin valid_states
  BY <1>2 DEF CloseContainer, Fails
<1> QED BY <1>1, <1>2

(* The callbacks that only move the innermost frame keep the invariant. *)
LEMMA MoveOpInd ==
  ASSUME NEW V, NEW x, Ind(V, x), NEW next \in States, NEW valid_states \in SUBSET States,
         "TOP_LEVEL" \notin valid_states,
         \A state \in valid_states : SameKind(state, next),
         next \in NeedsKey => valid_states \subseteq NeedsKey
  PROVE  Ind(V, Move(x, valid_states, next).b)
<1>1. CASE Top(x.state_stack) \in valid_states
  <2>1. Len(x.container_stack) > 0
    <3>1. Len(x.container_stack) \in Nat /\ Len(x.container_stack) # 0
      BY <1>1, IndFields
    <3> QED BY <3>1
  <2>2. Move(x, valid_states, next).b = SetTop(x, next)
    BY <1>1 DEF Move, Succeeds, SetTop
  <2>3. /\ SameKind(Top(x.state_stack), next)
        /\ next \in NeedsKey => Top(x.state_stack) \in NeedsKey
    BY <1>1
  <2> QED BY <2>1, <2>2, <2>3, MoveInd
<1>2. CASE Top(x.state_stack) \notin valid_states
  BY <1>2 DEF Move, Fails
<1> QED BY <1>1, <1>2

-----------------------------------------------------------------------------
(* list_delete only writes to the heap and empties the stacks. *)
LEMMA DeleteStacksFacts ==
  ASSUME NEW V, NEW x \in BuilderType(V)
  PROVE  /\ delete_stacks(x) \in BuilderType(V)
         /\ delete_stacks(x).container_stack = << >>
         /\ delete_stacks(x).llsd = x.llsd
         /\ Len(delete_stacks(x).heap) = Len(x.heap)
         /\ \A o \in 1 .. Len(x.heap) :
              /\ delete_stacks(x).heap[o].kids = x.heap[o].kids
              /\ delete_stacks(x).heap[o].freed = x.heap[o].freed + deletions(x, o)
              /\ x.container_stack = << >> =>
                   delete_stacks(x).heap[o].freed = x.heap[o].freed
<1> DEFINE obj(o) == [x.heap[o] EXCEPT !.freed = @ + deletions(x, o)]
           h == [o \in DOMAIN x.heap |-> obj(o)]
           y == delete_stacks(x)
<1>1. /\ x.heap \in Seq(Object(V))
      /\ x.container_stack \in Seq(Nat)
      /\ DOMAIN x.heap = 1 .. Len(x.heap)
      /\ DOMAIN x.container_stack = 1 .. Len(x.container_stack)
  BY BuilderFields
<1>2. ASSUME NEW o \in 1 .. Len(x.heap)
      PROVE  /\ obj(o) \in Object(V)
             /\ obj(o).kids = x.heap[o].kids
             /\ obj(o).freed = x.heap[o].freed + deletions(x, o)
             /\ x.container_stack = << >> => obj(o).freed = x.heap[o].freed
  <2> DEFINE d == {i \in DOMAIN x.container_stack :
                     o \in Reached(x)[x.container_stack[i]]}
  <2>0. deletions(x, o) = Cardinality(d)
    BY DEF deletions
  <2>1. d \subseteq 1 .. Len(x.container_stack)
    BY <1>1
  <2>2. Len(x.container_stack) \in Int
    BY <1>1
  <2>3. IsFiniteSet(1 .. Len(x.container_stack))
    BY <2>2, FS_Interval
  <2> HIDE DEF d
  <2>4. IsFiniteSet(d)
    BY <2>1, <2>3, FS_Subset
  <2>5. Cardinality(d) \in Nat
    BY <2>4, FS_CardinalityType
  <2>6. x.container_stack = << >> => Cardinality(d) = 0
    <3>1. x.container_stack = << >> => d = {}
      BY <2>1
    <3> QED BY <3>1, FS_EmptySet
  <2>7. PICK n \in Nat : n = Cardinality(d)
    BY <2>5
  <2>8. obj(o) = [x.heap[o] EXCEPT !.freed = @ + n]
    BY <2>0, <2>7
  <2>9. x.heap[o] \in Object(V) /\ x.heap[o].freed \in Nat
    BY <1>1, ObjectFields
  <2> HIDE DEF obj
  <2>10. /\ obj(o) \in Object(V)
         /\ obj(o).kids = x.heap[o].kids
         /\ obj(o).freed = x.heap[o].freed + n
    BY SMTT(30), <2>8, <2>9 DEF Object
  <2> QED BY <2>0, <2>6, <2>7, <2>9, <2>10
<1>3. y = [x EXCEPT !.heap = h, !.container_stack = << >>, !.state_stack = << >>]
  BY DEF delete_stacks
<1> HIDE DEF obj
<1>4. h \in Seq(Object(V)) /\ Len(h) = Len(x.heap)
  BY <1>1, <1>2
<1>5. \A o \in 1 .. Len(x.heap) : h[o] = obj(o)
  BY <1>1
<1> HIDE DEF h, y
<1>6. y \in BuilderType(V)
  <2>1. << >> \in Seq(Nat) /\ << >> \in Seq(States)
    OBVIOUS
  <2> QED BY <1>3, <1>4, <2>1 DEF BuilderType
<1>7. y.container_stack = << >> /\ y.llsd = x.llsd /\ y.heap = h
  BY <1>3 DEF BuilderType
<1> QED BY <1>2, <1>4, <1>5, <1>6, <1>7 DEF y

(* The scalar callbacks and llsd_string_fn keep the invariant. *)
LEMMA ValuesKeepInd ==
  ASSUME NEW V, NEW x, Ind(V, x), NEW luck \in Luck, NEW val \in V
  PROVE  /\ Ind(V, scalar_fn(x, val, luck).b)
         /\ Ind(V, llsd_string_fn(x, val, luck).b)
<1>1. Ind(V, scalar_fn(x, val, luck).b)
  <2>1. "scalar" \in Kinds /\ VALUE_STATES # STRING_STATES
    BY DEF Kinds, VALUE_STATES, STRING_STATES
  <2>2. Offered(V, Deliver(x, "scalar", val, VALUE_STATES, luck), "scalar", VALUE_STATES)
    BY <2>1, DeliverInd
  <2> QED BY <2>2 DEF Offered, scalar_fn
<1>2. Ind(V, llsd_string_fn(x, val, luck).b)
  <2>1. "string" \in Kinds
    BY DEF Kinds
  <2>2. Offered(V, Deliver(x, "string", val, STRING_STATES, luck), "string", STRING_STATES)
    BY <2>1, DeliverInd
  <2> QED BY <2>2 DEF Offered, llsd_string_fn
<1> QED BY <1>1, <1>2

(* The callbacks that open a container keep the invariant. *)
LEMMA OpeningsKeepInd ==
  ASSUME NEW V, NEW x, Ind(V, x), NEW luck \in Luck
  PROVE  /\ Ind(V, llsd_array_begin_fn(x, luck).b)
         /\ Ind(V, llsd_map_begin_fn(x, luck).b)
<1>3. Ind(V, llsd_array_begin_fn(x, luck).b)
  <2>1. "ARRAY_BEGIN" \in States /\ Suits("array", "ARRAY_BEGIN") /\ "ARRAY_BEGIN" \notin NeedsKey
    BY DEF States, ArrayStates, Suits, NeedsKey
  <2> QED BY <2>1, OpenContainerInd DEF llsd_array_begin_fn
<1>4. Ind(V, llsd_map_begin_fn(x, luck).b)
  <2>1. "MAP_BEGIN" \in States /\ Suits("map", "MAP_BEGIN") /\ "MAP_BEGIN" \notin NeedsKey
    BY DEF States, MapStates, Suits, NeedsKey
  <2> QED BY <2>1, OpenContainerInd DEF llsd_map_begin_fn
<1> QED BY <1>3, <1>4

(* The other callbacks keep the invariant. *)
LEMMA MovesKeepInd ==
  ASSUME NEW V, NEW x, Ind(V, x)
  PROVE  /\ Ind(V, llsd_array_value_begin_fn(x).b)
         /\ Ind(V, llsd_array_value_end_fn(x).b)
         /\ Ind(V, llsd_map_key_begin_fn(x).b)
         /\ Ind(V, llsd_map_key_end_fn(x).b)
         /\ Ind(V, llsd_map_value_begin_fn(x).b)
         /\ Ind(V, llsd_map_value_end_fn(x).b)
         /\ Ind(V, llsd_array_end_fn(x).b)
         /\ Ind(V, llsd_map_end_fn(x).b)
<1> USE DEF States, ArrayStates, MapStates, NeedsKey, SameKind, Suits
<1>1. Ind(V, llsd_array_value_begin_fn(x).b)
  BY MoveOpInd DEF llsd_array_value_begin_fn
<1>2. Ind(V, llsd_array_value_end_fn(x).b)
  BY MoveOpInd DEF llsd_array_value_end_fn
<1>3. Ind(V, llsd_map_key_begin_fn(x).b)
  BY MoveOpInd DEF llsd_map_key_begin_fn
<1>4. Ind(V, llsd_map_key_end_fn(x).b)
  BY MoveOpInd DEF llsd_map_key_end_fn
<1>5. Ind(V, llsd_map_value_begin_fn(x).b)
  BY MoveOpInd DEF llsd_map_value_begin_fn
<1>6. Ind(V, llsd_map_value_end_fn(x).b)
  BY MoveOpInd DEF llsd_map_value_end_fn
<1>7. Ind(V, llsd_array_end_fn(x).b)
  BY CloseContainerInd DEF llsd_array_end_fn
<1>8. Ind(V, llsd_map_end_fn(x).b)
  BY CloseContainerInd DEF llsd_map_end_fn
<1> QED BY <1>1, <1>2, <1>3, <1>4, <1>5, <1>6, <1>7, <1>8

-----------------------------------------------------------------------------
(* An object that has just been created. *)
New(kind, val) == [kind |-> kind, val |-> val, kids |-> << >>, freed |-> 0]

(* y is x after a value callback that failed: a frame may have moved, and an
   object have been created and released, but nothing holds it. *)
Refused(x, y) ==
  /\ y.container_stack = x.container_stack
  /\ y.key = x.key
  /\ y.llsd = x.llsd
  /\ \/ y.state_stack = x.state_stack
     \/ /\ Top(x.state_stack) \in {"ARRAY_VALUE_BEGIN", "MAP_VALUE_BEGIN"}
        /\ y.state_stack = Replace(x.state_stack, ValueOf[Top(x.state_stack)])
  /\ Len(y.heap) \in {Len(x.heap), Len(x.heap) + 1}
  /\ \A o \in 1 .. Len(x.heap) : y.heap[o] = x.heap[o]
  /\ \A o \in Len(x.heap) + 1 .. Len(y.heap) :
       y.heap[o].kids = << >> /\ y.heap[o].freed = 1

(* y is x with the new value v at the top, as the pending key, at the end of
   the innermost array, or in the innermost map under the pending key. *)
AtTop(x, y, v) ==
  /\ Top(x.state_stack) = "TOP_LEVEL"
  /\ y.state_stack = x.state_stack
  /\ y.key = x.key
  /\ y.llsd = v
AsKey(x, y, v) ==
  /\ Top(x.state_stack) = "MAP_KEY_BEGIN"
  /\ y.state_stack = Replace(x.state_stack, "MAP_KEY")
  /\ y.key = v
  /\ y.llsd = x.llsd
InArray(x, y) ==
  /\ Top(x.state_stack) = "ARRAY_VALUE_BEGIN"
  /\ y.state_stack = Replace(x.state_stack, "ARRAY_VALUE")
  /\ y.key = x.key
  /\ y.llsd = x.llsd
InMap(x, y) ==
  /\ Top(x.state_stack) = "MAP_VALUE_BEGIN"
  /\ y.state_stack = Replace(x.state_stack, "MAP_VALUE")
  /\ y.key = 0
  /\ y.llsd = x.llsd

(* What the innermost container is given in each case. *)
Given(x, v) ==
  CASE Top(x.state_stack) = "ARRAY_VALUE_BEGIN" -> <<v>>
    [] Top(x.state_stack) = "MAP_VALUE_BEGIN" -> <<x.key, v>>
    [] OTHER -> << >>

(* y is x after a value callback that succeeded. *)
Taken(x, y, kind, val) ==
  LET v == Len(x.heap) + 1
      c == TopObj(x.container_stack)
  IN  /\ y.container_stack = x.container_stack
      /\ AtTop(x, y, v) \/ AsKey(x, y, v) \/ InArray(x, y) \/ InMap(x, y)
      /\ Len(y.heap) = v
      /\ y.heap[v] = New(kind, val)
      /\ \A o \in 1 .. Len(x.heap) :
           /\ o # c => y.heap[o] = x.heap[o]
           /\ o = c => y.heap[o] = [x.heap[o] EXCEPT !.kids = @ \o Given(x, v)]

(* The fields of a builder after one of them has been set. *)
LEMMA SetFields ==
  ASSUME NEW V, NEW x \in BuilderType(V)
  PROVE  /\ \A h : LET y == [x EXCEPT !.heap = h]
                   IN  /\ y.heap = h /\ y.state_stack = x.state_stack
                       /\ y.container_stack = x.container_stack
                       /\ y.key = x.key /\ y.llsd = x.llsd
         /\ \A k : LET y == [x EXCEPT !.key = k]
                   IN  /\ y.heap = x.heap /\ y.state_stack = x.state_stack
                       /\ y.container_stack = x.container_stack
                       /\ y.key = k /\ y.llsd = x.llsd
         /\ \A l : LET y == [x EXCEPT !.llsd = l]
                   IN  /\ y.heap = x.heap /\ y.state_stack = x.state_stack
                       /\ y.container_stack = x.container_stack
                       /\ y.key = x.key /\ y.llsd = l
         /\ \A t : LET y == [x EXCEPT !.state_stack = t]
                   IN  /\ y.heap = x.heap /\ y.state_stack = t
                       /\ y.container_stack = x.container_stack
                       /\ y.key = x.key /\ y.llsd = x.llsd
         /\ \A c, t : LET y == [x EXCEPT !.container_stack = c, !.state_stack = t]
                      IN  /\ y.heap = x.heap /\ y.state_stack = t
                          /\ y.container_stack = c
                          /\ y.key = x.key /\ y.llsd = x.llsd
  BY DEF BuilderType

(* llsd_new_* adds one object and changes nothing else. *)
LEMMA CreateFacts ==
  ASSUME NEW V, NEW x \in BuilderType(V), NEW kind \in Kinds,
         NEW val \in V \union {"none"}, NEW z, z = Create(x, kind, val)
  PROVE  /\ z \in BuilderType(V)
         /\ z.state_stack = x.state_stack
         /\ z.container_stack = x.container_stack
         /\ z.key = x.key
         /\ z.llsd = x.llsd
         /\ Len(z.heap) = Len(x.heap) + 1
         /\ z.heap[Len(x.heap) + 1] = New(kind, val)
         /\ \A o \in 1 .. Len(x.heap) : z.heap[o] = x.heap[o]
<1> DEFINE h == Append(x.heap, New(kind, val))
<1>1. New(kind, val) \in Object(V)
  BY DEF Object, New
<1>2. x.heap \in Seq(Object(V))
  BY BuilderFields
<1>3. /\ h \in Seq(Object(V))
      /\ Len(h) = Len(x.heap) + 1
      /\ h[Len(x.heap) + 1] = New(kind, val)
      /\ \A o \in 1 .. Len(x.heap) : h[o] = x.heap[o]
  BY <1>1, <1>2
<1>4. z = [x EXCEPT !.heap = h]
  BY DEF Create, New
<1> HIDE DEF h
<1> QED BY <1>3, <1>4, SetFields, BuilderFields

(* What a value callback does, in full.  v is the new object's address. *)
LEMMA DeliverShape ==
  ASSUME NEW V, NEW x, Ind(V, x), NEW kind \in Kinds, NEW val \in V \union {"none"},
         NEW valid_states \in {VALUE_STATES, STRING_STATES},
         valid_states = STRING_STATES => kind = "string",
         NEW luck \in Luck, NEW r, r = Deliver(x, kind, val, valid_states, luck)
  PROVE  /\ r.ok \in BOOLEAN
         /\ ~r.ok => Refused(x, r.b)
         /\ r.ok => Top(x.state_stack) \in valid_states /\ Taken(x, r.b, kind, val)
<1> DEFINE v == Len(x.heap) + 1
           z == Create(x, kind, val)
           u == update_state(valid_states, z, v, luck)
           state == Top(x.state_stack)
           c == TopObj(x.container_stack)
<1>1. /\ x \in BuilderType(V)
      /\ x.state_stack \in Seq(States)
      /\ x.container_stack \in Seq(Nat)
      /\ x.key \in Nat
      /\ x.llsd \in Nat
      /\ x.heap \in Seq(Object(V))
      /\ Len(x.state_stack) = Len(x.container_stack) + 1
      /\ state \in States
      /\ Len(x.container_stack) = 0 => state = "TOP_LEVEL"
      /\ Len(x.container_stack) > 0 =>
           c \in 1 .. Len(x.heap) /\ Suits(x.heap[c].kind, state)
  BY IndFields
<1>2. Len(x.heap) \in Nat /\ Len(x.container_stack) \in Nat /\ Len(x.state_stack) > 0
  BY <1>1
<1>3. /\ z \in BuilderType(V)
      /\ z.state_stack = x.state_stack
      /\ z.container_stack = x.container_stack
      /\ z.key = x.key
      /\ z.llsd = x.llsd
      /\ Len(z.heap) = v
      /\ z.heap[v] = New(kind, val)
      /\ \A o \in 1 .. Len(x.heap) : z.heap[o] = x.heap[o]
  BY <1>1, CreateFacts
<1>4. r = IF luck = "no_memory" THEN [ok |-> FALSE, b |-> x]
          ELSE IF u.ok THEN u ELSE [ok |-> FALSE, b |-> Delete(u.b, v)]
  BY DEF Deliver, Fails
<1> HIDE DEF z
(* update_state, where the frame does not move or moves to MAP_KEY. *)
<1>5. ASSUME state \notin valid_states PROVE u.ok = FALSE /\ u.b = z
  BY <1>3, <1>5 DEF update_state, Fails
<1>6. ASSUME state \in valid_states, state = "TOP_LEVEL"
      PROVE  u.ok = TRUE /\ Taken(x, u.b, kind, val)
  <2> DEFINE y == [z EXCEPT !.llsd = v]
  <2>1. u = [ok |-> TRUE, b |-> y]
    BY <1>3, <1>6 DEF update_state, Succeeds
  <2>2. /\ y.heap = z.heap /\ y.state_stack = x.state_stack
        /\ y.container_stack = x.container_stack
        /\ y.key = x.key /\ y.llsd = v
    BY <1>3, SetFields
  <2>3. Len(x.container_stack) = 0
    BY <1>1, <1>2, <1>6 DEF Suits, ArrayStates, MapStates
  <2>4. c = 0
    BY <1>1, <2>3 DEF TopObj
  <2> HIDE DEF y, u, state, c
  <2>5. AtTop(x, y, v)
    BY <1>6, <2>2 DEF AtTop, state
  <2>6. ASSUME NEW o \in 1 .. Len(x.heap)
        PROVE  y.heap[o] = x.heap[o] /\ o # c
    BY <1>3, <2>2, <2>4
  <2>7. Len(y.heap) = v /\ y.heap[v] = New(kind, val)
    BY <1>3, <2>2
  <2> QED BY <2>1, <2>2, <2>5, <2>6, <2>7 DEF Taken, c
<1>7. ASSUME state \in valid_states, state = "MAP_KEY_BEGIN"
      PROVE  u.ok = TRUE /\ Taken(x, u.b, kind, val)
  <2> DEFINE m == [z EXCEPT !.state_stack = Replace(@, "MAP_KEY")]
             y == [m EXCEPT !.key = v]
  <2>1. u = [ok |-> TRUE, b |-> y]
    BY <1>3, <1>7 DEF update_state, Succeeds, ValueOf
  <2>2. Moved(V, z, m, "MAP_KEY")
    BY <1>2, <1>3, MovedFacts DEF States, MapStates
  <2>3. m \in BuilderType(V) /\ m.heap = z.heap /\ m.llsd = x.llsd
        /\ m.state_stack = Replace(x.state_stack, "MAP_KEY")
        /\ m.container_stack = x.container_stack
    BY <1>3, <2>2 DEF Moved
  <2> HIDE DEF m
  <2>4. /\ y.heap = z.heap /\ y.state_stack = Replace(x.state_stack, "MAP_KEY")
        /\ y.container_stack = x.container_stack
        /\ y.key = v /\ y.llsd = x.llsd
    BY <2>3, SetFields
  <2> HIDE DEF y, u, state, c
  <2>5. AsKey(x, y, v)
    BY <1>7, <2>4 DEF AsKey, state
  <2>6. ASSUME NEW o \in 1 .. Len(x.heap)
        PROVE  y.heap[o] = [x.heap[o] EXCEPT !.kids = @ \o Given(x, v)]
    <3>1. Given(x, v) = << >>
      BY <1>7 DEF Given, state
    <3>2. x.heap[o] \in Object(V) /\ x.heap[o].kids \in Seq(Nat)
      BY <1>1, ObjectFields
    <3>3. x.heap[o].kids \o << >> = x.heap[o].kids
      BY <3>2
    <3>4. [x.heap[o] EXCEPT !.kids = @] = x.heap[o]
      BY <3>2 DEF Object
    <3> QED BY <1>3, <2>4, <3>1, <3>3, <3>4
  <2> QED BY <1>3, <2>1, <2>4, <2>5, <2>6 DEF Taken
(* update_state, where the innermost container is asked to take the value. *)
<1>8. ASSUME state \in valid_states, state \in {"ARRAY_VALUE_BEGIN", "MAP_VALUE_BEGIN"}
      PROVE  \/ u.ok = TRUE /\ Taken(x, u.b, kind, val)
             \/ /\ u.ok = FALSE
                /\ u.b = [z EXCEPT !.state_stack = Replace(@, ValueOf[state])]
  <2> DEFINE m == [z EXCEPT !.state_stack = Replace(@, ValueOf[state])]
             added == add_to_container(m, TopObj(m.container_stack), m.key, v, luck)
             held == IF x.heap[c].kind = "map" THEN <<x.key, v>> ELSE <<v>>
             h == Hold(m, c, held)
  <2>1. Len(x.container_stack) > 0 /\ c \in 1 .. Len(x.heap) /\ c # v
    BY <1>1, <1>2, <1>8
  <2>2. x.heap[c].kind = "map" <=> state = "MAP_VALUE_BEGIN"
    BY <1>1, <1>8, <2>1 DEF Suits, ArrayStates, MapStates
  <2>3. ValueOf[state] \in States
    BY <1>8 DEF ValueOf, States, ArrayStates, MapStates
  <2>4. Moved(V, z, m, ValueOf[state]) /\ m.key = z.key
    BY <1>2, <1>3, <2>3, MovedFacts
  <2>5. /\ m \in BuilderType(V) /\ m.heap = z.heap /\ m.llsd = x.llsd
        /\ m.key = x.key
        /\ m.state_stack = Replace(x.state_stack, ValueOf[state])
        /\ m.container_stack = x.container_stack
    BY <1>3, <2>4 DEF Moved
  <2>6. u = IF state = "MAP_VALUE_BEGIN" /\ added.ok
            THEN [ok |-> TRUE, b |-> [added.b EXCEPT !.key = 0]] ELSE added
    <3>1. added = add_to_container(m, TopObj(z.container_stack), z.key, v, luck)
      BY <1>3, <2>5
    <3>2. CASE state = "ARRAY_VALUE_BEGIN"
      BY <1>3, <1>8, <3>1, <3>2 DEF update_state, Succeeds
    <3>3. CASE state = "MAP_VALUE_BEGIN"
      BY <1>3, <1>8, <3>1, <3>3 DEF update_state, Succeeds
    <3> QED BY <1>8, <3>2, <3>3
  <2> HIDE DEF m, u
  <2>7. m.heap[c].kind = x.heap[c].kind /\ TopObj(m.container_stack) = c
    BY <1>3, <2>1, <2>5
  <2>8. added = IF Takes(m, c, x.key, luck) THEN [ok |-> TRUE, b |-> h]
                ELSE [ok |-> FALSE, b |-> m]
    BY <2>5, <2>7 DEF add_to_container, Succeeds, Fails, Hold
  <2>9. held \in Seq(Nat) /\ c \in 1 .. Len(m.heap)
    <3>1. <<x.key, v>> \in Seq(Nat) /\ <<v>> \in Seq(Nat)
      BY <1>1, <1>2
    <3>2. c \in 1 .. Len(m.heap)
      BY <1>2, <1>3, <2>1, <2>5
    <3> QED BY <3>1, <3>2
  <2>10. held = Given(x, v)
    BY <1>8, <2>2 DEF Given
  <2> HIDE DEF added, held, state
  <2>11. /\ h \in BuilderType(V)
         /\ Len(h.heap) = v
         /\ h.heap[c] = [x.heap[c] EXCEPT !.kids = @ \o Given(x, v)]
         /\ \A o \in 1 .. Len(x.heap) : o # c => h.heap[o] = x.heap[o]
         /\ h.heap[v] = New(kind, val)
         /\ h.state_stack = m.state_stack
         /\ h.container_stack = x.container_stack
         /\ h.key = x.key
         /\ h.llsd = x.llsd
    <3>4. Holding(V, m, h, c, held)
      BY <2>5, <2>9, HoldFacts
    <3> HIDE DEF c, h
    <3>1. /\ h \in BuilderType(V)
          /\ Len(h.heap) = Len(m.heap)
          /\ h.heap[c] = [m.heap[c] EXCEPT !.kids = @ \o held]
          /\ \A o \in 1 .. Len(m.heap) : o # c => h.heap[o] = m.heap[o]
          /\ h.state_stack = m.state_stack
          /\ h.container_stack = m.container_stack
          /\ h.key = m.key
          /\ h.llsd = m.llsd
      BY <3>4 DEF Holding
    <3>2. m.heap[c] = x.heap[c]
      BY <1>3, <2>1, <2>5
    <3>3. v \in 1 .. Len(m.heap) /\ \A o \in 1 .. Len(x.heap) : o \in 1 .. Len(m.heap)
      BY <1>2, <1>3, <2>5
    <3> QED BY <1>3, <2>1, <2>5, <2>10, <3>1, <3>2, <3>3
  <2> HIDE DEF h
  <2>12. CASE ~Takes(m, c, x.key, luck)
    <3>1. added.ok = FALSE /\ added.b = m
      BY <2>8, <2>12
    <3> QED BY <2>6, <3>1 DEF m
  <2>13. CASE Takes(m, c, x.key, luck) /\ state = "ARRAY_VALUE_BEGIN"
    <3>1. u.ok = TRUE /\ u.b = h
      BY <2>6, <2>8, <2>13
    <3>2. InArray(x, h)
      BY <2>5, <2>11, <2>13 DEF InArray, ValueOf, state
    <3> QED BY <2>11, <3>1, <3>2 DEF Taken
  <2>14. CASE Takes(m, c, x.key, luck) /\ state = "MAP_VALUE_BEGIN"
    <3> DEFINE y == [h EXCEPT !.key = 0]
    <3>1. u.ok = TRUE /\ u.b = y
      BY <2>6, <2>8, <2>14
    <3>2. /\ y.heap = h.heap /\ y.state_stack = h.state_stack
          /\ y.container_stack = h.container_stack
          /\ y.key = 0 /\ y.llsd = h.llsd
      BY <2>11, SetFields
    <3> HIDE DEF y
    <3>3. InMap(x, y)
      BY <2>5, <2>11, <2>14, <3>2 DEF InMap, ValueOf, state
    <3> QED BY ZenonT(60), <2>11, <3>1, <3>2, <3>3 DEF Taken
  <2> QED BY <1>8, <2>12, <2>13, <2>14 DEF state
(* Deliver: what was not taken is deleted. *)
<1>9. valid_states \subseteq {"TOP_LEVEL", "MAP_KEY_BEGIN", "ARRAY_VALUE_BEGIN",
                              "MAP_VALUE_BEGIN"}
  BY DEF VALUE_STATES, STRING_STATES
<1>10. \/ u.ok = TRUE /\ state \in valid_states /\ Taken(x, u.b, kind, val)
       \/ u.ok = FALSE /\ u.b = z
       \/ /\ u.ok = FALSE
          /\ state \in {"ARRAY_VALUE_BEGIN", "MAP_VALUE_BEGIN"}
          /\ u.b = [z EXCEPT !.state_stack = Replace(@, ValueOf[state])]
  <2> HIDE DEF u, state
  <2> QED BY <1>5, <1>6, <1>7, <1>8, <1>9
<1> HIDE DEF u
<1>11. CASE luck = "no_memory"
  <2>1. r.ok = FALSE /\ r.b = x
    BY <1>4, <1>11
  <2>2. Refused(x, x)
    BY <1>2 DEF Refused
  <2> QED BY <2>1, <2>2
<1>12. CASE luck # "no_memory" /\ u.ok = TRUE
  <2>1. r = u
    BY <1>4, <1>12
  <2> QED BY <1>10, <1>12, <2>1
<1>13. CASE luck # "no_memory" /\ u.ok = FALSE
  <2>1. r.ok = FALSE /\ r.b = Delete(u.b, v)
    BY <1>4, <1>13
  <2>2. /\ u.b \in BuilderType(V)
        /\ u.b.heap = z.heap
        /\ u.b.key = x.key
        /\ u.b.llsd = x.llsd
        /\ u.b.container_stack = x.container_stack
        /\ \/ u.b.state_stack = x.state_stack
           \/ /\ state \in {"ARRAY_VALUE_BEGIN", "MAP_VALUE_BEGIN"}
              /\ u.b.state_stack = Replace(x.state_stack, ValueOf[state])
    <3>1. CASE u.b = z
      BY <1>3, <3>1
    <3>2. CASE /\ state \in {"ARRAY_VALUE_BEGIN", "MAP_VALUE_BEGIN"}
               /\ u.b = [z EXCEPT !.state_stack = Replace(@, ValueOf[state])]
      <4>1. ValueOf[state] \in States
        BY <3>2 DEF ValueOf, States, ArrayStates, MapStates
      <4>2. Moved(V, z, u.b, ValueOf[state]) /\ u.b.key = z.key
        BY <1>2, <1>3, <3>2, <4>1, MovedFacts
      <4> QED BY <1>3, <3>2, <4>2 DEF Moved
    <3> QED BY <1>10, <1>13, <3>1, <3>2
  <2>3. v \in 1 .. Len(u.b.heap)
    BY <1>2, <1>3, <2>2
  <2>4. u.b.heap[v].kids = << >> /\ u.b.heap[v].freed = 0
    BY <1>3, <2>2 DEF New
  <2>5. /\ r.b.state_stack = u.b.state_stack
        /\ r.b.container_stack = x.container_stack
        /\ r.b.key = x.key
        /\ r.b.llsd = x.llsd
        /\ Len(r.b.heap) = v
        /\ \A o \in 1 .. Len(x.heap) : r.b.heap[o] = x.heap[o]
        /\ r.b.heap[v].kids = << >>
    <3>1. /\ r.b.state_stack = u.b.state_stack
          /\ r.b.container_stack = u.b.container_stack
          /\ r.b.key = u.b.key
          /\ r.b.llsd = u.b.llsd
          /\ Len(r.b.heap) = Len(u.b.heap)
          /\ \A o \in 1 .. Len(u.b.heap) : o # v => r.b.heap[o] = u.b.heap[o]
          /\ r.b.heap[v].kids = u.b.heap[v].kids
      BY SMTT(30), <2>1, <2>2, <2>3, DeleteFacts
    <3>2. \A o \in 1 .. Len(x.heap) : o \in 1 .. Len(u.b.heap) /\ o # v
      BY <1>2, <1>3, <2>2
    <3> QED BY <1>3, <2>2, <2>4, <3>1, <3>2
  <2>6. r.b.heap[v].freed = 1
    <3>1. r.b.heap[v] = [u.b.heap[v] EXCEPT !.freed = @ + 1]
      BY <2>1, <2>2, <2>3 DEF Delete, BuilderType
    <3>2. u.b.heap[v] = New(kind, val)
      BY <1>3, <2>2
    <3> QED BY <3>1, <3>2 DEF New
  <2> HIDE DEF state
  <2>7. \A o \in Len(x.heap) + 1 .. Len(r.b.heap) : o = v
    BY <1>2, <2>5
  <2>8. Refused(x, r.b)
    BY <2>2, <2>5, <2>6, <2>7 DEF Refused, state
  <2> QED BY <2>1, <2>8
<1> QED BY <1>10, <1>11, <1>12, <1>13

(* y is x after a container of that kind has been taken and opened. *)
Opened(V, x, y, kind, first) ==
  \E d : /\ Ind(V, d)
         /\ Taken(x, d, kind, "none")
         /\ Top(x.state_stack) \in VALUE_STATES
         /\ y.heap = d.heap
         /\ y.key = d.key
         /\ y.llsd = d.llsd
         /\ y.container_stack = Push(x.container_stack, Len(x.heap) + 1)
         /\ y.state_stack = Push(d.state_stack, first)

(* What the callbacks that open a container do. *)
LEMMA OpenShape ==
  ASSUME NEW V, NEW x, Ind(V, x), NEW kind \in {"array", "map"}, NEW first,
         NEW luck \in Luck, NEW r, r = OpenContainer(x, kind, first, luck)
  PROVE  /\ r.ok \in BOOLEAN
         /\ ~r.ok => Refused(x, r.b)
         /\ r.ok => Opened(V, x, r.b, kind, first)
<1> DEFINE d == Deliver(x, kind, "none", VALUE_STATES, luck)
           v == Len(d.b.heap)
<1>1. kind \in Kinds /\ VALUE_STATES # STRING_STATES /\ "none" \in V \union {"none"}
  BY DEF Kinds, VALUE_STATES, STRING_STATES
<1>2. /\ d.ok \in BOOLEAN
      /\ ~d.ok => Refused(x, d.b)
      /\ d.ok => Top(x.state_stack) \in VALUE_STATES /\ Taken(x, d.b, kind, "none")
  BY <1>1, DeliverShape
<1>3. Ind(V, d.b)
  BY <1>1, DeliverInd DEF Offered
<1>4. r = IF d.ok THEN [ok |-> TRUE,
                        b |-> [d.b EXCEPT !.container_stack = Push(@, v),
                                          !.state_stack     = Push(@, first)]]
          ELSE d
  BY OpensWhenStacksGrow
<1> HIDE DEF d
<1>5. CASE ~d.ok
  BY <1>2, <1>4, <1>5
<1>6. CASE d.ok
  <2>1. r.ok = TRUE /\ r.b = [d.b EXCEPT !.container_stack = Push(d.b.container_stack, v),
                                         !.state_stack     = Push(d.b.state_stack, first)]
    BY <1>4, <1>6
  <2>2. d.b.container_stack = x.container_stack /\ v = Len(x.heap) + 1
    BY <1>2, <1>6 DEF Taken
  <2>3. d.b \in BuilderType(V)
    BY <1>3 DEF Ind
  <2>4. /\ r.b.heap = d.b.heap
        /\ r.b.key = d.b.key
        /\ r.b.llsd = d.b.llsd
        /\ r.b.container_stack = Push(x.container_stack, v)
        /\ r.b.state_stack = Push(d.b.state_stack, first)
    BY <2>1, <2>2, <2>3, SetFields
  <2>5. Opened(V, x, r.b, kind, first)
    BY <1>2, <1>3, <1>6, <2>2, <2>4 DEF Opened
  <2> QED BY <2>1, <2>5
<1> QED BY <1>2, <1>5, <1>6

(* y is x but for the stacks. *)
SameTree(x, y) == y.heap = x.heap /\ y.key = x.key /\ y.llsd = x.llsd

(* What the callbacks that only move the innermost frame do. *)
LEMMA MoveShape ==
  ASSUME NEW V, NEW x, Ind(V, x), NEW valid_states, NEW next,
         NEW r, r = Move(x, valid_states, next)
  PROVE  /\ r.ok \in BOOLEAN
         /\ r.ok <=> Top(x.state_stack) \in valid_states
         /\ SameTree(x, r.b)
         /\ r.b.container_stack = x.container_stack
         /\ r.b.state_stack = IF r.ok THEN Replace(x.state_stack, next) ELSE x.state_stack
<1>1. x \in BuilderType(V)
  BY DEF Ind
<1>2. CASE Top(x.state_stack) \in valid_states
  <2>1. r.ok = TRUE /\ r.b = [x EXCEPT !.state_stack = Replace(x.state_stack, next)]
    BY <1>2 DEF Move, Succeeds
  <2>2. /\ r.b.heap = x.heap /\ r.b.key = x.key /\ r.b.llsd = x.llsd
        /\ r.b.container_stack = x.container_stack
        /\ r.b.state_stack = Replace(x.state_stack, next)
    BY <1>1, <2>1, SetFields
  <2> QED BY <1>2, <2>1, <2>2 DEF SameTree
<1>3. CASE Top(x.state_stack) \notin valid_states
  <2>1. r.ok = FALSE /\ r.b = x
    BY <1>3 DEF Move, Fails
  <2> QED BY <1>3, <2>1 DEF SameTree
<1> QED BY <1>2, <1>3

(* What the callbacks that close a container do. *)
LEMMA CloseShape ==
  ASSUME NEW V, NEW x, Ind(V, x), NEW valid_states,
         NEW r, r = CloseContainer(x, valid_states)
  PROVE  /\ r.ok \in BOOLEAN
         /\ r.ok <=> Top(x.state_stack) \in valid_states
         /\ SameTree(x, r.b)
         /\ r.b.container_stack = IF r.ok THEN Pop(x.container_stack) ELSE x.container_stack
         /\ r.b.state_stack = IF r.ok THEN Pop(x.state_stack) ELSE x.state_stack
<1>1. x \in BuilderType(V)
  BY DEF Ind
<1>2. CASE Top(x.state_stack) \in valid_states
  <2>1. r.ok = TRUE /\ r.b = [x EXCEPT !.container_stack = Pop(x.container_stack),
                                       !.state_stack = Pop(x.state_stack)]
    BY <1>2 DEF CloseContainer, Succeeds
  <2>2. /\ r.b.heap = x.heap /\ r.b.key = x.key /\ r.b.llsd = x.llsd
        /\ r.b.container_stack = Pop(x.container_stack)
        /\ r.b.state_stack = Pop(x.state_stack)
    BY <1>1, <2>1, SetFields
  <2> QED BY <1>2, <2>1, <2>2 DEF SameTree
<1>3. CASE Top(x.state_stack) \notin valid_states
  <2>1. r.ok = FALSE /\ r.b = x
    BY <1>3 DEF CloseContainer, Fails
  <2> QED BY <1>3, <2>1 DEF SameTree
<1> QED BY <1>2, <1>3

-----------------------------------------------------------------------------
(* A container is older than what it holds, and holds neither the value to
   return nor the pending key. *)
Ordered(x) ==
  \A o \in 1 .. Len(x.heap) : \A i \in 1 .. Len(x.heap[o].kids) :
    /\ x.heap[o].kids[i] > o
    /\ x.heap[o].kids[i] # x.llsd
    /\ x.heap[o].kids[i] # x.key

(* What is held is held at one place. *)
HeldOnce(x) ==
  \A o, p \in 1 .. Len(x.heap) :
    \A i \in 1 .. Len(x.heap[o].kids), j \in 1 .. Len(x.heap[p].kids) :
      x.heap[p].kids[j] = x.heap[o].kids[i] => p = o /\ j = i

(* The pending key is not the value to return, and is younger than the map
   that waits for its value. *)
KeyApart(x) ==
  /\ x.key # 0 => x.key # x.llsd
  /\ x.state_stack[Len(x.state_stack)] \in NeedsKey => x.key > TopObj(x.container_stack)

(* The tree of a builder is a tree. *)
Sole(x) == Ordered(x) /\ HeldOnce(x) /\ KeyApart(x)

(* Ind and Sole speak of a builder whose fields have their types. *)
LEMMA IndParts ==
  ASSUME NEW V, NEW x, Ind(V, x)
  PROVE  /\ x \in BuilderType(V)
         /\ x.heap \in Seq(Object(V))
         /\ x.state_stack \in Seq(States) /\ Len(x.state_stack) > 0
         /\ Len(x.state_stack) = Len(x.container_stack) + 1
         /\ x.container_stack \in Seq(Nat)
         /\ x.key \in Nat /\ x.llsd \in Nat
         /\ Len(x.heap) \in Nat
         /\ x.key <= Len(x.heap) /\ x.llsd <= Len(x.heap)
         /\ \A i \in 1 .. Len(x.container_stack) : x.container_stack[i] \in 1 .. Len(x.heap)
         /\ \A o \in 1 .. Len(x.heap) :
              /\ x.heap[o].kids \in Seq(Nat)
              /\ \A i \in 1 .. Len(x.heap[o].kids) : x.heap[o].kids[i] \in 1 .. Len(x.heap)
<1>1. /\ x \in BuilderType(V)
      /\ Frames(x.state_stack, x.container_stack, x.heap)
      /\ Keyed(x.state_stack, x.key, x.heap)
      /\ Live(x.container_stack, x.llsd, x.heap)
  BY DEF Ind
<1>2. /\ x.heap \in Seq(Object(V))
      /\ x.state_stack \in Seq(States)
      /\ x.container_stack \in Seq(Nat)
      /\ x.key \in Nat /\ x.llsd \in Nat
  BY <1>1, BuilderFields
<1>3. \A o \in 1 .. Len(x.heap) : x.heap[o].kids \in Seq(Nat)
  BY <1>2, ObjectFields
<1>4. /\ Len(x.state_stack) = Len(x.container_stack) + 1
      /\ \A i \in 1 .. Len(x.container_stack) : x.container_stack[i] \in 1 .. Len(x.heap)
  BY <1>1 DEF Frames
<1>5. x.key <= Len(x.heap)
  BY <1>1 DEF Keyed
<1>6. /\ x.llsd # 0 => x.llsd \in 1 .. Len(x.heap)
      /\ \A o \in 1 .. Len(x.heap) : \A i \in 1 .. Len(x.heap[o].kids) :
           x.heap[o].kids[i] \in 1 .. Len(x.heap)
  BY <1>1 DEF Live
<1>7. Len(x.heap) \in Nat /\ Len(x.container_stack) \in Nat
  BY <1>2
<1>8. Len(x.state_stack) > 0
  BY <1>4, <1>7
<1>9. x.llsd <= Len(x.heap)
  BY <1>6, <1>7
<1> QED BY <1>1, <1>2, <1>3, <1>4, <1>5, <1>6, <1>7, <1>8, <1>9

(* The i-th object that o holds was held there before. *)
Kept(x, y, o, i) ==
  /\ o \in 1 .. Len(x.heap)
  /\ i \in 1 .. Len(x.heap[o].kids)
  /\ y.heap[o].kids[i] = x.heap[o].kids[i]

(* The i-th object that o holds is one of g, which c has been given. *)
Late(x, y, c, g, o, i) ==
  /\ o = c
  /\ o \in 1 .. Len(x.heap)
  /\ i - Len(x.heap[o].kids) \in 1 .. Len(g)
  /\ y.heap[o].kids[i] = g[i - Len(x.heap[o].kids)]

(* Every object y holds was held by x at that place, or is one of the values
   the innermost container has been given. *)
LEMMA KidsOf ==
  ASSUME NEW V, NEW x, Ind(V, x), NEW y, NEW kind, NEW val, Taken(x, y, kind, val),
         NEW g \in Seq(Nat), g = Given(x, Len(x.heap) + 1),
         NEW c, c = TopObj(x.container_stack),
         NEW o \in 1 .. Len(y.heap), NEW i \in 1 .. Len(y.heap[o].kids)
  PROVE  Kept(x, y, o, i) \/ Late(x, y, c, g, o, i)
<1>1. /\ Len(x.heap) \in Nat
      /\ x.heap \in Seq(Object(V))
      /\ \A a \in 1 .. Len(x.heap) : x.heap[a].kids \in Seq(Nat)
  BY IndParts
<1>2. /\ Len(y.heap) = Len(x.heap) + 1
      /\ y.heap[Len(x.heap) + 1] = New(kind, val)
      /\ \A a \in 1 .. Len(x.heap) :
           /\ a # c => y.heap[a] = x.heap[a]
           /\ a = c => y.heap[a] = [x.heap[a] EXCEPT !.kids = @ \o g]
  BY DEF Taken
<1>3. CASE o = Len(x.heap) + 1
  <2>1. y.heap[o].kids = << >>
    BY <1>2, <1>3 DEF New
  <2> QED BY <2>1
<1>4. CASE o \in 1 .. Len(x.heap) /\ o # c
  BY <1>2, <1>4 DEF Kept
<1>5. CASE o \in 1 .. Len(x.heap) /\ o = c
  <2> DEFINE k == x.heap[o].kids
  <2>1. k \in Seq(Nat) /\ x.heap[o] \in Object(V)
    BY <1>1, <1>5
  <2>2. y.heap[o] = [x.heap[o] EXCEPT !.kids = k \o g]
    BY <1>2, <1>5
  <2> HIDE DEF k
  <2>3. y.heap[o].kids = k \o g
    BY <2>1, <2>2 DEF Object
  <2>4. /\ Len(k \o g) = Len(k) + Len(g)
        /\ \A j \in 1 .. Len(k) + Len(g) : (k \o g)[j] = IF j <= Len(k) THEN k[j] ELSE g[j - Len(k)]
    BY <2>1, ConcatProperties
  <2>5. Len(k) \in Nat /\ Len(g) \in Nat /\ i \in 1 .. Len(k) + Len(g)
    BY <2>1, <2>3, <2>4
  <2>6. \/ i \in 1 .. Len(k) /\ y.heap[o].kids[i] = k[i]
        \/ i - Len(k) \in 1 .. Len(g) /\ y.heap[o].kids[i] = g[i - Len(k)]
    BY <2>3, <2>4, <2>5
  <2> QED BY <1>5, <2>6 DEF k, Kept, Late
<1> QED BY <1>1, <1>2, <1>3, <1>4, <1>5

(* Values that a tree may hold at c without ceasing to be one. *)
Apart(x, y, c, g) ==
  /\ \A j \in 1 .. Len(g) :
       /\ g[j] > c
       /\ g[j] # y.llsd
       /\ g[j] # y.key
       /\ \A o \in 1 .. Len(x.heap) : \A i \in 1 .. Len(x.heap[o].kids) :
            x.heap[o].kids[i] # g[j]
  /\ \A j, k \in 1 .. Len(g) : g[j] = g[k] => j = k

(* The innermost container is one of the heap's, or there is none. *)
LEMMA InnermostAddress ==
  ASSUME NEW V, NEW x, Ind(V, x)
  PROVE  /\ TopObj(x.container_stack) \in 0 .. Len(x.heap)
         /\ Top(x.state_stack) = x.state_stack[Len(x.state_stack)]
<1>1. /\ x.container_stack \in Seq(Nat) /\ Len(x.heap) \in Nat
      /\ \A i \in 1 .. Len(x.container_stack) : x.container_stack[i] \in 1 .. Len(x.heap)
      /\ x.state_stack \in Seq(States) /\ Len(x.state_stack) > 0
  BY IndParts
<1>2. CASE x.container_stack = << >>
  BY <1>1, <1>2, TopFacts DEF TopObj
<1>3. CASE x.container_stack # << >>
  <2>1. Len(x.container_stack) > 0
    BY <1>1, <1>3
  <2> QED BY <1>1, <2>1, TopFacts
<1> QED BY <1>2, <1>3

(* A frame that moves on is in the state it has moved to. *)
LEMMA ReplacedTop ==
  ASSUME NEW s \in Seq(States), Len(s) > 0, NEW st \in States, NEW t, t = Replace(s, st)
  PROVE  /\ t \in Seq(States) /\ Len(t) = Len(s)
         /\ t[Len(t)] = st /\ Top(t) = st
         /\ \A i \in 1 .. Len(s) - 1 : t[i] = s[i]
<1>0. /\ Replace(s, st) \in Seq(States) /\ Len(Replace(s, st)) = Len(s)
      /\ Replace(s, st)[Len(s)] = st
      /\ \A i \in 1 .. Len(s) - 1 : Replace(s, st)[i] = s[i]
  BY DEF Replace
<1>1. /\ t \in Seq(States) /\ Len(t) = Len(s) /\ t[Len(s)] = st
      /\ \A i \in 1 .. Len(s) - 1 : t[i] = s[i]
  BY <1>0, Zenon
<1>2. Top(t) = t[Len(t)]
  BY <1>1, TopFacts
<1> QED BY <1>1, <1>2

(* Sequences of no, one and two elements. *)
LEMMA NoneGiven == << >> \in Seq(Nat) /\ \A j : ~(j \in 1 .. Len(<< >>))
<1>1. << >> \in Seq(Nat) /\ Len(<< >>) = 0
  OBVIOUS
<1>2. \A j : ~(j \in 1 .. 0)
  OBVIOUS
<1> QED BY <1>1, <1>2

(* A callback that hands one new object to a container gives a sequence of one. *)
LEMMA OneGiven ==
  ASSUME NEW m \in Nat, NEW g, g = <<m>>
  PROVE  g \in Seq(Nat) /\ \A j \in 1 .. Len(g) : j = 1 /\ g[j] = m
<1>1. <<m>> \in Seq(Nat) /\ Len(<<m>>) = 1 /\ <<m>>[1] = m
  OBVIOUS
<1>2. \A j \in 1 .. 1 : j = 1
  OBVIOUS
<1> QED BY <1>1, <1>2

(* A pair is handed to a map as a sequence of two: first the key, then the value. *)
LEMMA TwoGiven ==
  ASSUME NEW m \in Nat, NEW n \in Nat, NEW g, g = <<m, n>>
  PROVE  /\ g \in Seq(Nat)
         /\ \A j \in 1 .. Len(g) : (j = 1 /\ g[j] = m) \/ (j = 2 /\ g[j] = n)
<1>1. /\ <<m, n>> \in Seq(Nat) /\ Len(<<m, n>>) = 2
      /\ <<m, n>>[1] = m /\ <<m, n>>[2] = n
  OBVIOUS
<1>2. g \in Seq(Nat) /\ Len(g) = 2 /\ g[1] = m /\ g[2] = n
  BY <1>1, Zenon
<1>3. \A j \in 1 .. 2 : j = 1 \/ j = 2
  OBVIOUS
<1> QED BY ONLY <1>2, <1>3, Zenon

(* What a container is given has been held nowhere before. *)
LEMMA GivenApart ==
  ASSUME NEW V, NEW x, Ind(V, x), Sole(x), NEW y, NEW kind, NEW val, Taken(x, y, kind, val),
         NEW g, g = Given(x, Len(x.heap) + 1),
         NEW c, c = TopObj(x.container_stack)
  PROVE  g \in Seq(Nat) /\ Apart(x, y, c, g)
<1> DEFINE v == Len(x.heap) + 1
<1>1. /\ Len(x.heap) \in Nat /\ x.key \in Nat /\ x.llsd \in Nat
      /\ x.key <= Len(x.heap) /\ x.llsd <= Len(x.heap)
      /\ \A o \in 1 .. Len(x.heap) : \A i \in 1 .. Len(x.heap[o].kids) :
           x.heap[o].kids[i] \in 1 .. Len(x.heap)
  BY IndParts
<1>2. c \in 0 .. Len(x.heap) /\ Top(x.state_stack) = x.state_stack[Len(x.state_stack)]
  BY InnermostAddress
<1>3. AtTop(x, y, v) \/ AsKey(x, y, v) \/ InArray(x, y) \/ InMap(x, y)
  BY DEF Taken
<1>4. v \in Nat /\ v > c /\ v # x.key /\ v # x.llsd /\ v # 0
  BY <1>1, <1>2
<1>5. \A o \in 1 .. Len(x.heap) : \A i \in 1 .. Len(x.heap[o].kids) :
        x.heap[o].kids[i] # v /\ x.heap[o].kids[i] # x.key
  BY <1>1 DEF Sole, Ordered
<1> HIDE DEF v
<1>6. CASE AtTop(x, y, v) \/ AsKey(x, y, v)
  <2>1. g = << >>
    BY <1>6 DEF AtTop, AsKey, Given
  <2> QED BY <2>1, NoneGiven DEF Apart
<1>7. CASE InArray(x, y)
  <2>1. g = <<v>>
    BY <1>7 DEF InArray, Given, v
  <2>2. y.key = x.key /\ y.llsd = x.llsd
    BY <1>7 DEF InArray
  <2>3. g \in Seq(Nat) /\ \A j \in 1 .. Len(g) : j = 1 /\ g[j] = v
    BY <1>4, <2>1, OneGiven
  <2> QED BY <1>4, <1>5, <2>2, <2>3 DEF Apart
<1>8. CASE InMap(x, y)
  <2>1. g = <<x.key, v>> /\ x.state_stack[Len(x.state_stack)] \in NeedsKey
    BY <1>2, <1>8 DEF InMap, Given, v, NeedsKey
  <2>2. y.key = 0 /\ y.llsd = x.llsd
    BY <1>8 DEF InMap
  <2>3. x.key > 0
    BY <2>1 DEF Ind, Keyed
  <2>4. x.key > c /\ x.key # x.llsd
    BY <1>1, <2>1, <2>3 DEF Sole, KeyApart
  <2>5. x.key \in Nat /\ v \in Nat
    BY <1>1, <1>4
  <2>6. /\ g \in Seq(Nat)
        /\ \A j \in 1 .. Len(g) : (j = 1 /\ g[j] = x.key) \/ (j = 2 /\ g[j] = v)
    BY ONLY <2>1, <2>5, TwoGiven
  <2>7. \A j \in 1 .. Len(g) : g[j] > c /\ g[j] # y.llsd /\ g[j] # y.key
    BY <1>1, <1>4, <2>2, <2>3, <2>4, <2>6
  <2>8. \A j \in 1 .. Len(g) :
          \A o \in 1 .. Len(x.heap) : \A i \in 1 .. Len(x.heap[o].kids) :
            x.heap[o].kids[i] # g[j]
    BY SMTT(30), <1>5, <2>6
  <2>9. \A j, k \in 1 .. Len(g) : g[j] = g[k] => j = k
    BY <1>4, <2>6
  <2> QED BY <2>6, <2>7, <2>8, <2>9 DEF Apart
<1> QED BY <1>3, <1>6, <1>7, <1>8

(* A value that is taken leaves the tree a tree. *)
LEMMA TakenSole ==
  ASSUME NEW V, NEW x, Ind(V, x), Sole(x), NEW y, NEW kind, NEW val, Taken(x, y, kind, val)
  PROVE  Sole(y)
<1> DEFINE v == Len(x.heap) + 1
           c == TopObj(x.container_stack)
           g == Given(x, v)
<1>1. /\ Len(x.heap) \in Nat /\ x.key \in Nat /\ x.llsd \in Nat
      /\ x.key <= Len(x.heap) /\ x.llsd <= Len(x.heap)
      /\ x.state_stack \in Seq(States) /\ Len(x.state_stack) > 0
      /\ \A o \in 1 .. Len(x.heap) :
           /\ x.heap[o].kids \in Seq(Nat)
           /\ \A i \in 1 .. Len(x.heap[o].kids) : x.heap[o].kids[i] \in 1 .. Len(x.heap)
  BY IndParts
<1>2. c \in 0 .. Len(x.heap) /\ Top(x.state_stack) = x.state_stack[Len(x.state_stack)]
  BY InnermostAddress
<1>3. g \in Seq(Nat) /\ Apart(x, y, c, g)
  BY GivenApart
<1>4. \A o \in 1 .. Len(y.heap) : \A i \in 1 .. Len(y.heap[o].kids) :
        Kept(x, y, o, i) \/ Late(x, y, c, g, o, i)
  BY <1>3, KidsOf
<1>5. /\ y.container_stack = x.container_stack
      /\ AtTop(x, y, v) \/ AsKey(x, y, v) \/ InArray(x, y) \/ InMap(x, y)
  BY DEF Taken
<1>6. y.llsd \in {x.llsd, v} /\ y.key \in {x.key, v, 0}
  BY <1>5 DEF AtTop, AsKey, InArray, InMap
<1>7. v > Len(x.heap) /\ v # 0
  BY <1>1
<1> HIDE DEF v, c, g
<1>8. Ordered(y)
  <2> SUFFICES ASSUME NEW o \in 1 .. Len(y.heap), NEW i \in 1 .. Len(y.heap[o].kids)
               PROVE  /\ y.heap[o].kids[i] > o
                      /\ y.heap[o].kids[i] # y.llsd
                      /\ y.heap[o].kids[i] # y.key
    BY DEF Ordered
  <2>1. CASE Kept(x, y, o, i)
    <3> DEFINE n == x.heap[o].kids[i]
    <3>1. n > o /\ n # x.llsd /\ n # x.key
      BY <2>1 DEF Sole, Ordered, Kept
    <3>2. n \in 1 .. Len(x.heap) /\ y.heap[o].kids[i] = n
      BY <1>1, <2>1 DEF Kept
    <3> QED BY SMTT(30), <1>1, <1>6, <1>7, <3>1, <3>2
  <2>2. CASE Late(x, y, c, g, o, i)
    BY <1>3, <2>2 DEF Apart, Kept, Late
  <2> QED BY <1>4, <2>1, <2>2
<1>9. HeldOnce(y)
  <2> SUFFICES ASSUME NEW o \in 1 .. Len(y.heap), NEW p \in 1 .. Len(y.heap),
                      NEW i \in 1 .. Len(y.heap[o].kids), NEW j \in 1 .. Len(y.heap[p].kids),
                      y.heap[p].kids[j] = y.heap[o].kids[i]
               PROVE  p = o /\ j = i
    BY DEF HeldOnce
  <2>1. CASE Kept(x, y, o, i) /\ Kept(x, y, p, j)
    BY <2>1 DEF Sole, HeldOnce, Kept
  <2>2. CASE Kept(x, y, o, i) /\ Late(x, y, c, g, p, j)
    BY <1>3, <2>2 DEF Apart, Kept, Late
  <2>4. CASE Late(x, y, c, g, o, i) /\ Kept(x, y, p, j)
    <3> DEFINE k == i - Len(x.heap[o].kids)
    <3>1. k \in 1 .. Len(g) /\ y.heap[o].kids[i] = g[k]
      BY <2>4 DEF Late
    <3>2. /\ p \in 1 .. Len(x.heap) /\ j \in 1 .. Len(x.heap[p].kids)
          /\ y.heap[p].kids[j] = x.heap[p].kids[j]
      BY <2>4 DEF Kept
    <3> HIDE DEF k
    <3>3. x.heap[p].kids[j] # g[k]
      BY <1>3, <3>1, <3>2 DEF Apart
    <3> QED BY <3>1, <3>2, <3>3
  <2>3. CASE Late(x, y, c, g, o, i) /\ Late(x, y, c, g, p, j)
    <3>1. i - Len(x.heap[o].kids) = j - Len(x.heap[p].kids) /\ p = o
      BY <1>3, <2>3 DEF Apart, Late
    <3>2. Len(x.heap[o].kids) \in Nat /\ i \in Int /\ j \in Int /\ o = p
      BY SMTT(30), <1>1, <2>3 DEF Late
    <3> QED BY <3>1, <3>2
  <2>5. /\ Kept(x, y, o, i) \/ Late(x, y, c, g, o, i)
        /\ Kept(x, y, p, j) \/ Late(x, y, c, g, p, j)
    BY <1>4
  <2> QED BY <2>1, <2>2, <2>3, <2>4, <2>5
<1>10. KeyApart(y)
  <2>1. ASSUME NEW st \in States, y.state_stack = Replace(x.state_stack, st)
        PROVE  y.state_stack[Len(y.state_stack)] = st
    <3>1. x.state_stack \in Seq(States) /\ Len(x.state_stack) > 0
      BY <1>1
    <3>2. LET t == Replace(x.state_stack, st) IN t[Len(t)] = st
      BY <3>1, ReplacedTop
    <3> QED BY <2>1, <3>2
  <2>2. CASE AtTop(x, y, v)
    <3>1. y.key = x.key /\ y.llsd = v /\ y.state_stack[Len(y.state_stack)] = "TOP_LEVEL"
      BY <1>2, <2>2 DEF AtTop
    <3>2. y.key # y.llsd
      BY <1>1, <1>7, <3>1
    <3> QED BY <3>1, <3>2 DEF KeyApart, NeedsKey
  <2>3. CASE AsKey(x, y, v)
    <3>1. y.key = v /\ y.llsd = x.llsd
      BY <2>3 DEF AsKey
    <3>2. y.key # y.llsd /\ y.key > TopObj(y.container_stack)
      <4>1. TopObj(y.container_stack) = c /\ c <= Len(x.heap) /\ c \in Nat
        BY <1>1, <1>2, <1>5 DEF c
      <4>2. v \in Nat
        BY <1>1 DEF v
      <4> QED BY <1>1, <1>7, <3>1, <4>1, <4>2
    <3> QED BY <3>2 DEF KeyApart
  <2>4. CASE InArray(x, y)
    <3>1. y.key = x.key /\ y.llsd = x.llsd
      BY <2>4 DEF InArray
    <3>2. y.state_stack[Len(y.state_stack)] = "ARRAY_VALUE"
      BY <2>1, <2>4 DEF InArray, States, ArrayStates
    <3> QED BY <3>1, <3>2 DEF Sole, KeyApart, NeedsKey
  <2>5. CASE InMap(x, y)
    <3>1. y.key = 0
      BY <2>5 DEF InMap
    <3>2. y.state_stack[Len(y.state_stack)] = "MAP_VALUE"
      BY <2>1, <2>5 DEF InMap, States, MapStates
    <3> QED BY <3>1, <3>2 DEF KeyApart, NeedsKey
  <2> QED BY <1>5, <2>2, <2>3, <2>4, <2>5
<1> QED BY <1>8, <1>9, <1>10 DEF Sole

(* A value that is refused leaves the tree a tree. *)
LEMMA RefusedSole ==
  ASSUME NEW V, NEW x, Ind(V, x), Sole(x), NEW y, Refused(x, y)
  PROVE  Sole(y)
<1>1. /\ Len(x.heap) \in Nat
      /\ x.state_stack \in Seq(States) /\ Len(x.state_stack) > 0
  BY IndParts
<1>2. /\ y.key = x.key /\ y.llsd = x.llsd /\ y.container_stack = x.container_stack
      /\ Len(y.heap) \in {Len(x.heap), Len(x.heap) + 1}
      /\ \A o \in 1 .. Len(x.heap) : y.heap[o] = x.heap[o]
      /\ \A o \in Len(x.heap) + 1 .. Len(y.heap) : y.heap[o].kids = << >>
  BY DEF Refused
<1>3. ASSUME NEW o \in 1 .. Len(y.heap), NEW i \in 1 .. Len(y.heap[o].kids)
      PROVE  Kept(x, y, o, i)
  <2>1. CASE o \in 1 .. Len(x.heap)
    BY <1>2, <2>1 DEF Kept
  <2>2. CASE o \in Len(x.heap) + 1 .. Len(y.heap)
    <3>1. y.heap[o].kids = << >>
      BY <1>2, <2>2
    <3> QED BY <3>1, NoneGiven
  <2> QED BY <1>1, <1>2, <2>1, <2>2
<1>4. Ordered(y)
  BY SMTT(30), <1>2, <1>3 DEF Sole, Ordered, Kept
<1>5. HeldOnce(y)
  BY SMTT(30), <1>3 DEF Sole, HeldOnce, Kept
<1>6. KeyApart(y)
  <2>1. CASE y.state_stack = x.state_stack
    BY <1>2, <2>1 DEF Sole, KeyApart
  <2>2. CASE /\ Top(x.state_stack) \in {"ARRAY_VALUE_BEGIN", "MAP_VALUE_BEGIN"}
             /\ y.state_stack = Replace(x.state_stack, ValueOf[Top(x.state_stack)])
    <3>1. PICK st : st = ValueOf[Top(x.state_stack)]
      OBVIOUS
    <3>2. st \in States /\ st \notin NeedsKey
      BY <2>2, <3>1 DEF ValueOf, States, ArrayStates, MapStates, NeedsKey
    <3>3. LET t == Replace(x.state_stack, st) IN t[Len(t)] = st
      BY <1>1, <3>2, ReplacedTop
    <3>4. y.state_stack[Len(y.state_stack)] = st
      BY <2>2, <3>1, <3>3
    <3> QED BY <1>2, <3>2, <3>4 DEF Sole, KeyApart
  <2> QED BY <2>1, <2>2 DEF Refused
<1> QED BY <1>4, <1>5, <1>6 DEF Sole

(* The tree is what it was when only the stacks have changed. *)
LEMMA SameTreeSole ==
  ASSUME NEW x, NEW y, Sole(x), SameTree(x, y), KeyApart(y)
  PROVE  Sole(y)
<1>1. y.heap = x.heap /\ y.key = x.key /\ y.llsd = x.llsd
  BY DEF SameTree
<1>2. Ordered(y)
  BY <1>1 DEF Sole, Ordered
<1>3. HeldOnce(y)
  BY <1>1 DEF Sole, HeldOnce
<1> QED BY <1>2, <1>3 DEF Sole

(* A container that is opened leaves the tree a tree. *)
LEMMA OpenedSole ==
  ASSUME NEW V, NEW x, Ind(V, x), Sole(x), NEW y, NEW kind,
         NEW first \in States \ NeedsKey, Opened(V, x, y, kind, first)
  PROVE  Sole(y)
<1>1. PICK d : /\ Ind(V, d) /\ Taken(x, d, kind, "none")
               /\ SameTree(d, y) /\ y.state_stack = Push(d.state_stack, first)
  BY DEF Opened, SameTree
<1>2. Sole(d)
  BY <1>1, TakenSole
<1>3. d.state_stack \in Seq(States)
  BY <1>1, IndParts
<1>4. y.state_stack[Len(y.state_stack)] = first
  <2>1. LET t == Push(d.state_stack, first) IN t[Len(t)] = first
    BY <1>3 DEF Push
  <2> QED BY <1>1, <2>1
<1>5. KeyApart(y)
  BY <1>1, <1>2, <1>4 DEF SameTree, Sole, KeyApart
<1> QED BY <1>1, <1>2, <1>5, SameTreeSole

(* A frame that moves leaves the tree a tree: a key that is needed after the
   move was needed before it. *)
LEMMA MoveSole ==
  ASSUME NEW V, NEW x, Ind(V, x), Sole(x), NEW valid_states, NEW next \in States,
         next \in NeedsKey => valid_states \subseteq NeedsKey
  PROVE  Sole(Move(x, valid_states, next).b)
<1> DEFINE r == Move(x, valid_states, next)
<1>1. /\ r.ok \in BOOLEAN
      /\ r.ok <=> Top(x.state_stack) \in valid_states
      /\ SameTree(x, r.b)
      /\ r.b.container_stack = x.container_stack
      /\ r.b.state_stack = IF r.ok THEN Replace(x.state_stack, next) ELSE x.state_stack
  BY MoveShape
<1>2. /\ x.state_stack \in Seq(States) /\ Len(x.state_stack) > 0
      /\ Top(x.state_stack) = x.state_stack[Len(x.state_stack)]
  BY IndParts, InnermostAddress
<1> HIDE DEF r
<1>3. KeyApart(r.b)
  <2>1. CASE r.ok
    <3>1. LET t == Replace(x.state_stack, next) IN t[Len(t)] = next
      BY <1>2, ReplacedTop
    <3>2. r.b.state_stack[Len(r.b.state_stack)] = next
      BY <1>1, <2>1, <3>1
    <3>3. next \in NeedsKey => x.state_stack[Len(x.state_stack)] \in NeedsKey
      BY <1>1, <1>2, <2>1
    <3> QED BY <1>1, <3>2, <3>3 DEF Sole, KeyApart, SameTree
  <2>2. CASE ~r.ok
    BY <1>1, <2>2 DEF Sole, KeyApart, SameTree
  <2> QED BY <1>1, <2>1, <2>2
<1>4. Sole(r.b)
  BY <1>1, <1>3, SameTreeSole
<1> QED BY <1>4 DEF r

(* A container that is closed leaves the tree a tree: the frame that comes to
   the top needs no key. *)
LEMMA CloseSole ==
  ASSUME NEW V, NEW x, Ind(V, x), Sole(x), NEW valid_states, "TOP_LEVEL" \notin valid_states
  PROVE  Sole(CloseContainer(x, valid_states).b)
<1> DEFINE r == CloseContainer(x, valid_states)
           d == Len(x.container_stack)
<1>1. /\ r.ok \in BOOLEAN
      /\ r.ok <=> Top(x.state_stack) \in valid_states
      /\ SameTree(x, r.b)
      /\ r.b.container_stack = IF r.ok THEN Pop(x.container_stack) ELSE x.container_stack
      /\ r.b.state_stack = IF r.ok THEN Pop(x.state_stack) ELSE x.state_stack
  BY CloseShape
<1>2. /\ x.state_stack \in Seq(States) /\ Len(x.state_stack) = d + 1 /\ d \in Nat
      /\ Top(x.state_stack) = x.state_stack[Len(x.state_stack)]
  BY IndParts, InnermostAddress
<1>3. /\ x.state_stack[1] = "TOP_LEVEL"
      /\ \A i \in 1 .. d - 1 : x.state_stack[i + 1] \in {"ARRAY_VALUE", "MAP_VALUE"}
  BY DEF Ind, Frames, Path
<1> HIDE DEF r, d
<1>4. KeyApart(r.b)
  <2>1. CASE r.ok
    <3>1. d > 0
      BY <1>1, <1>2, <1>3, <2>1
    <3>2. x.state_stack[d] \notin NeedsKey
      <4>1. CASE d = 1
        BY <1>3, <4>1 DEF NeedsKey
      <4>2. CASE d > 1
        <5>1. d - 1 \in 1 .. d - 1 /\ (d - 1) + 1 = d
          BY <1>2, <4>2
        <5>2. x.state_stack[d] \in {"ARRAY_VALUE", "MAP_VALUE"}
          BY <1>3, <5>1
        <5> QED BY <5>2 DEF NeedsKey
      <4> QED BY <1>2, <3>1, <4>1, <4>2
    <3>3. Len(x.state_stack) > 0 /\ Len(x.state_stack) - 1 = d
      BY <1>2, <3>1
    <3>4. LET t == Pop(x.state_stack) IN t[Len(t)] = x.state_stack[d]
      BY <1>2, <3>1, <3>3, PopFacts
    <3>5. r.b.state_stack[Len(r.b.state_stack)] = x.state_stack[d]
      BY <1>1, <2>1, <3>4
    <3> QED BY <1>1, <3>2, <3>5 DEF Sole, KeyApart, SameTree
  <2>2. CASE ~r.ok
    BY <1>1, <2>2 DEF Sole, KeyApart, SameTree
  <2> QED BY <1>1, <2>1, <2>2
<1>5. Sole(r.b)
  BY <1>1, <1>4, SameTreeSole
<1> QED BY <1>5 DEF r

(* The callbacks that deliver a value leave the tree a tree. *)
LEMMA ValuesKeepSole ==
  ASSUME NEW V, NEW x, Ind(V, x), Sole(x), NEW luck \in Luck
  PROVE  /\ \A val \in V : Sole(scalar_fn(x, val, luck).b)
         /\ \A val \in V : Sole(llsd_string_fn(x, val, luck).b)
         /\ Sole(llsd_array_begin_fn(x, luck).b)
         /\ Sole(llsd_map_begin_fn(x, luck).b)
<1>1. ASSUME NEW kind \in Kinds, NEW val \in V, NEW valid_states \in {VALUE_STATES, STRING_STATES},
             valid_states = STRING_STATES => kind = "string"
      PROVE  Sole(Deliver(x, kind, val, valid_states, luck).b)
  <2> DEFINE r == Deliver(x, kind, val, valid_states, luck)
  <2>1. /\ r.ok \in BOOLEAN
        /\ ~r.ok => Refused(x, r.b)
        /\ r.ok => Taken(x, r.b, kind, val)
    BY <1>1, DeliverShape
  <2> HIDE DEF r
  <2>2. Sole(r.b)
    BY <2>1, RefusedSole, TakenSole
  <2> QED BY <2>2 DEF r
<1>2. ASSUME NEW kind \in {"array", "map"}, NEW first \in {"ARRAY_BEGIN", "MAP_BEGIN"}
      PROVE  Sole(OpenContainer(x, kind, first, luck).b)
  <2> DEFINE r == OpenContainer(x, kind, first, luck)
  <2>1. first \in States \ NeedsKey
    BY DEF States, ArrayStates, MapStates, NeedsKey
  <2>2. /\ r.ok \in BOOLEAN
        /\ ~r.ok => Refused(x, r.b)
        /\ r.ok => Opened(V, x, r.b, kind, first)
    BY OpenShape
  <2> HIDE DEF r
  <2>3. Sole(r.b)
    BY <2>1, <2>2, RefusedSole, OpenedSole
  <2> QED BY <2>3 DEF r
<1>3. (\A val \in V : Sole(scalar_fn(x, val, luck).b))
      /\ (\A val \in V : Sole(llsd_string_fn(x, val, luck).b))
  BY <1>1 DEF scalar_fn, llsd_string_fn, Kinds, VALUE_STATES, STRING_STATES
<1>4. Sole(llsd_array_begin_fn(x, luck).b) /\ Sole(llsd_map_begin_fn(x, luck).b)
  BY <1>2 DEF llsd_array_begin_fn, llsd_map_begin_fn
<1> QED BY <1>3, <1>4

(* The other callbacks leave the tree a tree. *)
LEMMA MovesKeepSole ==
  ASSUME NEW V, NEW x, Ind(V, x), Sole(x)
  PROVE  /\ Sole(llsd_array_value_begin_fn(x).b)
         /\ Sole(llsd_array_value_end_fn(x).b)
         /\ Sole(llsd_array_end_fn(x).b)
         /\ Sole(llsd_map_key_begin_fn(x).b)
         /\ Sole(llsd_map_key_end_fn(x).b)
         /\ Sole(llsd_map_value_begin_fn(x).b)
         /\ Sole(llsd_map_value_end_fn(x).b)
         /\ Sole(llsd_map_end_fn(x).b)
<1>5. Sole(llsd_array_value_begin_fn(x).b)
  BY MoveSole DEF llsd_array_value_begin_fn, States, ArrayStates, NeedsKey
<1>6. Sole(llsd_array_value_end_fn(x).b)
  BY MoveSole DEF llsd_array_value_end_fn, States, ArrayStates, NeedsKey
<1>7. Sole(llsd_map_key_begin_fn(x).b)
  BY MoveSole DEF llsd_map_key_begin_fn, States, MapStates, NeedsKey
<1>8. Sole(llsd_map_key_end_fn(x).b)
  BY MoveSole DEF llsd_map_key_end_fn, States, MapStates, NeedsKey
<1>9. Sole(llsd_map_value_begin_fn(x).b)
  BY MoveSole DEF llsd_map_value_begin_fn, States, MapStates, NeedsKey
<1>10. Sole(llsd_map_value_end_fn(x).b)
  BY MoveSole DEF llsd_map_value_end_fn, States, MapStates, NeedsKey
<1>11. Sole(llsd_array_end_fn(x).b) /\ Sole(llsd_map_end_fn(x).b)
  BY CloseSole DEF llsd_array_end_fn, llsd_map_end_fn
<1> QED BY <1>5, <1>6, <1>7, <1>8, <1>9, <1>10, <1>11

-----------------------------------------------------------------------------
(* What the objects of x hold changes at the end of the innermost container
   only, and nothing is taken away. *)
Grows(x, y) ==
  \A o \in 1 .. Len(x.heap) :
    y.heap[o].kids # x.heap[o].kids =>
      /\ Len(x.container_stack) > 0
      /\ o = x.container_stack[Len(x.container_stack)]
      /\ SubSeq(y.heap[o].kids, 1, Len(x.heap[o].kids)) = x.heap[o].kids

(* What has been put at the end of a sequence does not change its front. *)
LEMMA FrontOfConcat ==
  ASSUME NEW s \in Seq(Nat), NEW t \in Seq(Nat)
  PROVE  SubSeq(s \o t, 1, Len(s)) = s
<1> DEFINE u == s \o t
           f == SubSeq(u, 1, Len(s))
<1>1. /\ u \in Seq(Nat) /\ Len(u) = Len(s) + Len(t)
      /\ \A j \in 1 .. Len(s) + Len(t) : u[j] = IF j <= Len(s) THEN s[j] ELSE t[j - Len(s)]
  BY ConcatProperties
<1>2. Len(s) \in Nat /\ Len(t) \in Nat
  OBVIOUS
<1> HIDE DEF u
<1>3. /\ f \in Seq(Nat) /\ Len(f) = Len(s)
      /\ \A j \in 1 .. Len(s) : f[j] = u[j]
  BY <1>1, <1>2
<1>4. \A j \in 1 .. Len(s) : f[j] = s[j]
  BY SMTT(30), <1>1, <1>2, <1>3
<1> HIDE DEF f
<1>5. f = s
  BY <1>3, <1>4, SeqEqual
<1> QED BY <1>5 DEF f, u

(* A value that is taken is put at the end of the innermost container. *)
LEMMA TakenGrows ==
  ASSUME NEW V, NEW x, Ind(V, x), NEW y, NEW kind, NEW val, Taken(x, y, kind, val)
  PROVE  Grows(x, y)
<1> DEFINE c == TopObj(x.container_stack)
           g == Given(x, Len(x.heap) + 1)
<1>1. /\ x.heap \in Seq(Object(V)) /\ Len(x.heap) \in Nat /\ x.key \in Nat
      /\ x.container_stack \in Seq(Nat)
  BY IndParts
<1>2. g \in Seq(Nat)
  <2>1. Len(x.heap) + 1 \in Nat
    BY <1>1
  <2>2. <<Len(x.heap) + 1>> \in Seq(Nat) /\ <<x.key, Len(x.heap) + 1>> \in Seq(Nat)
    BY <1>1, <2>1
  <2> QED BY <2>2 DEF Given
<1>3. \A o \in 1 .. Len(x.heap) :
        /\ o # c => y.heap[o] = x.heap[o]
        /\ o = c => y.heap[o] = [x.heap[o] EXCEPT !.kids = @ \o g]
  BY DEF Taken
<1> HIDE DEF g
<1> SUFFICES ASSUME NEW o \in 1 .. Len(x.heap), y.heap[o].kids # x.heap[o].kids
             PROVE  /\ Len(x.container_stack) > 0
                    /\ o = x.container_stack[Len(x.container_stack)]
                    /\ SubSeq(y.heap[o].kids, 1, Len(x.heap[o].kids)) = x.heap[o].kids
  BY DEF Grows
<1>4. o = c
  BY <1>3
<1>5. x.container_stack # << >> /\ o = x.container_stack[Len(x.container_stack)]
  BY <1>1, <1>4 DEF TopObj
<1>6. Len(x.container_stack) > 0
  BY <1>1, <1>5
<1>7. x.heap[o] \in Object(V) /\ x.heap[o].kids \in Seq(Nat)
  BY SMTT(30), <1>1, ObjectFields
<1>8. y.heap[o].kids = x.heap[o].kids \o g
  <2>1. y.heap[o] = [x.heap[o] EXCEPT !.kids = x.heap[o].kids \o g]
    BY <1>3, <1>4
  <2> QED BY <1>7, <2>1 DEF Object
<1>9. SubSeq(x.heap[o].kids \o g, 1, Len(x.heap[o].kids)) = x.heap[o].kids
  BY <1>2, <1>7, FrontOfConcat
<1> QED BY <1>5, <1>6, <1>8, <1>9

(* A value that is refused is put nowhere. *)
LEMMA RefusedGrows ==
  ASSUME NEW x, NEW y, Refused(x, y)
  PROVE  Grows(x, y)
  BY DEF Refused, Grows

(* Nothing is put anywhere when only the stacks change. *)
LEMMA SameTreeGrows ==
  ASSUME NEW x, NEW y, y.heap = x.heap
  PROVE  Grows(x, y)
  BY DEF Grows

(* No object has been released twice. *)
ReleasedAtMostOnce(x) == \A o \in 1 .. Len(x.heap) : x.heap[o].freed <= 1

(* What each callback leaves behind, in one formula. *)
Shaped(V, x, y) ==
  \/ Refused(x, y)
  \/ \E kind, val : Taken(x, y, kind, val)
  \/ \E kind, first : Opened(V, x, y, kind, first)
  \/ SameTree(x, y)

(* Whatever a callback does, no object is released for the second time. *)
LEMMA ShapedReleases ==
  ASSUME NEW V, NEW x, Ind(V, x), ReleasedAtMostOnce(x), NEW y, Shaped(V, x, y)
  PROVE  ReleasedAtMostOnce(y)
<1>1. Len(x.heap) \in Nat /\ x.heap \in Seq(Object(V))
  BY IndParts
<1>2. ASSUME NEW d, NEW kind, NEW val, Taken(x, d, kind, val)
      PROVE  ReleasedAtMostOnce(d)
  <2>1. /\ Len(d.heap) = Len(x.heap) + 1
        /\ d.heap[Len(x.heap) + 1] = New(kind, val)
    BY <1>2 DEF Taken
  <2>2. ASSUME NEW o \in 1 .. Len(x.heap)
        PROVE  d.heap[o].freed = x.heap[o].freed
    <3>1. PICK k : d.heap[o] = x.heap[o] \/ d.heap[o] = [x.heap[o] EXCEPT !.kids = k]
      BY <1>2 DEF Taken
    <3>2. x.heap[o] \in Object(V)
      BY <1>1
    <3> QED BY <3>1, <3>2 DEF Object
  <2>3. d.heap[Len(x.heap) + 1].freed = 0
    BY <2>1 DEF New
  <2> QED BY SMTT(30), <1>1, <2>1, <2>2, <2>3 DEF ReleasedAtMostOnce
<1>3. CASE Refused(x, y)
  BY <1>1, <1>3 DEF Refused, ReleasedAtMostOnce
<1>4. CASE \E kind, val : Taken(x, y, kind, val)
  BY <1>2, <1>4
<1>5. CASE \E kind, first : Opened(V, x, y, kind, first)
  <2>1. PICK d, kind : Taken(x, d, kind, "none") /\ y.heap = d.heap
    BY <1>5 DEF Opened
  <2>2. ReleasedAtMostOnce(d)
    BY <1>2, <2>1
  <2> QED BY <2>1, <2>2 DEF ReleasedAtMostOnce
<1>6. CASE SameTree(x, y)
  BY <1>6 DEF SameTree, ReleasedAtMostOnce
<1> QED BY <1>3, <1>4, <1>5, <1>6 DEF Shaped

(* The callbacks that deliver a value have one of the shapes. *)
LEMMA ValuesShape ==
  ASSUME NEW V, NEW x, Ind(V, x), NEW luck \in Luck
  PROVE  /\ \A val \in V : Shaped(V, x, scalar_fn(x, val, luck).b)
         /\ \A val \in V : Shaped(V, x, llsd_string_fn(x, val, luck).b)
         /\ Shaped(V, x, llsd_array_begin_fn(x, luck).b)
         /\ Shaped(V, x, llsd_map_begin_fn(x, luck).b)
<1>1. ASSUME NEW kind \in Kinds, NEW val \in V, NEW valid_states \in {VALUE_STATES, STRING_STATES},
             valid_states = STRING_STATES => kind = "string"
      PROVE  Shaped(V, x, Deliver(x, kind, val, valid_states, luck).b)
  <2> DEFINE r == Deliver(x, kind, val, valid_states, luck)
  <2>1. /\ r.ok \in BOOLEAN
        /\ ~r.ok => Refused(x, r.b)
        /\ r.ok => Taken(x, r.b, kind, val)
    BY <1>1, DeliverShape
  <2> HIDE DEF r
  <2>2. Shaped(V, x, r.b)
    BY <2>1 DEF Shaped
  <2> QED BY <2>2 DEF r
<1>2. ASSUME NEW kind \in {"array", "map"}, NEW first
      PROVE  Shaped(V, x, OpenContainer(x, kind, first, luck).b)
  <2> DEFINE r == OpenContainer(x, kind, first, luck)
  <2>1. /\ r.ok \in BOOLEAN
        /\ ~r.ok => Refused(x, r.b)
        /\ r.ok => Opened(V, x, r.b, kind, first)
    BY OpenShape
  <2> HIDE DEF r
  <2>2. Shaped(V, x, r.b)
    BY <2>1 DEF Shaped
  <2> QED BY <2>2 DEF r
<1>3. /\ \A val \in V : Shaped(V, x, scalar_fn(x, val, luck).b)
      /\ \A val \in V : Shaped(V, x, llsd_string_fn(x, val, luck).b)
  BY <1>1 DEF scalar_fn, llsd_string_fn, Kinds, VALUE_STATES, STRING_STATES
<1>4. Shaped(V, x, llsd_array_begin_fn(x, luck).b) /\ Shaped(V, x, llsd_map_begin_fn(x, luck).b)
  BY <1>2 DEF llsd_array_begin_fn, llsd_map_begin_fn
<1> QED BY <1>3, <1>4

(* The other callbacks change the stacks only. *)
LEMMA MovesShape ==
  ASSUME NEW V, NEW x, Ind(V, x)
  PROVE  /\ SameTree(x, llsd_array_value_begin_fn(x).b)
         /\ SameTree(x, llsd_array_value_end_fn(x).b)
         /\ SameTree(x, llsd_array_end_fn(x).b)
         /\ SameTree(x, llsd_map_key_begin_fn(x).b)
         /\ SameTree(x, llsd_map_key_end_fn(x).b)
         /\ SameTree(x, llsd_map_value_begin_fn(x).b)
         /\ SameTree(x, llsd_map_value_end_fn(x).b)
         /\ SameTree(x, llsd_map_end_fn(x).b)
<1>1. ASSUME NEW valid_states, NEW next
      PROVE  SameTree(x, Move(x, valid_states, next).b)
  BY MoveShape
<1>2. ASSUME NEW valid_states
      PROVE  SameTree(x, CloseContainer(x, valid_states).b)
  BY CloseShape
<1>3. /\ SameTree(x, llsd_array_value_begin_fn(x).b)
      /\ SameTree(x, llsd_array_value_end_fn(x).b)
      /\ SameTree(x, llsd_map_key_begin_fn(x).b)
      /\ SameTree(x, llsd_map_key_end_fn(x).b)
      /\ SameTree(x, llsd_map_value_begin_fn(x).b)
      /\ SameTree(x, llsd_map_value_end_fn(x).b)
  BY <1>1 DEF llsd_array_value_begin_fn, llsd_array_value_end_fn, llsd_map_key_begin_fn,
              llsd_map_key_end_fn, llsd_map_value_begin_fn, llsd_map_value_end_fn
<1>4. SameTree(x, llsd_array_end_fn(x).b) /\ SameTree(x, llsd_map_end_fn(x).b)
  BY <1>2 DEF llsd_array_end_fn, llsd_map_end_fn
<1> QED BY <1>3, <1>4

(* Whatever a callback does, it adds to the innermost container at most. *)
LEMMA ShapedGrows ==
  ASSUME NEW V, NEW x, Ind(V, x), NEW y, Shaped(V, x, y)
  PROVE  Grows(x, y)
<1>1. ASSUME NEW kind, NEW first, Opened(V, x, y, kind, first)
      PROVE  Grows(x, y)
  <2>1. PICK d : Taken(x, d, kind, "none") /\ y.heap = d.heap
    BY <1>1 DEF Opened
  <2>2. Grows(x, d)
    BY <2>1, TakenGrows
  <2> QED BY <2>1, <2>2 DEF Grows
<1>2. SameTree(x, y) => Grows(x, y)
  BY SameTreeGrows DEF SameTree
<1> QED BY <1>1, <1>2, RefusedGrows, TakenGrows DEF Shaped

(* The least element of a set of numbers, by which the proofs about the
   recursive functions of the models argue: where a function first differs
   from what it should be, its equation says it does not. *)
LEMMA LeastNat ==
  ASSUME NEW T, T \subseteq Nat, T # {}
  PROVE  \E n \in T : \A m \in T : n <= m
<1>1. PICK n \in T : \A m \in T : ~(<<m, n>> \in OpToRel(<, Nat))
  BY NatLessThanWellFounded, WFMin
<1>2. \A m \in T : ~(m < n)
  BY <1>1 DEF OpToRel
<1> QED BY <1>2

-----------------------------------------------------------------------------
(* What llsd_delete reaches from what an object holds. *)
ReachedBelow(x, o) == UNION {Reached(x)[x.heap[o].kids[i]] : i \in 1 .. Len(x.heap[o].kids)}

(* Reached, the recursive function for what llsd_delete of an object reaches,
   does satisfy its equation: the least closed sets do. *)
LEMMA ReachedEquation ==
  ASSUME NEW V, NEW x, Ind(V, x), NEW o \in 1 .. Len(x.heap)
  PROVE  Reached(x)[o] = {o} \union ReachedBelow(x, o)
<1> DEFINE D == DOMAIN x.heap
           I(a) == DOMAIN x.heap[a].kids
           kid(a, i) == x.heap[a].kids[i]
           S == CHOOSE S : S = [a \in D |-> {a} \union UNION {S[kid(a, i)] : i \in I(a)}]
           Closed(C) == \A a \in C : \A i \in I(a) : kid(a, i) \in C
           W == [a \in D |-> {n \in D : \A C \in SUBSET D : a \in C /\ Closed(C) => n \in C}]
<1>1. /\ x.heap \in Seq(Object(V))
      /\ D = 1 .. Len(x.heap)
      /\ \A a \in D : I(a) = 1 .. Len(x.heap[a].kids)
      /\ \A a \in D : \A i \in I(a) : kid(a, i) \in D
  <2>1. /\ x.heap \in Seq(Object(V))
        /\ \A a \in 1 .. Len(x.heap) :
             /\ x.heap[a].kids \in Seq(Nat)
             /\ \A i \in 1 .. Len(x.heap[a].kids) : kid(a, i) \in 1 .. Len(x.heap)
    BY IndParts
  <2>2. D = 1 .. Len(x.heap)
    BY <2>1
  <2>3. \A a \in D : I(a) = 1 .. Len(x.heap[a].kids)
    BY <2>1, <2>2
  <2> QED BY <2>1, <2>2, <2>3
<1>2. Reached(x) = S
  BY DEF Reached
<1> HIDE DEF D, I, kid
<1>3. ASSUME NEW a \in D
      PROVE  W[a] = {a} \union UNION {W[kid(a, i)] : i \in I(a)}
  <2> DEFINE R == {a} \union UNION {W[kid(a, i)] : i \in I(a)}
  <2>1. \A c \in D : c \in W[c] /\ W[c] \subseteq D
    OBVIOUS
  <2>2. R \subseteq D
    <3>1. \A i \in I(a) : kid(a, i) \in D
      BY <1>1
    <3> HIDE DEF W
    <3>2. \A i \in I(a) : W[kid(a, i)] \subseteq D
      BY <2>1, <3>1
    <3> QED BY <3>2
  <2>3. ASSUME NEW n \in R
        PROVE  n \in W[a]
    <3> SUFFICES ASSUME NEW C \in SUBSET D, a \in C, Closed(C)
                 PROVE  n \in C
      BY <2>2
    <3>1. CASE n = a
      BY <3>1
    <3>2. ASSUME NEW i \in I(a), n \in W[kid(a, i)]
          PROVE  n \in C
      <4>1. kid(a, i) \in C /\ kid(a, i) \in D
        BY <1>1
      <4> QED BY <3>2, <4>1
    <3> QED BY <3>1, <3>2
  <2>4. Closed(R)
    <3> SUFFICES ASSUME NEW c \in R, NEW j \in I(c)
                 PROVE  kid(c, j) \in R
      OBVIOUS
    <3>1. kid(c, j) \in D /\ c \in D
      BY <1>1, <2>2
    <3>2. CASE c = a
      <4>1. kid(a, j) \in W[kid(a, j)]
        BY <2>1, <3>1, <3>2
      <4> QED BY <3>2, <4>1
    <3>3. ASSUME NEW i \in I(a), c \in W[kid(a, i)]
          PROVE  kid(c, j) \in R
      <4>1. kid(a, i) \in D
        BY <1>1
      <4>2. \A C \in SUBSET D : kid(a, i) \in C /\ Closed(C) => c \in C
        BY <3>3, <4>1
      <4>3. \A C \in SUBSET D : kid(a, i) \in C /\ Closed(C) => kid(c, j) \in C
        BY <4>2
      <4>4. kid(c, j) \in W[kid(a, i)]
        BY <3>1, <4>1, <4>3
      <4> QED BY <4>4
    <3> QED BY <3>2, <3>3
  <2>5. W[a] \subseteq R
    <3> HIDE DEF R
    <3>1. a \in R
      BY DEF R
    <3> QED BY <2>2, <2>4, <3>1
  <2> QED BY <2>3, <2>5
<1>4. W = [a \in D |-> {a} \union UNION {W[kid(a, i)] : i \in I(a)}]
  <2> DEFINE E(a) == {a} \union UNION {W[kid(a, i)] : i \in I(a)}
  <2>1. \A a \in D : W[a] = E(a)
    BY <1>3
  <2>2. W = [a \in D |-> W[a]]
    OBVIOUS
  <2> HIDE DEF W, E
  <2>3. W = [a \in D |-> E(a)]
    BY <2>1, <2>2
  <2> QED BY <2>3 DEF E
<1> HIDE DEF W
<1>5. S = [a \in D |-> {a} \union UNION {S[kid(a, i)] : i \in I(a)}]
  BY <1>4
<1> HIDE DEF S
<1>6. o \in D
  BY <1>1
<1>7. S[o] = {o} \union UNION {S[kid(o, i)] : i \in I(o)}
  BY <1>5, <1>6
<1>8. I(o) = 1 .. Len(x.heap[o].kids)
  BY <1>1, <1>6
<1> QED BY <1>2, <1>7, <1>8 DEF kid, ReachedBelow

(* From a live object llsd_delete reaches live objects only. *)
LEMMA ReachedIsLive ==
  ASSUME NEW V, NEW x, Ind(V, x), Sole(x),
         NEW o \in 1 .. Len(x.heap), x.heap[o].freed = 0
  PROVE  Reached(x)[o] \subseteq {n \in 1 .. Len(x.heap) : x.heap[n].freed = 0}
<1> DEFINE L == Len(x.heap)
           R == Reached(x)
           Alive == {n \in 1 .. L : x.heap[n].freed = 0}
           Bad == {a \in Alive : ~(R[a] \subseteq Alive)}
           T == {L - a : a \in Bad}
<1>1. /\ L \in Nat
      /\ \A a \in Alive : \A i \in 1 .. Len(x.heap[a].kids) :
           x.heap[a].kids[i] \in Alive /\ x.heap[a].kids[i] > a
  <2>1. L \in Nat
    BY IndParts
  <2>2. \A a \in 1 .. L : \A i \in 1 .. Len(x.heap[a].kids) :
          x.heap[a].kids[i] \in 1 .. L /\ x.heap[x.heap[a].kids[i]].freed = 0
    BY DEF Ind, Live
  <2>3. \A a \in 1 .. L : \A i \in 1 .. Len(x.heap[a].kids) : x.heap[a].kids[i] > a
    BY DEF Sole, Ordered
  <2> QED BY <2>1, <2>2, <2>3
<1>2. \A a \in 1 .. Len(x.heap) : Reached(x)[a] = {a} \union ReachedBelow(x, a)
  BY ReachedEquation
<1> HIDE DEF L, R
<1>3. ASSUME Bad # {} PROVE FALSE
  <2>1. T \subseteq Nat /\ T # {}
    BY <1>1, <1>3
  <2>2. PICK t \in T : \A u \in T : t <= u
    BY <2>1, LeastNat
  <2>3. PICK a \in Bad : t = L - a
    BY <2>2
  <2>4. \A c \in Bad : c <= a
    <3> SUFFICES ASSUME NEW c \in Bad PROVE c <= a
      OBVIOUS
    <3>1. L - a <= L - c
      BY <2>2, <2>3
    <3> QED BY <1>1, <3>1
  <2>5. a \in Alive /\ a \in Nat
    BY <1>1
  <2>6. ASSUME NEW i \in 1 .. Len(x.heap[a].kids)
        PROVE  R[x.heap[a].kids[i]] \subseteq Alive
    <3>1. x.heap[a].kids[i] \in Alive /\ x.heap[a].kids[i] > a
      BY <1>1, <2>5
    <3>2. x.heap[a].kids[i] \notin Bad
      <4>1. x.heap[a].kids[i] \in Nat
        BY SMTT(30), <1>1, <3>1
      <4> QED BY SMTT(30), <2>4, <2>5, <3>1, <4>1
    <3> QED BY <3>1, <3>2
  <2>7. R[a] \subseteq Alive
    <3>1. ReachedBelow(x, a) \subseteq Alive
      BY <2>6 DEF ReachedBelow, R
    <3>2. R[a] = {a} \union ReachedBelow(x, a)
      BY <1>2, <2>5 DEF L, R
    <3> QED BY <2>5, <3>1, <3>2
  <2> QED BY <2>7
<1>4. o \in Alive
  BY DEF L
<1>5. R[o] \subseteq Alive
  BY <1>3, <1>4
<1> QED BY <1>5 DEF R, L

(* With one container open at most, list_delete of the container stack
   reaches an object once at most, and only one that is live. *)
LEMMA DeletedOnce ==
  ASSUME NEW V, NEW x, Ind(V, x), Sole(x), Len(x.container_stack) <= 1,
         NEW o \in 1 .. Len(x.heap)
  PROVE  deletions(x, o) = 0 \/ (deletions(x, o) = 1 /\ x.heap[o].freed = 0)
<1> DEFINE cs == x.container_stack
           d == {i \in DOMAIN cs : o \in Reached(x)[cs[i]]}
<1>1. /\ DOMAIN cs = 1 .. Len(cs) /\ Len(cs) \in Nat
      /\ \A i \in 1 .. Len(cs) : cs[i] \in 1 .. Len(x.heap)
  BY IndParts
<1>2. \A i \in 1 .. Len(cs) : x.heap[cs[i]].freed = 0
  BY DEF Ind, Live
<1>3. deletions(x, o) = Cardinality(d)
  BY DEF deletions
<1>4. d \subseteq {1}
  BY <1>1
<1>5. CASE d = {}
  BY <1>3, <1>5, FS_EmptySet
<1>6. CASE d # {}
  <2>1. d = {1}
    BY <1>4, <1>6
  <2>2. Cardinality(d) = 1
    BY <2>1, FS_Singleton
  <2>3. 1 \in 1 .. Len(cs) /\ o \in Reached(x)[cs[1]]
    BY <1>1, <2>1
  <2>4. Reached(x)[cs[1]] \subseteq {n \in 1 .. Len(x.heap) : x.heap[n].freed = 0}
    BY <1>1, <1>2, <2>3, ReachedIsLive
  <2> QED BY <1>3, <2>2, <2>3, <2>4
<1> QED BY <1>5, <1>6

(* The callbacks release no object for the second time. *)
LEMMA ValuesKeepReleased ==
  ASSUME NEW V, NEW x, Ind(V, x), ReleasedAtMostOnce(x), NEW luck \in Luck
  PROVE  /\ \A val \in V : ReleasedAtMostOnce(scalar_fn(x, val, luck).b)
         /\ \A val \in V : ReleasedAtMostOnce(llsd_string_fn(x, val, luck).b)
         /\ ReleasedAtMostOnce(llsd_array_begin_fn(x, luck).b)
         /\ ReleasedAtMostOnce(llsd_map_begin_fn(x, luck).b)
  BY ValuesShape, ShapedReleases

(* The callbacks that only move or close a frame release nothing. *)
LEMMA MovesKeepReleased ==
  ASSUME NEW V, NEW x, Ind(V, x), ReleasedAtMostOnce(x)
  PROVE  /\ ReleasedAtMostOnce(llsd_array_value_begin_fn(x).b)
         /\ ReleasedAtMostOnce(llsd_array_value_end_fn(x).b)
         /\ ReleasedAtMostOnce(llsd_array_end_fn(x).b)
         /\ ReleasedAtMostOnce(llsd_map_key_begin_fn(x).b)
         /\ ReleasedAtMostOnce(llsd_map_key_end_fn(x).b)
         /\ ReleasedAtMostOnce(llsd_map_value_begin_fn(x).b)
         /\ ReleasedAtMostOnce(llsd_map_value_end_fn(x).b)
         /\ ReleasedAtMostOnce(llsd_map_end_fn(x).b)
  BY SMTT(30), MovesShape DEF SameTree, ReleasedAtMostOnce

-----------------------------------------------------------------------------
(***************************************************************************)
(* The parsers' handlers.  The argument is about the two state stacks.     *)
(* Between two handlers they are InLockStep: equal at the top, and below   *)
(* it a frame of the parser's that an inner container covers is one move   *)
(* behind the builder's.  While a container begins or ends there is a      *)
(* moment at which every frame is covered (AllCovered); pushing a frame on *)
(* both stacks, or moving the parser's top on, restores InLockStep.        *)
(***************************************************************************)
(* Every frame of s is covered, and t is one move ahead of it. *)
AllCovered(s, t) ==
  /\ Len(s) > 0
  /\ Len(t) = Len(s)
  /\ \A i \in 1 .. Len(s) : s[i] \in DOMAIN Covered /\ t[i] = Covered[s[i]]

(* The states a frame can be in while an inner container covers it. *)
LEMMA CoveredStates ==
  /\ DOMAIN Covered = VALUE_STATES
  /\ VALUE_STATES \subseteq STRING_STATES
  /\ STRING_STATES \subseteq States
  /\ \A st \in VALUE_STATES : Covered[st] = ValueOf[st]
  /\ \A st \in STRING_STATES : ValueOf[st] \in States
  BY DEF Covered, ValueOf, VALUE_STATES, STRING_STATES, States, ArrayStates, MapStates

(* A move that both innermost frames make. *)
LEMMA LockReplace ==
  ASSUME NEW s \in Seq(States), NEW t \in Seq(States), InLockStep(s, t), NEW st \in States
  PROVE  InLockStep(Replace(s, st), Replace(t, st))
<1> DEFINE u == Replace(s, st)
           w == Replace(t, st)
<1>1. Len(s) > 0 /\ Len(t) = Len(s) /\ Len(t) > 0
  BY DEF InLockStep
<1>2. /\ Len(u) = Len(s) /\ u[Len(u)] = st
      /\ \A i \in 1 .. Len(s) - 1 : u[i] = s[i]
  BY <1>1 DEF Replace
<1>3. /\ Len(w) = Len(t) /\ w[Len(w)] = st
      /\ \A i \in 1 .. Len(t) - 1 : w[i] = t[i]
  BY <1>1 DEF Replace
<1> HIDE DEF u, w
<1>4. InLockStep(u, w)
  BY <1>1, <1>2, <1>3 DEF InLockStep
<1> QED BY <1>4 DEF u, w

(* The builder has been given a value that the parser has not noted. *)
LEMMA LockCover ==
  ASSUME NEW s \in Seq(States), NEW t \in Seq(States), InLockStep(s, t),
         NEW st \in VALUE_STATES, st = Top(s)
  PROVE  AllCovered(s, Replace(t, ValueOf[st]))
<1> DEFINE w == Replace(t, ValueOf[st])
<1>1. Len(s) > 0 /\ Len(t) = Len(s) /\ s[Len(s)] = st /\ Len(s) \in Nat /\ Len(t) > 0
  BY TopFacts DEF InLockStep
<1>2. ValueOf[st] \in States /\ st \in DOMAIN Covered /\ ValueOf[st] = Covered[st]
  BY CoveredStates
<1>3. /\ Len(w) = Len(t) /\ w[Len(w)] = ValueOf[st]
      /\ \A i \in 1 .. Len(t) - 1 : w[i] = t[i]
  BY <1>1, <1>2 DEF Replace
<1> HIDE DEF w
<1>4. ASSUME NEW i \in 1 .. Len(s)
      PROVE  s[i] \in DOMAIN Covered /\ w[i] = Covered[s[i]]
  <2>1. CASE i = Len(s)
    BY <1>1, <1>2, <1>3, <2>1
  <2>2. CASE i # Len(s)
    <3>1. i \in 1 .. Len(s) - 1
      BY <1>1, <2>2
    <3> QED BY <1>1, <1>3, <3>1 DEF InLockStep
  <2> QED BY <2>1, <2>2
<1>5. AllCovered(s, w)
  BY <1>1, <1>3, <1>4 DEF AllCovered
<1> QED BY <1>5 DEF w

(* Both stacks get a frame for a container that has begun. *)
LEMMA CoverPush ==
  ASSUME NEW s \in Seq(States), NEW t \in Seq(States), AllCovered(s, t), NEW st \in States
  PROVE  InLockStep(Push(s, st), Push(t, st))
<1>1. Len(s) > 0 /\ Len(t) = Len(s) /\ Len(s) \in Nat
  BY DEF AllCovered
<1>2. /\ Len(Push(s, st)) = Len(s) + 1 /\ Push(s, st)[Len(s) + 1] = st
      /\ \A i \in 1 .. Len(s) : Push(s, st)[i] = s[i]
  BY PushFacts
<1>3. /\ Len(Push(t, st)) = Len(s) + 1 /\ Push(t, st)[Len(s) + 1] = st
      /\ \A i \in 1 .. Len(s) : Push(t, st)[i] = t[i]
  <2>1. /\ Len(Push(t, st)) = Len(t) + 1 /\ Push(t, st)[Len(t) + 1] = st
        /\ \A i \in 1 .. Len(t) : Push(t, st)[i] = t[i]
    BY PushFacts
  <2> QED BY <1>1, <2>1
<1>4. PICK u, w : u = Push(s, st) /\ w = Push(t, st)
  OBVIOUS
<1>5. \A i \in 1 .. Len(u) - 1 : u[i] \in DOMAIN Covered /\ w[i] = Covered[u[i]]
  BY <1>1, <1>2, <1>3, <1>4 DEF AllCovered
<1>6. InLockStep(u, w)
  BY <1>1, <1>2, <1>3, <1>4, <1>5 DEF InLockStep
<1> QED BY <1>4, <1>6

(* Both stacks lose the frame of a container that has ended. *)
LEMMA LockPop ==
  ASSUME NEW s \in Seq(States), NEW t \in Seq(States), InLockStep(s, t), Len(s) > 1
  PROVE  AllCovered(Pop(s), Pop(t))
<1>1. Len(s) \in Nat /\ Len(s) > 0 /\ Len(t) = Len(s)
  BY DEF InLockStep
<1>2. Len(Pop(s)) = Len(s) - 1 /\ \A i \in 1 .. Len(s) - 1 : Pop(s)[i] = s[i]
  BY <1>1, PopFacts
<1>3. Len(Pop(t)) = Len(s) - 1 /\ \A i \in 1 .. Len(s) - 1 : Pop(t)[i] = t[i]
  BY <1>1, PopFacts
<1>4. PICK u, w : u = Pop(s) /\ w = Pop(t)
  OBVIOUS
<1>5. AllCovered(u, w)
  BY <1>1, <1>2, <1>3, <1>4 DEF InLockStep, AllCovered
<1> QED BY <1>4, <1>5

(* The parser notes the value that the builder has been given. *)
LEMMA CoverValue ==
  ASSUME NEW s \in Seq(States), NEW t \in Seq(States), AllCovered(s, t),
         NEW st, st = Top(s)
  PROVE  st \in VALUE_STATES /\ InLockStep(Replace(s, ValueOf[st]), t)
<1> DEFINE u == Replace(s, ValueOf[st])
<1>1. Len(s) > 0 /\ Len(t) = Len(s) /\ s[Len(s)] = st /\ Len(s) \in Nat /\ Len(t) > 0
  BY TopFacts DEF AllCovered
<1>2. st \in DOMAIN Covered /\ t[Len(s)] = Covered[st]
  BY <1>1 DEF AllCovered
<1>3. st \in VALUE_STATES /\ ValueOf[st] \in States /\ ValueOf[st] = Covered[st]
  BY <1>2, CoveredStates
<1>4. /\ Len(u) = Len(s) /\ u[Len(u)] = ValueOf[st]
      /\ \A i \in 1 .. Len(s) - 1 : u[i] = s[i]
  BY <1>1, <1>3 DEF Replace
<1> HIDE DEF u
<1>5. InLockStep(u, t)
  BY <1>1, <1>2, <1>3, <1>4 DEF AllCovered, InLockStep
<1> QED BY <1>3, <1>5 DEF u

(* A frame that moves to where it is stays as it is. *)
LEMMA ReplaceSame ==
  ASSUME NEW s \in Seq(States), Len(s) > 0
  PROVE  Replace(s, Top(s)) = s
<1>1. Top(s) = s[Len(s)] /\ s # << >>
  BY TopFacts
<1>2. [s EXCEPT ![Len(s)] = s[Len(s)]] = s
  OBVIOUS
<1> QED BY <1>1, <1>2 DEF Replace

-----------------------------------------------------------------------------
(* Q is a set of parser records, which have a state stack. *)
HasStack(Q) ==
  \A q \in Q :
    /\ q.state_stack \in Seq(States)
    /\ \A t \in Seq(States) : /\ [q EXCEPT !.state_stack = t] \in Q
                              /\ [q EXCEPT !.state_stack = t].state_stack = t

(* s is a run of a handler whose builder is as it should be. *)
Run(Q, V, s) ==
  /\ s \in [ok : BOOLEAN, p : Q, b : BuilderType(V)]
  /\ Ind(V, s.b)

(* The fields of a run have their types. *)
LEMMA RunFields ==
  ASSUME NEW Q, NEW V, NEW s, Run(Q, V, s)
  PROVE  s.ok \in BOOLEAN /\ s.p \in Q /\ s.b \in BuilderType(V) /\ Ind(V, s.b)
  BY DEF Run

(* A check that failed. *)
LEMMA StopRun ==
  ASSUME NEW Q, NEW V, NEW s, Run(Q, V, s), NEW y, y = Stop(s)
  PROVE  Run(Q, V, y) /\ ~y.ok /\ y.p = s.p /\ y.b = s.b
  BY DEF Run, Stop

(* A callback whose outcome is r. *)
LEMMA CallRun ==
  ASSUME NEW Q, NEW V, NEW s, Run(Q, V, s),
         NEW r, r.ok \in BOOLEAN, Ind(V, r.b), NEW y, y = Call(s, r)
  PROVE  /\ Run(Q, V, y)
         /\ y.p = s.p
         /\ y.ok <=> s.ok /\ r.ok
         /\ y.ok => y.b = r.b
<1>1. CASE s.ok
  <2>1. r.b \in BuilderType(V)
    BY DEF Ind
  <2>2. y = [s EXCEPT !.ok = r.ok, !.b = r.b]
    BY <1>1 DEF Call
  <2> QED BY <1>1, <2>1, <2>2 DEF Run
<1>2. CASE ~s.ok
  BY <1>2 DEF Call
<1> QED BY <1>1, <1>2

(* y is s but for the parser's state stack, which is t if all is well. *)
Restacked(Q, V, s, y, t) ==
  /\ Run(Q, V, y)
  /\ y.ok = s.ok
  /\ y.b = s.b
  /\ s.ok => y.p = [s.p EXCEPT !.state_stack = t] /\ y.p.state_stack = t
  /\ ~s.ok => y.p = s.p

(* Assigning the state stack of a run changes that field alone, and only while
   the run goes on. *)
LEMMA SetStack ==
  ASSUME NEW Q, HasStack(Q), NEW V, NEW s, Run(Q, V, s),
         NEW t, s.ok => t \in Seq(States), NEW y,
         y = IF s.ok THEN [s EXCEPT !.p = [s.p EXCEPT !.state_stack = t]] ELSE s
  PROVE  Restacked(Q, V, s, y, t)
<1>1. CASE s.ok
  <2> DEFINE q == [s.p EXCEPT !.state_stack = t]
  <2>0. s.p \in Q /\ t \in Seq(States)
    BY <1>1, RunFields
  <2>1. q \in Q /\ q.state_stack = t
    BY <2>0 DEF HasStack
  <2> HIDE DEF q
  <2>3. y = [s EXCEPT !.p = q]
    BY <1>1 DEF q
  <2>4. Run(Q, V, y) /\ y.ok = s.ok /\ y.p = q /\ y.b = s.b
    BY <2>1, <2>3 DEF Run
  <2> QED BY <1>1, <2>1, <2>4 DEF Restacked, q
<1>2. CASE ~s.ok
  BY <1>2 DEF Restacked
<1> QED BY <1>1, <1>2

(* PUSH, POP, and POP with PUSH, on the parser's own stack. *)
LEMMA StackRuns ==
  ASSUME NEW Q, HasStack(Q), NEW V, NEW s, Run(Q, V, s), NEW st \in States
  PROVE  /\ \A luck \in Luck :
              Restacked(Q, V, s, PushState(s, st, luck), Push(s.p.state_stack, st))
         /\ Restacked(Q, V, s, PopState(s), Pop(s.p.state_stack))
         /\ Restacked(Q, V, s, MoveTo(s, st), Replace(s.p.state_stack, st))
<1> DEFINE ss == s.p.state_stack
<1>1. ss \in Seq(States)
  BY RunFields DEF HasStack
<1>2. Push(ss, st) \in Seq(States)
  BY <1>1 DEF Push
<1>3. Pop(ss) \in Seq(States)
  <2>1. CASE Len(ss) > 0
    BY <1>1, <2>1, PopFacts
  <2>2. CASE ~(Len(ss) > 0)
    <3>1. Len(ss) = 0
      BY <1>1, <2>2
    <3>2. Len(ss) - 1 \in Int /\ \A i \in 1 .. Len(ss) - 1 : ss[i] \in States
      BY <3>1
    <3>3. SubSeq(ss, 1, Len(ss) - 1) \in Seq(States)
      BY <3>2, SubSeqProperties
    <3> QED BY <3>3 DEF Pop
  <2> QED BY <2>1, <2>2
<1>4. Replace(ss, st) \in Seq(States)
  BY <1>1 DEF Replace
<1>5. \A luck \in Luck :
        PushState(s, st, luck) = IF s.ok THEN [s EXCEPT !.p = [s.p EXCEPT !.state_stack = Push(ss, st)]] ELSE s
  BY LuckGrows DEF PushState
<1>6. PopState(s) = IF s.ok THEN [s EXCEPT !.p = [s.p EXCEPT !.state_stack = Pop(ss)]] ELSE s
  BY DEF PopState
<1>7. MoveTo(s, st) = IF s.ok THEN [s EXCEPT !.p = [s.p EXCEPT !.state_stack = Replace(ss, st)]] ELSE s
  BY DEF MoveTo
<1> HIDE DEF ss
<1>8. \A luck \in Luck : Restacked(Q, V, s, PushState(s, st, luck), Push(ss, st))
  BY <1>2, <1>5, SetStack
<1>9. Restacked(Q, V, s, PopState(s), Pop(ss))
  BY <1>3, <1>6, SetStack
<1>10. Restacked(Q, V, s, MoveTo(s, st), Replace(ss, st))
  BY <1>4, <1>7, SetStack
<1> QED BY <1>8, <1>9, <1>10 DEF ss

-----------------------------------------------------------------------------
(* The states that a frame is moved to by begin_value and end_value. *)
Moves == {"TOP_LEVEL", "ARRAY_VALUE_BEGIN", "ARRAY_VALUE_END", "MAP_KEY_BEGIN",
          "MAP_KEY_END", "MAP_VALUE_BEGIN", "MAP_VALUE_END"}

(* The callback that announces a move makes the builder's frame follow. *)
LEMMA AnnounceFacts ==
  ASSUME NEW V, NEW x, Ind(V, x), NEW next \in Moves, NEW r, r = Announce(x, next)
  PROVE  /\ r.ok \in BOOLEAN
         /\ Ind(V, r.b)
         /\ SameTree(x, r.b)
         /\ r.b.container_stack = x.container_stack
         /\ next = "TOP_LEVEL" => r.ok /\ r.b = x
         /\ next # "TOP_LEVEL" /\ r.ok => r.b.state_stack = Replace(x.state_stack, next)
<1>1. ASSUME NEW valid_states, r = Move(x, valid_states, next), Ind(V, r.b), next # "TOP_LEVEL"
      PROVE  /\ r.ok \in BOOLEAN
             /\ SameTree(x, r.b)
             /\ r.b.container_stack = x.container_stack
             /\ r.ok => r.b.state_stack = Replace(x.state_stack, next)
  BY <1>1, MoveShape
<1>2. CASE next = "TOP_LEVEL"
  BY <1>2 DEF Announce, Succeeds, SameTree
<1>3. CASE next = "ARRAY_VALUE_BEGIN"
  <2>1. r = llsd_array_value_begin_fn(x) /\ Ind(V, r.b)
    BY <1>3, MovesKeepInd DEF Announce
  <2> QED BY <1>1, <1>3, <2>1 DEF llsd_array_value_begin_fn
<1>4. CASE next = "ARRAY_VALUE_END"
  <2>1. r = llsd_array_value_end_fn(x) /\ Ind(V, r.b)
    BY <1>4, MovesKeepInd DEF Announce
  <2> QED BY <1>1, <1>4, <2>1 DEF llsd_array_value_end_fn
<1>5. CASE next = "MAP_KEY_BEGIN"
  <2>1. r = llsd_map_key_begin_fn(x) /\ Ind(V, r.b)
    BY <1>5, MovesKeepInd DEF Announce
  <2> QED BY <1>1, <1>5, <2>1 DEF llsd_map_key_begin_fn
<1>6. CASE next = "MAP_KEY_END"
  <2>1. r = llsd_map_key_end_fn(x) /\ Ind(V, r.b)
    BY <1>6, MovesKeepInd DEF Announce
  <2> QED BY <1>1, <1>6, <2>1 DEF llsd_map_key_end_fn
<1>7. CASE next = "MAP_VALUE_BEGIN"
  <2>1. r = llsd_map_value_begin_fn(x) /\ Ind(V, r.b)
    BY <1>7, MovesKeepInd DEF Announce
  <2> QED BY <1>1, <1>7, <2>1 DEF llsd_map_value_begin_fn
<1>8. CASE next = "MAP_VALUE_END"
  <2>1. r = llsd_map_value_end_fn(x) /\ Ind(V, r.b)
    BY <1>8, MovesKeepInd DEF Announce
  <2> QED BY <1>1, <1>8, <2>1 DEF llsd_map_value_end_fn
<1> QED BY <1>2, <1>3, <1>4, <1>5, <1>6, <1>7, <1>8 DEF Moves

(* y is s after a frame has moved from a state to the one that follows in
   the table, on both stacks. *)
Stepped(s, y, valid_states, table) ==
  LET ss == s.p.state_stack
      st == Top(ss)
  IN  /\ s.ok
      /\ st \in valid_states
      /\ y.p = [s.p EXCEPT !.state_stack = Replace(ss, table[st])]
      /\ y.p.state_stack = Replace(ss, table[st])
      /\ SameTree(s.b, y.b)
      /\ y.b.container_stack = s.b.container_stack
      /\ InLockStep(ss, s.b.state_stack) =>
           /\ InLockStep(y.p.state_stack, y.b.state_stack)
           /\ y.b.state_stack = Replace(s.b.state_stack, table[st])

(* begin_value and end_value. *)
LEMMA StepRun ==
  ASSUME NEW Q, HasStack(Q), NEW V, NEW s, Run(Q, V, s),
         NEW table \in {BeginOf, EndOf}, NEW valid_states \in SUBSET (DOMAIN table),
         NEW y, y = Step(s, valid_states, table)
  PROVE  /\ Run(Q, V, y)
         /\ y.ok => Stepped(s, y, valid_states, table)
         /\ s.p.state_stack = << >> => y.p = s.p
<1> DEFINE ss == s.p.state_stack
           st == Top(ss)
           next == table[st]
<1>0. ss \in Seq(States) /\ s.b.state_stack \in Seq(States) /\ Ind(V, s.b)
  BY RunFields, IndParts DEF HasStack
<1>1. CASE ~(s.ok /\ st \in valid_states)
  <2>1. y = Stop(s)
    BY <1>1 DEF Step
  <2> QED BY <2>1, StopRun
<1>2. CASE s.ok /\ st \in valid_states
  <2> DEFINE r == Announce(s.b, next)
             c == Call(s, r)
  <2>1. /\ next \in Moves /\ next \in States
        /\ next = "TOP_LEVEL" => st = "TOP_LEVEL"
    BY <1>2 DEF BeginOf, EndOf, Moves, States, ArrayStates, MapStates
  <2>2. y = MoveTo(c, next)
    BY <1>2 DEF Step
  <2>3. ss # << >>
    BY <1>2 DEF Top, NoState, BeginOf, EndOf
  <2> HIDE DEF next
  <2>4. /\ r.ok \in BOOLEAN
        /\ Ind(V, r.b)
        /\ SameTree(s.b, r.b)
        /\ r.b.container_stack = s.b.container_stack
        /\ next = "TOP_LEVEL" => r.ok /\ r.b = s.b
        /\ next # "TOP_LEVEL" /\ r.ok => r.b.state_stack = Replace(s.b.state_stack, next)
    BY <1>0, <2>1, AnnounceFacts
  <2> HIDE DEF r
  <2>5. Run(Q, V, c) /\ c.p = s.p /\ (c.ok <=> s.ok /\ r.ok) /\ (c.ok => c.b = r.b)
    BY <2>4, CallRun
  <2> HIDE DEF c
  <2>6. Restacked(Q, V, c, y, Replace(ss, next))
    <3>1. Restacked(Q, V, c, MoveTo(c, next), Replace(c.p.state_stack, next))
      BY <2>1, <2>5, StackRuns
    <3> QED BY <2>2, <2>5, <3>1
  <2>7. ASSUME y.ok PROVE Stepped(s, y, valid_states, table)
    <3>1. /\ r.ok /\ c.ok /\ y.b = r.b
          /\ y.p = [s.p EXCEPT !.state_stack = Replace(ss, next)]
          /\ y.p.state_stack = Replace(ss, next)
      BY <2>5, <2>6, <2>7 DEF Restacked
    <3>2. ASSUME InLockStep(ss, s.b.state_stack)
          PROVE  /\ InLockStep(y.p.state_stack, y.b.state_stack)
                 /\ y.b.state_stack = Replace(s.b.state_stack, next)
      <4>1. y.b.state_stack = Replace(s.b.state_stack, next)
        <5>1. CASE next # "TOP_LEVEL"
          BY <2>4, <3>1, <5>1
        <5>2. CASE next = "TOP_LEVEL"
          <6>1. Len(s.b.state_stack) > 0 /\ Top(s.b.state_stack) = "TOP_LEVEL"
            <7>1. /\ Len(ss) > 0 /\ Len(s.b.state_stack) = Len(ss)
                  /\ s.b.state_stack[Len(ss)] = ss[Len(ss)]
              BY <3>2 DEF InLockStep
            <7>2. Top(ss) = ss[Len(ss)]
              BY <1>0, <7>1, TopFacts
            <7>3. Len(s.b.state_stack) > 0
              BY <7>1
            <7>4. Top(s.b.state_stack) = s.b.state_stack[Len(s.b.state_stack)]
              BY <1>0, <7>3, TopFacts
            <7> QED BY <2>1, <5>2, <7>1, <7>2, <7>3, <7>4
          <6>2. Replace(s.b.state_stack, Top(s.b.state_stack)) = s.b.state_stack
            BY <1>0, <6>1, ReplaceSame
          <6> QED BY <2>4, <3>1, <5>2, <6>1, <6>2
        <5> QED BY <5>1, <5>2
      <4>2. InLockStep(Replace(ss, next), Replace(s.b.state_stack, next))
        BY <1>0, <2>1, <3>2, LockReplace
      <4> QED BY <3>1, <4>1, <4>2
    <3> HIDE DEF ss
    <3> QED BY <1>2, <2>4, <3>1, <3>2 DEF Stepped, next, ss
  <2>8. Run(Q, V, y)
    BY <2>6 DEF Restacked
  <2> QED BY <2>3, <2>7, <2>8
<1> QED BY <1>1, <1>2


(* The innermost frames of stacks in lock step are equal. *)
LEMMA LockTop ==
  ASSUME NEW s \in Seq(States), NEW t \in Seq(States), InLockStep(s, t)
  PROVE  Len(s) > 0 /\ Len(t) = Len(s) /\ Top(t) = Top(s)
<1>1. /\ Len(s) > 0 /\ Len(t) = Len(s) /\ Len(t) > 0
      /\ t[Len(s)] = s[Len(s)]
  BY DEF InLockStep
<1>2. Top(s) = s[Len(s)] /\ Top(t) = t[Len(t)]
  BY <1>1, TopFacts
<1> QED BY <1>1, <1>2

(* A builder that has taken a value has moved its frame as a value does. *)
LEMMA TakenTop ==
  ASSUME NEW V, NEW x, Ind(V, x), NEW y, NEW kind, NEW val, Taken(x, y, kind, val)
  PROVE  /\ Top(x.state_stack) \in STRING_STATES
         /\ y.state_stack = Replace(x.state_stack, ValueOf[Top(x.state_stack)])
<1>1. x.state_stack \in Seq(States) /\ Len(x.state_stack) > 0
  BY IndParts
<1>2. Replace(x.state_stack, Top(x.state_stack)) = x.state_stack
  BY <1>1, ReplaceSame
<1>3. CASE AtTop(x, y, Len(x.heap) + 1)
  <2>1. Top(x.state_stack) = "TOP_LEVEL" /\ y.state_stack = x.state_stack
    BY <1>3 DEF AtTop
  <2>2. ValueOf["TOP_LEVEL"] = "TOP_LEVEL"
    BY DEF ValueOf
  <2> QED BY <1>2, <2>1, <2>2 DEF STRING_STATES, VALUE_STATES
<1>4. CASE AsKey(x, y, Len(x.heap) + 1)
  BY <1>4 DEF AsKey, STRING_STATES, ValueOf
<1>5. CASE InArray(x, y)
  BY <1>5 DEF InArray, STRING_STATES, VALUE_STATES, ValueOf
<1>6. CASE InMap(x, y)
  BY <1>6 DEF InMap, STRING_STATES, VALUE_STATES, ValueOf
<1> QED BY <1>3, <1>4, <1>5, <1>6 DEF Taken

(* The callback that gives the builder a scalar, a string or a container. *)
LEMMA GiveRun ==
  ASSUME NEW Q, NEW V, NEW s, Run(Q, V, s),
         NEW kind \in Kinds, NEW val \in V \union {"none"},
         NEW valid_states \in {VALUE_STATES, STRING_STATES},
         valid_states = STRING_STATES => kind = "string",
         NEW luck \in Luck, NEW r, r = Deliver(s.b, kind, val, valid_states, luck),
         NEW y, y = Call(s, r)
  PROVE  /\ Run(Q, V, y)
         /\ y.p = s.p
         /\ y.ok => s.ok /\ Taken(s.b, y.b, kind, val)
<1>1. Ind(V, s.b)
  BY RunFields
<1>2. Ind(V, r.b)
  BY <1>1, DeliverInd DEF Offered
<1>3. /\ r.ok \in BOOLEAN
      /\ r.ok => Taken(s.b, r.b, kind, val)
  BY <1>1, DeliverShape
<1>4. Run(Q, V, y) /\ y.p = s.p /\ (y.ok <=> s.ok /\ r.ok) /\ (y.ok => y.b = r.b)
  BY <1>2, <1>3, CallRun
<1> QED BY <1>3, <1>4

(* value, which notes in the parser's frame that a value has been given. *)
LEMMA NoteRun ==
  ASSUME NEW Q, HasStack(Q), NEW V, NEW s, Run(Q, V, s),
         NEW valid_states \in {VALUE_STATES, STRING_STATES},
         NEW st, st = Top(s.p.state_stack),
         NEW y, y = value(s, valid_states)
  PROVE  /\ Run(Q, V, y)
         /\ y.ok => /\ s.ok
                    /\ st \in valid_states
                    /\ y.b = s.b
                    /\ y.p = [s.p EXCEPT !.state_stack = Replace(s.p.state_stack, ValueOf[st])]
                    /\ y.p.state_stack = Replace(s.p.state_stack, ValueOf[st])
<1>1. CASE ~(s.ok /\ st \in valid_states)
  <2>1. y = Stop(s)
    BY <1>1 DEF value
  <2> QED BY <2>1, StopRun
<1>2. CASE s.ok /\ st \in valid_states
  <2>1. ValueOf[st] \in States
    BY <1>2, CoveredStates
  <2>2. y = MoveTo(s, ValueOf[st])
    BY <1>2 DEF value
  <2>3. Restacked(Q, V, s, y, Replace(s.p.state_stack, ValueOf[st]))
    BY <2>1, <2>2, StackRuns
  <2> QED BY <1>2, <2>3 DEF Restacked
<1> QED BY <1>1, <1>2

(* y is s after a value has been given to the builder and noted. *)
Valued(s, y, kind, val, valid_states) ==
  LET ss == s.p.state_stack
      st == Top(ss)
  IN  /\ s.ok
      /\ st \in valid_states
      /\ Taken(s.b, y.b, kind, val)
      /\ y.p = [s.p EXCEPT !.state_stack = Replace(ss, ValueOf[st])]
      /\ y.p.state_stack = Replace(ss, ValueOf[st])
      /\ InLockStep(ss, s.b.state_stack) => InLockStep(y.p.state_stack, y.b.state_stack)

(* A value handed to the builder and then recorded by the parser's value(): the
   run stays well formed, and if it goes on both sides have moved as Valued says. *)
LEMMA ValueRun ==
  ASSUME NEW Q, HasStack(Q), NEW V, NEW s, Run(Q, V, s),
         NEW kind \in Kinds, NEW val \in V \union {"none"},
         NEW valid_states \in {VALUE_STATES, STRING_STATES},
         valid_states = STRING_STATES => kind = "string",
         NEW luck \in Luck,
         NEW c, c = Call(s, Deliver(s.b, kind, val, valid_states, luck)),
         NEW y, y = value(c, valid_states)
  PROVE  Run(Q, V, y) /\ (y.ok => Valued(s, y, kind, val, valid_states))
<1> DEFINE ss == s.p.state_stack
           st == Top(ss)
<1>1. Run(Q, V, c) /\ c.p = s.p /\ (c.ok => s.ok /\ Taken(s.b, c.b, kind, val))
  BY GiveRun
<1>2. /\ Run(Q, V, y)
      /\ y.ok => /\ c.ok /\ y.b = c.b
                 /\ st \in valid_states
                 /\ y.p = [s.p EXCEPT !.state_stack = Replace(ss, ValueOf[st])]
                 /\ y.p.state_stack = Replace(ss, ValueOf[st])
  <2>1. /\ Run(Q, V, y)
        /\ y.ok => /\ c.ok
                   /\ Top(c.p.state_stack) \in valid_states
                   /\ y.b = c.b
                   /\ y.p = [c.p EXCEPT !.state_stack =
                                Replace(c.p.state_stack, ValueOf[Top(c.p.state_stack)])]
                   /\ y.p.state_stack = Replace(c.p.state_stack, ValueOf[Top(c.p.state_stack)])
    BY SMTT(30), <1>1, NoteRun
  <2> QED BY <1>1, <2>1
<1>3. ASSUME y.ok, InLockStep(ss, s.b.state_stack)
      PROVE  InLockStep(y.p.state_stack, y.b.state_stack)
  <2>1. ss \in Seq(States) /\ s.b.state_stack \in Seq(States) /\ Ind(V, s.b)
    BY RunFields, IndParts DEF HasStack
  <2>2. Top(s.b.state_stack) = st
    BY <1>3, <2>1, LockTop
  <2>3. /\ st \in STRING_STATES
        /\ y.b.state_stack = Replace(s.b.state_stack, ValueOf[st])
    BY <1>1, <1>2, <1>3, <2>1, <2>2, TakenTop
  <2>4. ValueOf[st] \in States
    BY <2>3, CoveredStates
  <2>5. InLockStep(Replace(ss, ValueOf[st]), Replace(s.b.state_stack, ValueOf[st]))
    BY <1>3, <2>1, <2>4, LockReplace
  <2> QED BY <1>2, <1>3, <2>3, <2>5
<1> QED BY <1>1, <1>2, <1>3 DEF Valued

(* y is s after a container has been given to the builder and begun. *)
Begun(V, s, y, kind, first) ==
  LET ss == s.p.state_stack
  IN  /\ s.ok
      /\ Opened(V, s.b, y.b, kind, first)
      /\ y.p = [s.p EXCEPT !.state_stack = Push(ss, first)]
      /\ y.p.state_stack = Push(ss, first)
      /\ InLockStep(ss, s.b.state_stack) => InLockStep(y.p.state_stack, y.b.state_stack)

(* A container begun by the builder, whose state the parser then pushes: if the
   run goes on, each side has one frame more, of the same container. *)
LEMMA BeginRun ==
  ASSUME NEW Q, HasStack(Q), NEW V, NEW s, Run(Q, V, s),
         NEW kind \in {"array", "map"},
         NEW first, first = IF kind = "array" THEN "ARRAY_BEGIN" ELSE "MAP_BEGIN",
         NEW luck \in Luck,
         NEW c, c = Call(s, OpenContainer(s.b, kind, first, luck)),
         NEW y, y = PushState(c, first, luck)
  PROVE  Run(Q, V, y) /\ (y.ok => Begun(V, s, y, kind, first))
<1> DEFINE ss == s.p.state_stack
           r  == OpenContainer(s.b, kind, first, luck)
<1>0. ss \in Seq(States) /\ s.b.state_stack \in Seq(States) /\ Ind(V, s.b)
  BY RunFields, IndParts DEF HasStack
<1>1. first \in States
  BY DEF States, ArrayStates, MapStates
<1>2. Ind(V, r.b)
  <2>1. Ind(V, llsd_array_begin_fn(s.b, luck).b) /\ Ind(V, llsd_map_begin_fn(s.b, luck).b)
    BY <1>0, OpeningsKeepInd
  <2>2. CASE kind = "array"
    BY <2>1, <2>2 DEF llsd_array_begin_fn
  <2>3. CASE kind = "map"
    BY <2>1, <2>3 DEF llsd_map_begin_fn
  <2> QED BY <2>2, <2>3
<1>3. r.ok \in BOOLEAN /\ (r.ok => Opened(V, s.b, r.b, kind, first))
  BY <1>0, OpenShape
<1> HIDE DEF r
<1>4. Run(Q, V, c) /\ c.p = s.p /\ (c.ok <=> s.ok /\ r.ok) /\ (c.ok => c.b = r.b)
  BY <1>2, <1>3, CallRun DEF r
<1>5. Restacked(Q, V, c, y, Push(ss, first))
  <2>1. Restacked(Q, V, c, PushState(c, first, luck), Push(c.p.state_stack, first))
    BY <1>1, <1>4, StackRuns
  <2> QED BY <1>4, <2>1
<1>6. Run(Q, V, y)
  BY <1>5 DEF Restacked
<1>7. ASSUME y.ok
      PROVE  /\ s.ok /\ Opened(V, s.b, y.b, kind, first)
             /\ y.p = [s.p EXCEPT !.state_stack = Push(ss, first)]
             /\ y.p.state_stack = Push(ss, first)
  BY <1>3, <1>4, <1>5, <1>7 DEF Restacked
<1>8. ASSUME y.ok, InLockStep(ss, s.b.state_stack)
      PROVE  InLockStep(y.p.state_stack, y.b.state_stack)
  <2>1. PICK d : /\ Ind(V, d) /\ Taken(s.b, d, kind, "none")
                 /\ Top(s.b.state_stack) \in VALUE_STATES
                 /\ y.b.state_stack = Push(d.state_stack, first)
    BY <1>7, <1>8 DEF Opened
  <2>2. Top(s.b.state_stack) = Top(ss)
    BY <1>0, <1>8, LockTop
  <2>3. d.state_stack = Replace(s.b.state_stack, ValueOf[Top(ss)]) /\ d.state_stack \in Seq(States)
    BY <1>0, <2>1, <2>2, TakenTop, IndParts
  <2>4. AllCovered(ss, d.state_stack)
    BY <1>0, <1>8, <2>1, <2>2, <2>3, LockCover
  <2>5. InLockStep(Push(ss, first), Push(d.state_stack, first))
    BY <1>0, <1>1, <2>3, <2>4, CoverPush
  <2> QED BY <1>7, <1>8, <2>1, <2>5
<1> QED BY <1>6, <1>7, <1>8 DEF Begun

(* The states in which a container can be closed. *)
ClosingStates(valid_states) ==
  valid_states = {"ARRAY_BEGIN", "ARRAY_VALUE_END"} \/ valid_states = {"MAP_BEGIN", "MAP_VALUE_END"}

(* The callback that closes a container. *)
LEMMA CloseRun ==
  ASSUME NEW Q, NEW V, NEW s, Run(Q, V, s),
         NEW valid_states, ClosingStates(valid_states),
         NEW y, y = Call(s, CloseContainer(s.b, valid_states))
  PROVE  /\ Run(Q, V, y)
         /\ y.p = s.p
         /\ y.ok => /\ s.ok
                    /\ Top(s.b.state_stack) \in valid_states
                    /\ Len(s.b.state_stack) > 1
                    /\ SameTree(s.b, y.b)
                    /\ y.b.container_stack = Pop(s.b.container_stack)
                    /\ y.b.state_stack = Pop(s.b.state_stack)
<1> DEFINE r == CloseContainer(s.b, valid_states)
<1>0. Ind(V, s.b)
  BY RunFields
<1>1. Ind(V, r.b)
  <2>1. Ind(V, llsd_array_end_fn(s.b).b) /\ Ind(V, llsd_map_end_fn(s.b).b)
    BY <1>0, MovesKeepInd
  <2> QED BY <2>1 DEF ClosingStates, llsd_array_end_fn, llsd_map_end_fn
<1>2. /\ r.ok \in BOOLEAN
      /\ r.ok <=> Top(s.b.state_stack) \in valid_states
      /\ SameTree(s.b, r.b)
      /\ r.b.container_stack = IF r.ok THEN Pop(s.b.container_stack) ELSE s.b.container_stack
      /\ r.b.state_stack = IF r.ok THEN Pop(s.b.state_stack) ELSE s.b.state_stack
  BY <1>0, CloseShape
<1> HIDE DEF r
<1>3. Run(Q, V, y) /\ y.p = s.p /\ (y.ok <=> s.ok /\ r.ok) /\ (y.ok => y.b = r.b)
  BY <1>1, <1>2, CallRun DEF r
<1>4. ASSUME y.ok PROVE Len(s.b.state_stack) > 1
  <2>1. /\ s.b.state_stack \in Seq(States) /\ Len(s.b.state_stack) > 0
        /\ s.b.state_stack[1] = "TOP_LEVEL"
    BY <1>0, IndParts DEF Ind, Frames
  <2>2. Top(s.b.state_stack) = s.b.state_stack[Len(s.b.state_stack)]
    BY <2>1, TopFacts
  <2>3. Top(s.b.state_stack) # "TOP_LEVEL"
    BY <1>2, <1>3, <1>4 DEF ClosingStates
  <2>4. Len(s.b.state_stack) # 1
    BY <2>1, <2>2, <2>3
  <2>5. Len(s.b.state_stack) \in Nat /\ Len(s.b.state_stack) > 0
    BY <2>1
  <2>6. \A n \in Nat : n > 0 /\ n # 1 => n > 1
    OBVIOUS
  <2> QED BY ONLY <2>4, <2>5, <2>6
<1> QED BY <1>2, <1>3, <1>4

-----------------------------------------------------------------------------
(* A run whose stacks are in lock step unless a check has failed. *)
Locked(Q, V, s) ==
  Run(Q, V, s) /\ (s.ok => InLockStep(s.p.state_stack, s.b.state_stack))

(* begin_value and end_value keep the stacks in lock step; afterwards the
   frame is in a state of the table. *)
LEMMA StepLocked ==
  ASSUME NEW Q, HasStack(Q), NEW V, NEW s, Locked(Q, V, s),
         NEW table \in {BeginOf, EndOf}, NEW valid_states \in SUBSET (DOMAIN table),
         NEW y, y = Step(s, valid_states, table)
  PROVE  /\ Locked(Q, V, y)
         /\ y.ok => /\ s.ok
                    /\ \E st \in valid_states : Top(y.p.state_stack) = table[st]
<1>1. Run(Q, V, y) /\ (y.ok => Stepped(s, y, valid_states, table))
  BY StepRun DEF Locked
<1>2. Locked(Q, V, y)
  BY <1>1 DEF Locked, Stepped
<1>3. ASSUME y.ok
      PROVE  s.ok /\ \E st \in valid_states : Top(y.p.state_stack) = table[st]
  <2> DEFINE st == Top(s.p.state_stack)
  <2>1. /\ s.ok /\ st \in valid_states
        /\ y.p.state_stack = Replace(s.p.state_stack, table[st])
    BY <1>1, <1>3 DEF Stepped
  <2>2. s.p.state_stack \in Seq(States)
    BY RunFields DEF Locked, HasStack
  <2>3. table[st] \in States
    BY <2>1 DEF BeginOf, EndOf, States, ArrayStates, MapStates
  <2>4. Top(Replace(s.p.state_stack, table[st])) = table[st]
    BY <2>2, <2>3 DEF Replace, Top
  <2> QED BY <2>1, <2>4
<1> QED BY <1>2, <1>3

(* So does giving the builder a scalar or a string and noting it. *)
LEMMA ValueLocked ==
  ASSUME NEW Q, HasStack(Q), NEW V, NEW s, Locked(Q, V, s),
         NEW kind \in Kinds, NEW val \in V \union {"none"},
         NEW valid_states \in {VALUE_STATES, STRING_STATES},
         valid_states = STRING_STATES => kind = "string",
         NEW luck \in Luck,
         NEW y, y = value(Call(s, Deliver(s.b, kind, val, valid_states, luck)), valid_states)
  PROVE  Locked(Q, V, y) /\ (y.ok => s.ok)
<1>1. Run(Q, V, y) /\ (y.ok => Valued(s, y, kind, val, valid_states))
  BY ValueRun DEF Locked
<1> QED BY <1>1 DEF Locked, Valued

(* So does beginning a container, which gets a frame on both stacks. *)
LEMMA BeginLocked ==
  ASSUME NEW Q, HasStack(Q), NEW V, NEW s, Locked(Q, V, s), NEW luck \in Luck
  PROVE  LET a == PushState(Call(s, llsd_array_begin_fn(s.b, luck)), "ARRAY_BEGIN", luck)
             m == PushState(Call(s, llsd_map_begin_fn(s.b, luck)), "MAP_BEGIN", luck)
         IN  /\ Locked(Q, V, a)
             /\ a.ok => Begun(V, s, a, "array", "ARRAY_BEGIN") /\ Top(a.p.state_stack) = "ARRAY_BEGIN"
             /\ Locked(Q, V, m)
             /\ m.ok => Begun(V, s, m, "map", "MAP_BEGIN") /\ Top(m.p.state_stack) = "MAP_BEGIN"
<1>1. ASSUME NEW kind \in {"array", "map"},
             NEW first, first = IF kind = "array" THEN "ARRAY_BEGIN" ELSE "MAP_BEGIN",
             NEW y, y = PushState(Call(s, OpenContainer(s.b, kind, first, luck)), first, luck)
      PROVE  Locked(Q, V, y) /\ (y.ok => Begun(V, s, y, kind, first) /\ Top(y.p.state_stack) = first)
  <2>1. Run(Q, V, y) /\ (y.ok => Begun(V, s, y, kind, first))
    BY <1>1, BeginRun DEF Locked
  <2>2. ASSUME y.ok PROVE Top(y.p.state_stack) = first
    <3>1. /\ s.p.state_stack \in Seq(States) /\ y.p.state_stack = Push(s.p.state_stack, first)
          /\ first \in States
      BY <1>1, <2>1, <2>2, RunFields DEF Locked, HasStack, Begun, States, ArrayStates, MapStates
    <3> QED BY <3>1 DEF Top, Push
  <2> QED BY <2>1, <2>2 DEF Locked, Begun
<1> DEFINE a == PushState(Call(s, OpenContainer(s.b, "array", "ARRAY_BEGIN", luck)), "ARRAY_BEGIN", luck)
           m == PushState(Call(s, OpenContainer(s.b, "map", "MAP_BEGIN", luck)), "MAP_BEGIN", luck)
<1>2. /\ Locked(Q, V, a)
      /\ a.ok => Begun(V, s, a, "array", "ARRAY_BEGIN") /\ Top(a.p.state_stack) = "ARRAY_BEGIN"
  BY <1>1
<1>3. /\ Locked(Q, V, m)
      /\ m.ok => Begun(V, s, m, "map", "MAP_BEGIN") /\ Top(m.p.state_stack) = "MAP_BEGIN"
  BY <1>1
<1> QED BY <1>2, <1>3 DEF llsd_array_begin_fn, llsd_map_begin_fn

(* What y did to both stacks, it did to both; s need not be in lock step. *)
Follows(Q, V, s, y) ==
  /\ Run(Q, V, y)
  /\ y.ok => /\ s.ok
             /\ InLockStep(s.p.state_stack, s.b.state_stack) =>
                  InLockStep(y.p.state_stack, y.b.state_stack)

(* One handler's parts follow each other. *)
LEMMA FollowsOn ==
  ASSUME NEW Q, NEW V, NEW s, NEW y, Follows(Q, V, s, y), NEW z, Follows(Q, V, y, z)
  PROVE  Follows(Q, V, s, z)
  BY DEF Follows

(* begin_value, end_value, a value given and noted, and a container begun do
   the same to both stacks. *)
LEMMA StepFollows ==
  ASSUME NEW Q, HasStack(Q), NEW V, NEW s, Run(Q, V, s),
         NEW table \in {BeginOf, EndOf}, NEW valid_states \in SUBSET (DOMAIN table),
         NEW y, y = Step(s, valid_states, table)
  PROVE  Follows(Q, V, s, y)
<1>1. Run(Q, V, y) /\ (y.ok => Stepped(s, y, valid_states, table))
  BY StepRun
<1> QED BY <1>1 DEF Follows, Stepped

(* Delivering a value is one of the moves that keep the stacks in lock step. *)
LEMMA ValueFollows ==
  ASSUME NEW Q, HasStack(Q), NEW V, NEW s, Run(Q, V, s),
         NEW kind \in Kinds, NEW val \in V \union {"none"},
         NEW valid_states \in {VALUE_STATES, STRING_STATES},
         valid_states = STRING_STATES => kind = "string",
         NEW luck \in Luck,
         NEW y, y = value(Call(s, Deliver(s.b, kind, val, valid_states, luck)), valid_states)
  PROVE  Follows(Q, V, s, y)
<1>1. Run(Q, V, y) /\ (y.ok => Valued(s, y, kind, val, valid_states))
  BY ValueRun
<1> QED BY <1>1 DEF Follows, Valued

(* So is beginning a container. *)
LEMMA BeginFollows ==
  ASSUME NEW Q, HasStack(Q), NEW V, NEW s, Run(Q, V, s),
         NEW kind \in {"array", "map"},
         NEW first, first = IF kind = "array" THEN "ARRAY_BEGIN" ELSE "MAP_BEGIN",
         NEW luck \in Luck,
         NEW y, y = PushState(Call(s, OpenContainer(s.b, kind, first, luck)), first, luck)
  PROVE  Follows(Q, V, s, y)
<1>1. Run(Q, V, y) /\ (y.ok => Begun(V, s, y, kind, first))
  BY BeginRun
<1> QED BY <1>1 DEF Follows, Begun

(* So does closing a container, as the binary and the XML parser do: the
   builder is asked first, then the frame is popped and the value noted. *)
LEMMA CloseFollows ==
  ASSUME NEW Q, HasStack(Q), NEW V, NEW s, Run(Q, V, s),
         NEW valid_states, ClosingStates(valid_states),
         NEW y, y = value(PopState(Call(s, CloseContainer(s.b, valid_states))), VALUE_STATES)
  PROVE  Follows(Q, V, s, y)
<1> DEFINE ss == s.p.state_stack
           c  == Call(s, CloseContainer(s.b, valid_states))
           q  == PopState(c)
<1>0. ss \in Seq(States) /\ s.b.state_stack \in Seq(States) /\ Run(Q, V, s)
  BY RunFields, IndParts DEF HasStack
<1>1. /\ Run(Q, V, c)
      /\ c.p = s.p
      /\ c.ok => /\ s.ok
                 /\ Len(s.b.state_stack) > 1
                 /\ c.b.state_stack = Pop(s.b.state_stack)
  BY <1>0, CloseRun
<1> HIDE DEF c
<1>2. Restacked(Q, V, c, q, Pop(ss))
  <2>1. "TOP_LEVEL" \in States
    BY DEF States
  <2>2. Restacked(Q, V, c, PopState(c), Pop(c.p.state_stack))
    BY <1>1, <2>1, StackRuns
  <2> QED BY <1>1, <2>2
<1>3. /\ Run(Q, V, q)
      /\ q.ok => c.ok /\ q.b = c.b /\ q.p.state_stack = Pop(ss)
  BY <1>2 DEF Restacked
<1> HIDE DEF q
<1>4. /\ Run(Q, V, y)
      /\ y.ok => /\ q.ok
                 /\ y.b = q.b
                 /\ y.p.state_stack = Replace(q.p.state_stack, ValueOf[Top(q.p.state_stack)])
  <2>1. VALUE_STATES \in {VALUE_STATES, STRING_STATES} /\ y = value(q, VALUE_STATES)
    BY DEF q, c
  <2>2. \A st : st = Top(q.p.state_stack) =>
          /\ Run(Q, V, y)
          /\ y.ok => /\ q.ok
                     /\ st \in VALUE_STATES
                     /\ y.b = q.b
                     /\ y.p = [q.p EXCEPT !.state_stack = Replace(q.p.state_stack, ValueOf[st])]
                     /\ y.p.state_stack = Replace(q.p.state_stack, ValueOf[st])
    BY <1>3, <2>1, NoteRun
  <2> HIDE DEF q
  <2> QED BY <2>2
<1>5. ASSUME y.ok, InLockStep(ss, s.b.state_stack)
      PROVE  InLockStep(y.p.state_stack, y.b.state_stack)
  <2>1. /\ InLockStep(ss, s.b.state_stack)
        /\ Len(s.b.state_stack) > 1
        /\ y.b.state_stack = Pop(s.b.state_stack)
        /\ y.p.state_stack = Replace(Pop(ss), ValueOf[Top(Pop(ss))])
    BY <1>1, <1>3, <1>4, <1>5
  <2>2. Len(ss) > 1 /\ Len(ss) > 0 /\ Len(s.b.state_stack) > 0
    BY <1>0, <2>1 DEF InLockStep
  <2>3. AllCovered(Pop(ss), Pop(s.b.state_stack))
    BY <1>0, <2>1, <2>2, LockPop
  <2>4. Pop(ss) \in Seq(States) /\ Pop(s.b.state_stack) \in Seq(States)
    BY <1>0, <2>2, PopFacts
  <2>5. InLockStep(Replace(Pop(ss), ValueOf[Top(Pop(ss))]), Pop(s.b.state_stack))
    BY <2>3, <2>4, CoverValue
  <2> QED BY <2>1, <2>5
<1> QED BY <1>1, <1>3, <1>4, <1>5 DEF Follows

(* And so closing a container keeps the stacks in lock step. *)
LEMMA CloseLocked ==
  ASSUME NEW Q, HasStack(Q), NEW V, NEW s, Locked(Q, V, s),
         NEW valid_states, ClosingStates(valid_states),
         NEW y, y = value(PopState(Call(s, CloseContainer(s.b, valid_states))), VALUE_STATES)
  PROVE  Locked(Q, V, y) /\ (y.ok => s.ok)
<1>1. Follows(Q, V, s, y)
  BY CloseFollows DEF Locked
<1> QED BY <1>1 DEF Locked, Follows
====
