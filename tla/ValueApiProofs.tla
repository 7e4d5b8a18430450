--------------------------- MODULE ValueApiProofs ---------------------------
(***************************************************************************)
(* What every lawful program that uses the functions of llsd.c on values   *)
(* can rely on: no value is released twice or used after it, llsd_equal is *)
(* equality of shapes, and conversions come back as long as their storage  *)
(* is not needed again.                                                    *)
(*                                                                         *)
(* The argument is about heaps, h, as such.  Ranked says that the values   *)
(* form no cycle, whatever is appended, taken out and inserted: it is what *)
(* the recursive definitions of Below, llsd_equal and Shape stand on.      *)
(* HeldOnce says that a live value is held at one place of one live        *)
(* container, which makes the trees of a container's items disjoint, so    *)
(* that releasing them meets nothing twice.  NoKeyTwice is what lets       *)
(* llsd_equal look up the left map's keys only.  Remembered follows every  *)
(* conversion's result from the storage it points to into the string or    *)
(* binary that is made of it.                                              *)
(***************************************************************************)
EXTENDS ValueApi, FiniteSetTheorems, SequenceTheorems, WellFoundedInduction, TLAPS

-----------------------------------------------------------------------------
(* What the definitions of ValueApi say of heap, said of any heap h. *)
KidsIn(h, o) == ToSet(h[o].kids)
LiveIn(h) == {o \in DOMAIN h : h[o].freed = 0}
PairsIn(h, m) == {2 * i - 1 : i \in 1 .. Len(h[m].kids) \div 2}
KeyIn(h, m, i) == Text(h[h[m].kids[i]].content)
BelowStep(h, o, B) == {o} \union UNION {B[k] : k \in KidsIn(h, o)}
BelowIn(h) == LET B[o \in DOMAIN h] == BelowStep(h, o, B) IN B

(* r ranks every object of h above what it holds. *)
Ranks(h, r, n) ==
  /\ r \in [DOMAIN h -> 0 .. n]
  /\ \A o \in DOMAIN h : \A k \in KidsIn(h, o) : k \in DOMAIN h /\ r[k] < r[o]
Ranked(h) == \E n \in Nat : \E r \in [DOMAIN h -> 0 .. n] : Ranks(h, r, n)

(* Nothing is released twice, and what is in use holds what is in use, each
   at one place. *)
HeldOnce(h) ==
  /\ \A o \in DOMAIN h : h[o].freed <= 1
  /\ \A c \in LiveIn(h) : KidsIn(h, c) \subseteq LiveIn(h)
  /\ \A c \in LiveIn(h) : \A i, j \in DOMAIN h[c].kids : h[c].kids[i] = h[c].kids[j] => i = j
  /\ \A c, d \in LiveIn(h) : c # d => KidsIn(h, c) \intersect KidsIn(h, d) = {}

(* The keys of a map differ. *)
KeysDiffer(h, m) ==
  \A i, j \in PairsIn(h, m) : KeyIn(h, m, i) = KeyIn(h, m, j) => i = j
NoKeyTwice(h) == \A m \in DOMAIN h : h[m].kind = "map" => KeysDiffer(h, m)

(* What an object may hold, and which are made of conversions' results. *)
Contents(h) ==
  \A o \in DOMAIN h :
    IF h[o].made = <<0, 0>>
    THEN h[o].content.of = h[o].kind /\ Carries(h[o].kind, h[o].content.val)
    ELSE h[o].kind \in {"string", "binary"}

Sound(h) ==
  /\ h \in Seq(ObjectType)
  /\ Formed(h)
  /\ Ranked(h)
  /\ HeldOnce(h)
  /\ NoKeyTwice(h)
  /\ Contents(h)

(* Where a conversion puts its result. *)
Places == {"buf", "dummy", "be32", Own}
PlaceOf(call, kind) ==
  IF kind \in {"string", "uri", "binary"} THEN Own
  ELSE IF call = "as_string" THEN "buf"
  ELSE IF kind = "boolean" THEN "dummy" ELSE "be32"

CallType == [call : {"as_string", "as_binary"}, obj : Nat, at : Places]

(* The conversions made of values of h. *)
Calls(h, cs) ==
  /\ cs \in Seq(CallType)
  /\ \A i \in DOMAIN cs :
       /\ cs[i].obj \in DOMAIN h
       /\ cs[i].at = PlaceOf(cs[i].call, h[cs[i].obj].kind)
       /\ cs[i].call = "as_binary" => h[cs[i].obj].kind \in HasBinary

KindIn(h, c) == h[c.obj].kind
OverwritesIn(h, later, c) ==
  /\ later.call = c.call
  /\ IF c.call = "as_string" THEN KindIn(h, c) \notin {"string", "uri", "binary"}
     ELSE KindIn(h, c) \in {"boolean", "integer"} /\ KindIn(h, later) = KindIn(h, c)
FreshIn(h, cs, i, n) == \A j \in i + 1 .. n : ~OverwritesIn(h, cs[j], cs[i])
PointsIn(h, st, c) == IF c.at = Own THEN h[c.obj].content ELSE st[c.at]

(* The i-th result still holds what was converted if nothing overwrote it. *)
Remembered(h, st, cs) ==
  \A i \in DOMAIN cs :
    KindIn(h, cs[i]) \in Convertible /\ FreshIn(h, cs, i, Len(cs))
      => PointsIn(h, st, cs[i]) = h[cs[i].obj].content

(* And what was made of the i-th of n results holds what was converted. *)
MadeAt(h, cs, content, i, n) ==
  /\ n \in 1 .. Len(cs) /\ i \in 1 .. n
  /\ KindIn(h, cs[i]) \in Convertible /\ FreshIn(h, cs, i, n)
       => content = h[cs[i].obj].content
MadeOf(h, cs) ==
  \A o \in DOMAIN h :
    h[o].made # <<0, 0>> => MadeAt(h, cs, h[o].content, h[o].made[1], h[o].made[2])

StaticType(st) == st \in [{"buf", "dummy", "be32"} -> ContentType]

Inv ==
  /\ Sound(heap)
  /\ StaticType(static)
  /\ Calls(heap, calls)
  /\ Remembered(heap, static, calls)
  /\ MadeOf(heap, calls)
-----------------------------------------------------------------------------
(* The least element of a set of numbers, by which the arguments about the
   recursive definitions go: where one first fails, its equation holds. *)
LEMMA LeastNumber ==
  ASSUME NEW T, T \subseteq Nat, T # {}
  PROVE  \E n \in T : \A m \in T : n <= m
<1>1. PICK n \in T : \A m \in T : ~(<<m, n>> \in OpToRel(<, Nat))
  BY NatLessThanWellFounded, WFMin
<1>2. \A m \in T : ~(m < n)
  BY <1>1 DEF OpToRel
<1> QED BY <1>2

(* A set of objects has one of the lowest rank. *)
LEMMA LowestRank ==
  ASSUME NEW h, NEW n \in Nat, NEW r, Ranks(h, r, n), NEW S, S \subseteq DOMAIN h, S # {}
  PROVE  \E o \in S : \A p \in S : r[o] <= r[p]
<1> DEFINE T == {r[o] : o \in S}
<1>1. T \subseteq Nat /\ T # {}
  BY DEF Ranks
<1>2. PICK t \in T : \A u \in T : t <= u
  <2> HIDE DEF T
  <2> QED BY <1>1, LeastNumber
<1> QED BY <1>2

(* Below, the recursive function for an object and all that is below it,
   satisfies its equation: the objects of the n lowest ranks do, for every n. *)
LEMMA BelowEquation ==
  ASSUME NEW h, NEW n \in Nat, NEW r, Ranks(h, r, n), NEW o \in DOMAIN h
  PROVE  BelowIn(h)[o] = BelowStep(h, o, BelowIn(h))
<1> DEFINE B == CHOOSE B : B = [a \in DOMAIN h |-> BelowStep(h, a, B)]
           Good(k, f) == \A a \in DOMAIN h : r[a] < k => f[a] = BelowStep(h, a, f)
           T == {k \in Nat : \A f : ~Good(k, f)}
<1>1. BelowIn(h) = B
  BY DEF BelowIn
<1>2. r \in [DOMAIN h -> 0 .. n]
  BY DEF Ranks
<1>3. ASSUME NEW f, NEW g, NEW a \in DOMAIN h,
             \A k \in DOMAIN h : r[k] < r[a] => f[k] = g[k]
      PROVE  BelowStep(h, a, f) = BelowStep(h, a, g)
  <2>1. \A k \in KidsIn(h, a) : f[k] = g[k]
    BY <1>3 DEF Ranks
  <2> QED BY <2>1, Zenon DEF BelowStep
<1> HIDE DEF B
<1>4. T = {}
  <2> SUFFICES ASSUME T # {} PROVE FALSE
    OBVIOUS
  <2>1. PICK t \in T : \A u \in T : t <= u
    <3> HIDE DEF Good
    <3>1. T \subseteq Nat
      OBVIOUS
    <3> HIDE DEF T
    <3> QED BY <3>1, LeastNumber
  <2>2. t \in Nat /\ \A f : ~Good(t, f)
    OBVIOUS
  <2>3. t # 0
    <3> SUFFICES ASSUME t = 0 PROVE FALSE
      OBVIOUS
    <3>1. Good(t, [a \in {} |-> 0])
      BY <1>2
    <3> QED BY <2>2, <3>1
  <2>4. PICK k \in Nat : t = k + 1
    <3>1. t - 1 \in Nat /\ t = (t - 1) + 1
      BY <2>2, <2>3
    <3> QED BY <3>1
  <2>5. PICK f : Good(k, f)
    <3>1. k \notin T
      BY <2>1, <2>2, <2>4
    <3> QED BY <3>1
  <2> DEFINE g == [a \in DOMAIN h |-> BelowStep(h, a, f)]
  <2>6. ASSUME NEW a \in DOMAIN h, r[a] < t
        PROVE  g[a] = BelowStep(h, a, g)
    <3>1. \A b \in DOMAIN h : r[b] < r[a] => f[b] = g[b]
      BY <1>2, <2>4, <2>5, <2>6
    <3> HIDE DEF g
    <3>2. BelowStep(h, a, f) = BelowStep(h, a, g)
      BY <1>3, <3>1
    <3>3. g[a] = BelowStep(h, a, f)
      BY DEF g
    <3> QED BY <3>2, <3>3
  <2>7. Good(t, g)
    <3> HIDE DEF g
    <3> QED BY <2>6
  <2> HIDE DEF g, Good
  <2> QED BY <2>2, <2>7
<1>5. PICK f : Good(n + 1, f)
  <2>1. n + 1 \notin T
    <3> HIDE DEF T
    <3> QED BY <1>4
  <2> HIDE DEF Good
  <2> QED BY <2>1
<1> DEFINE g == [a \in DOMAIN h |-> BelowStep(h, a, f)]
<1>6. \A a \in DOMAIN h : f[a] = g[a]
  BY <1>2, <1>5
<1>7. ASSUME NEW a \in DOMAIN h
      PROVE  g[a] = BelowStep(h, a, g)
  <2>1. g[a] = BelowStep(h, a, f)
    OBVIOUS
  <2> HIDE DEF g
  <2>2. BelowStep(h, a, f) = BelowStep(h, a, g)
    BY <1>3, <1>6
  <2> QED BY <2>1, <2>2
<1>8. g = [a \in DOMAIN h |-> BelowStep(h, a, g)]
  <2>1. \A a \in DOMAIN h : g[a] = BelowStep(h, a, g)
    <3> HIDE DEF g
    <3> QED BY <1>7
  <2>2. g = [a \in DOMAIN h |-> g[a]]
    OBVIOUS
  <2> HIDE DEF g
  <2> QED BY <2>1, <2>2, Zenon
<1> HIDE DEF g, Good, T
<1>9. B = [a \in DOMAIN h |-> BelowStep(h, a, B)]
  BY <1>8, Zenon DEF B
<1>10. B[o] = BelowStep(h, o, B)
  BY <1>9, Zenon
<1> QED BY <1>1, <1>10, Zenon

(* A set closed under what objects hold has all that is below its members. *)
LEMMA BelowLeast ==
  ASSUME NEW h, NEW n \in Nat, NEW r, Ranks(h, r, n),
         NEW S, \A p \in S : p \in DOMAIN h => KidsIn(h, p) \subseteq S,
         NEW o \in DOMAIN h, o \in S
  PROVE  BelowIn(h)[o] \subseteq S
<1> DEFINE Bad == {p \in DOMAIN h : p \in S /\ ~(BelowIn(h)[p] \subseteq S)}
<1> SUFFICES ASSUME Bad # {} PROVE FALSE
  OBVIOUS
<1>1. PICK p \in Bad : \A q \in Bad : r[p] <= r[q]
  <2>1. Bad \subseteq DOMAIN h
    OBVIOUS
  <2> HIDE DEF Bad
  <2> QED BY <2>1, LowestRank
<1>2. ASSUME NEW k \in KidsIn(h, p) PROVE BelowIn(h)[k] \subseteq S
  <2>1. k \in DOMAIN h /\ k \in S /\ r[k] < r[p] /\ r[k] \in Nat /\ r[p] \in Nat
    BY DEF Ranks
  <2>2. k \notin Bad
    <3> HIDE DEF Bad
    <3> QED BY <1>1, <2>1
  <2> QED BY <2>1, <2>2
<1>3. BelowIn(h)[p] = BelowStep(h, p, BelowIn(h))
  BY BelowEquation
<1> QED BY <1>2, <1>3 DEF BelowStep

(* What is below an object, and what is below that. *)
LEMMA BelowFacts ==
  ASSUME NEW h, NEW n \in Nat, NEW r, Ranks(h, r, n), NEW o \in DOMAIN h
  PROVE  /\ o \in BelowIn(h)[o]
         /\ BelowIn(h)[o] \subseteq DOMAIN h
         /\ \A k \in KidsIn(h, o) : BelowIn(h)[k] \subseteq BelowIn(h)[o]
         /\ \A p \in BelowIn(h)[o] : p = o \/ r[p] < r[o]
<1>1. BelowIn(h)[o] = BelowStep(h, o, BelowIn(h))
  BY BelowEquation
<1>2. BelowIn(h)[o] \subseteq DOMAIN h
  <2>1. \A p \in DOMAIN h : KidsIn(h, p) \subseteq DOMAIN h
    BY DEF Ranks
  <2> QED BY <2>1, BelowLeast
<1>3. \A p \in BelowIn(h)[o] : p = o \/ r[p] < r[o]
  <2> DEFINE S == {p \in DOMAIN h : p = o \/ r[p] < r[o]}
  <2>1. \A p \in S : KidsIn(h, p) \subseteq S
    BY DEF Ranks
  <2>2. o \in S
    OBVIOUS
  <2>3. BelowIn(h)[o] \subseteq S
    <3> HIDE DEF S
    <3> QED BY <2>1, <2>2, BelowLeast
  <2> QED BY <2>3
<1> QED BY <1>1, <1>2, <1>3 DEF BelowStep

(* What an object below another holds is below the other too. *)
LEMMA BelowClosed ==
  ASSUME NEW h, NEW n \in Nat, NEW r, Ranks(h, r, n), NEW o \in DOMAIN h,
         NEW p \in BelowIn(h)[o]
  PROVE  p \in DOMAIN h /\ KidsIn(h, p) \subseteq BelowIn(h)[o]
<1> DEFINE Closed(q) == \A x \in BelowIn(h)[q] : KidsIn(h, x) \subseteq BelowIn(h)[q]
           Bad == {q \in DOMAIN h : ~Closed(q)}
<1>1. p \in DOMAIN h
  BY BelowFacts
<1> SUFFICES ASSUME Bad # {} PROVE FALSE
  BY <1>1
<1>2. PICK q \in Bad : \A s \in Bad : r[q] <= r[s]
  <2>1. Bad \subseteq DOMAIN h
    OBVIOUS
  <2> HIDE DEF Bad
  <2> QED BY <2>1, LowestRank
<1>3. BelowIn(h)[q] = BelowStep(h, q, BelowIn(h))
  BY BelowEquation
<1>4. ASSUME NEW k \in KidsIn(h, q)
      PROVE  Closed(k) /\ BelowIn(h)[k] \subseteq BelowIn(h)[q] /\ k \in BelowIn(h)[q]
  <2>1. k \in DOMAIN h /\ r[k] < r[q] /\ r[k] \in Nat /\ r[q] \in Nat
    BY DEF Ranks
  <2>2. k \notin Bad
    <3> HIDE DEF Bad
    <3> QED BY <1>2, <2>1
  <2>3. k \in BelowIn(h)[k] /\ BelowIn(h)[k] \subseteq BelowIn(h)[q]
    BY <2>1, BelowFacts
  <2> QED BY <2>1, <2>2, <2>3
<1>5. ASSUME NEW x \in BelowIn(h)[q]
      PROVE  KidsIn(h, x) \subseteq BelowIn(h)[q]
  <2>1. x = q \/ \E k \in KidsIn(h, q) : x \in BelowIn(h)[k]
    BY <1>3 DEF BelowStep
  <2> QED BY <1>4, <2>1
<1> QED BY <1>5

(* All that is below another object is held by an object below it. *)
LEMMA BelowParent ==
  ASSUME NEW h, NEW n \in Nat, NEW r, Ranks(h, r, n), NEW o \in DOMAIN h,
         NEW p \in BelowIn(h)[o], p # o
  PROVE  \E q \in BelowIn(h)[o] : p \in KidsIn(h, q)
<1> DEFINE S == {x \in BelowIn(h)[o] : x = o \/ \E q \in BelowIn(h)[o] : x \in KidsIn(h, q)}
<1>1. \A x \in S : KidsIn(h, x) \subseteq S
  BY BelowClosed
<1>2. o \in S
  BY BelowFacts
<1>3. BelowIn(h)[o] \subseteq S
  <2> HIDE DEF S
  <2> QED BY <1>1, <1>2, BelowLeast
<1> QED BY <1>3

(* A value that has nothing but strings' kinds of storage holds nothing. *)
LEMMA BelowLeaf ==
  ASSUME NEW h, NEW n \in Nat, NEW r, Ranks(h, r, n), NEW o \in DOMAIN h, KidsIn(h, o) = {}
  PROVE  BelowIn(h)[o] = {o}
<1>1. BelowIn(h)[o] = BelowStep(h, o, BelowIn(h))
  BY BelowEquation
<1> QED BY <1>1 DEF BelowStep

(* There is still no cycle when a container takes values that it is not below:
   it and all that is above it move up past all ranks there were. *)
LEMMA RankedAttach ==
  ASSUME NEW h, Ranked(h), NEW a \in DOMAIN h, NEW K, K \subseteq DOMAIN h,
         \A k \in K : a \notin BelowIn(h)[k],
         NEW g, DOMAIN g = DOMAIN h,
         \A o \in DOMAIN h : KidsIn(g, o) \subseteq KidsIn(h, o) \union (IF o = a THEN K ELSE {})
  PROVE  Ranked(g)
<1>1. PICK n \in Nat : \E r \in [DOMAIN h -> 0 .. n] : Ranks(h, r, n)
  BY DEF Ranked
<1>2. PICK r \in [DOMAIN h -> 0 .. n] : Ranks(h, r, n)
  BY <1>1
<1> DEFINE q == [o \in DOMAIN h |-> IF a \in BelowIn(h)[o] THEN r[o] + (n + 1) ELSE r[o]]
           m == n + (n + 1)
<1>3. m \in Nat /\ q \in [DOMAIN g -> 0 .. m]
  OBVIOUS
<1>4. ASSUME NEW o \in DOMAIN h, NEW k \in KidsIn(g, o)
      PROVE  k \in DOMAIN h /\ q[k] < q[o]
  <2>1. CASE k \in KidsIn(h, o)
    <3>1. k \in DOMAIN h /\ r[k] < r[o]
      BY <1>2, <2>1 DEF Ranks
    <3>2. a \in BelowIn(h)[k] => a \in BelowIn(h)[o]
      BY <1>2, <2>1, BelowFacts
    <3> QED BY <3>1, <3>2
  <2>2. CASE k \notin KidsIn(h, o)
    <3>1. o = a /\ k \in K
      BY <2>2
    <3>2. a \in BelowIn(h)[a]
      BY <1>2, BelowFacts
    <3> QED BY <3>1, <3>2
  <2> QED BY <2>1, <2>2
<1>5. Ranks(g, q, m)
  <2> HIDE DEF q, m
  <2> QED BY <1>3, <1>4 DEF Ranks
<1> HIDE DEF q, m
<1> QED BY <1>3, <1>5 DEF Ranked

(* Nor when containers lose values or keep what they hold. *)
LEMMA RankedLess ==
  ASSUME NEW h, Ranked(h), NEW g, DOMAIN g = DOMAIN h,
         \A o \in DOMAIN h : KidsIn(g, o) \subseteq KidsIn(h, o)
  PROVE  Ranked(g)
<1>1. PICK n \in Nat : \E r \in [DOMAIN h -> 0 .. n] : Ranks(h, r, n)
  BY DEF Ranked
<1>2. PICK r \in [DOMAIN h -> 0 .. n] : Ranks(h, r, n)
  BY <1>1
<1>3. Ranks(g, r, n)
  BY <1>2 DEF Ranks
<1> QED BY <1>2, <1>3 DEF Ranked

(* The fields of the objects of a heap. *)
LEMMA Fields ==
  ASSUME NEW h \in Seq(ObjectType), NEW o \in DOMAIN h
  PROVE  /\ h[o] \in ObjectType
         /\ h[o].kind \in Kinds /\ h[o].content \in ContentType
         /\ h[o].kids \in Seq(Nat) /\ h[o].made \in Nat \X Nat /\ h[o].freed \in Nat
         /\ Len(h[o].kids) \in Nat /\ DOMAIN h[o].kids = 1 .. Len(h[o].kids)
         /\ Len(h) \in Nat /\ DOMAIN h = 1 .. Len(h) /\ o \in Nat
         /\ KidsIn(h, o) = {h[o].kids[i] : i \in DOMAIN h[o].kids}
<1>1. h[o] \in ObjectType /\ Len(h) \in Nat /\ DOMAIN h = 1 .. Len(h)
  OBVIOUS
<1>2. /\ h[o].kind \in Kinds /\ h[o].content \in ContentType
      /\ h[o].kids \in Seq(Nat) /\ h[o].made \in Nat \X Nat /\ h[o].freed \in Nat
  BY <1>1 DEF ObjectType
<1>3. Len(h[o].kids) \in Nat /\ DOMAIN h[o].kids = 1 .. Len(h[o].kids)
  BY <1>2
<1>4. KidsIn(h, o) = {h[o].kids[i] : i \in DOMAIN h[o].kids}
  BY DEF KidsIn, ToSet
<1> QED BY <1>1, <1>2, <1>3, <1>4

(* Only containers hold anything, and maps hold pairs under strings. *)
MapHalves(h, m, q) ==
  /\ Len(h[m].kids) = 2 * q
  /\ \A i \in 1 .. q : h[h[m].kids[2 * i - 1]].kind = "string"
FormedAt(h, o) ==
  /\ \A i \in DOMAIN h[o].kids : h[o].kids[i] \in DOMAIN h
  /\ h[o].kids # << >> => h[o].kind \in {"array", "map"}
  /\ h[o].kind = "map" => \E q \in Nat : MapHalves(h, o, q)

(* What is known of an object of a well formed heap. *)
LEMMA FormedFacts ==
  ASSUME NEW h \in Seq(ObjectType), Formed(h), NEW o \in DOMAIN h
  PROVE  /\ KidsIn(h, o) \subseteq DOMAIN h
         /\ \A i \in DOMAIN h[o].kids : h[o].kids[i] \in DOMAIN h /\ h[o].kids[i] \in KidsIn(h, o)
         /\ h[o].kind \notin {"array", "map"} => KidsIn(h, o) = {} /\ h[o].kids = << >>
         /\ h[o].kind = "map" => \E q \in Nat : MapHalves(h, o, q)
         /\ FormedAt(h, o)
<1>1. KidsIn(h, o) \subseteq DOMAIN h
  BY DEF Formed, KidsIn
<1>2. \A i \in DOMAIN h[o].kids : h[o].kids[i] \in KidsIn(h, o)
  BY Fields
<1>3. h[o].kind \notin {"array", "map"} => h[o].kids = << >>
  BY DEF Formed
<1>4. h[o].kids = << >> => KidsIn(h, o) = {}
  BY Fields
<1>5. ASSUME h[o].kind = "map" PROVE \E q \in Nat : MapHalves(h, o, q)
  <2>1. /\ Len(h[o].kids) % 2 = 0
        /\ \A i \in 1 .. Len(h[o].kids) \div 2 : h[h[o].kids[2 * i - 1]].kind = "string"
    BY <1>5 DEF Formed
  <2>2. PICK l : l = Len(h[o].kids)
    OBVIOUS
  <2>3. l \in Nat
    BY <2>2, Fields
  <2>4. PICK q \in Nat : l = 2 * q /\ l \div 2 = q
    <3>1. l % 2 = 0
      BY <2>1, <2>2
    <3>2. l \div 2 \in Nat /\ l = 2 * (l \div 2)
      BY <2>3, <3>1
    <3> QED BY <3>2
  <2>5. MapHalves(h, o, q)
    BY <2>1, <2>2, <2>4 DEF MapHalves
  <2> QED BY <2>5
<1> QED BY <1>1, <1>2, <1>3, <1>4, <1>5 DEF FormedAt

(* And such a heap is well formed. *)
LEMMA FormedFrom ==
  ASSUME NEW h \in Seq(ObjectType), \A o \in DOMAIN h : FormedAt(h, o)
  PROVE  Formed(h)
<1>1. ASSUME NEW o \in DOMAIN h
      PROVE  ToSet(h[o].kids) \subseteq DOMAIN h
  BY DEF ToSet, FormedAt
<1>2. ASSUME NEW o \in DOMAIN h, h[o].kind = "map"
      PROVE  /\ Len(h[o].kids) % 2 = 0
             /\ \A i \in 1 .. Len(h[o].kids) \div 2 : h[h[o].kids[2 * i - 1]].kind = "string"
  <2>1. PICK q \in Nat : MapHalves(h, o, q)
    BY <1>2 DEF FormedAt
  <2>2. PICK l : l = 2 * q
    OBVIOUS
  <2>3. l % 2 = 0 /\ l \div 2 = q
    BY <2>2
  <2> QED BY <2>1, <2>2, <2>3 DEF MapHalves
<1> QED BY <1>1, <1>2 DEF Formed, FormedAt

(* The indices of a map's keys. *)
LEMMA Pairs ==
  ASSUME NEW h, NEW m, NEW q \in Nat, Len(h[m].kids) = 2 * q
  PROVE  PairsIn(h, m) = {2 * i - 1 : i \in 1 .. q}
<1>1. PICK l : l = 2 * q
  OBVIOUS
<1>2. l \div 2 = q
  BY <1>1
<1> QED BY <1>1, <1>2 DEF PairsIn

-----------------------------------------------------------------------------
(* What no function changes of an object: its kind, what it carries, and how
   it was made. *)
SameObjects(h, g) ==
  /\ g \in Seq(ObjectType) /\ DOMAIN g = DOMAIN h
  /\ \A o \in DOMAIN h :
       g[o].kind = h[o].kind /\ g[o].content = h[o].content /\ g[o].made = h[o].made

(* A function on 1 .. n is a sequence. *)
LEMMA SequenceOf ==
  ASSUME NEW S, NEW n \in Nat, NEW f, f = [i \in 1 .. n |-> f[i]], \A i \in 1 .. n : f[i] \in S
  PROVE  f \in Seq(S)
OBVIOUS

(* What an assignment to the items of a container leaves. *)
WithKids(h, a, s) == [h EXCEPT ![a].kids = s]

(* Nothing but the items of that container. *)
LEMMA KidsSet ==
  ASSUME NEW h \in Seq(ObjectType), NEW a \in DOMAIN h, NEW s \in Seq(Nat),
         NEW g, g = WithKids(h, a, s)
  PROVE  /\ SameObjects(h, g)
         /\ g[a].kids = s
         /\ \A o \in DOMAIN h : o # a => g[o].kids = h[o].kids
         /\ \A o \in DOMAIN h : g[o].freed = h[o].freed
<1>1. DOMAIN g = DOMAIN h
  BY DEF WithKids
<1>2. \A o \in DOMAIN h : g[o] = IF o = a THEN [h[a] EXCEPT !.kids = s] ELSE h[o]
  BY DEF WithKids
<1>3. h[a] \in ObjectType
  BY Fields
<1>4. g[a] = [h[a] EXCEPT !.kids = s]
  BY <1>2
<1>5. /\ g[a] \in ObjectType /\ g[a].kids = s
      /\ g[a].kind = h[a].kind /\ g[a].content = h[a].content /\ g[a].made = h[a].made
      /\ g[a].freed = h[a].freed
  BY <1>3, <1>4 DEF ObjectType
<1>6. \A o \in DOMAIN h : g[o] \in ObjectType
  BY <1>2, <1>5, Fields
<1>7. g \in Seq(ObjectType)
  <2>1. Len(h) \in Nat /\ DOMAIN h = 1 .. Len(h)
    BY Fields
  <2>2. g = [o \in 1 .. Len(h) |-> g[o]]
    BY <2>1 DEF WithKids
  <2>3. \A o \in 1 .. Len(h) : g[o] \in ObjectType
    BY <1>6, <2>1
  <2> QED BY ONLY <2>1, <2>2, <2>3, SequenceOf
<1> QED BY <1>1, <1>2, <1>5, <1>7 DEF SameObjects

(* What an increase of the counts of releases leaves. *)
WithFreed(h, c) == [o \in DOMAIN h |-> [h[o] EXCEPT !.freed = @ + c[o]]]

(* What counting releases leaves: everything but the counts. *)
LEMMA FreedAdd ==
  ASSUME NEW h \in Seq(ObjectType), NEW c \in [DOMAIN h -> Nat],
         NEW g, g = WithFreed(h, c)
  PROVE  /\ SameObjects(h, g)
         /\ \A o \in DOMAIN h : g[o].kids = h[o].kids /\ g[o].freed = h[o].freed + c[o]
<1>1. DOMAIN g = DOMAIN h
  BY DEF WithFreed
<1>2. ASSUME NEW o \in DOMAIN h
      PROVE  /\ g[o] \in ObjectType /\ g[o].kids = h[o].kids
             /\ g[o].kind = h[o].kind /\ g[o].content = h[o].content /\ g[o].made = h[o].made
             /\ g[o].freed = h[o].freed + c[o]
  <2>1. h[o] \in ObjectType /\ h[o].freed \in Nat /\ c[o] \in Nat
    BY Fields
  <2>2. PICK n \in Nat : n = h[o].freed + c[o]
    BY <2>1
  <2>3. g[o] = [h[o] EXCEPT !.freed = n]
    BY <2>2 DEF WithFreed
  <2> QED BY <2>1, <2>2, <2>3 DEF ObjectType
<1>3. g \in Seq(ObjectType)
  <2>1. Len(h) \in Nat /\ DOMAIN h = 1 .. Len(h)
    BY LenProperties
  <2>2. g = [o \in 1 .. Len(h) |-> g[o]]
    BY <2>1 DEF WithFreed
  <2>3. \A o \in 1 .. Len(h) : g[o] \in ObjectType
    BY <1>2, <2>1
  <2> QED BY <2>1, <2>2, <2>3
<1> QED BY <1>1, <1>2, <1>3 DEF SameObjects

(* Such changes compose. *)
LEMMA SameTwice ==
  ASSUME NEW h, NEW f, NEW g, SameObjects(h, f), SameObjects(f, g)
  PROVE  SameObjects(h, g)
BY DEF SameObjects

(* What an object keeps if its items stay. *)
LEMMA SameKids ==
  ASSUME NEW h \in Seq(ObjectType), Formed(h), NEW g, SameObjects(h, g),
         NEW o \in DOMAIN h, g[o].kids = h[o].kids
  PROVE  /\ KidsIn(g, o) = KidsIn(h, o)
         /\ FormedAt(g, o)
         /\ h[o].kind = "map" /\ KeysDiffer(h, o) => KeysDiffer(g, o)
<1>1. KidsIn(g, o) = KidsIn(h, o)
  BY DEF KidsIn
<1>2. FormedAt(h, o)
  BY FormedFacts
<1>3. FormedAt(g, o)
  <2>1. ASSUME NEW q \in Nat, MapHalves(h, o, q)
        PROVE  MapHalves(g, o, q)
    <3>1. ASSUME NEW i \in 1 .. q
          PROVE  h[o].kids[2 * i - 1] \in DOMAIN h
      <4>1. 2 * i - 1 \in 1 .. Len(h[o].kids)
        BY <2>1 DEF MapHalves
      <4> QED BY <1>2, <4>1, Fields DEF FormedAt
    <3> QED BY <2>1, <3>1 DEF MapHalves, SameObjects
  <2> QED BY <1>2, <2>1 DEF FormedAt, SameObjects
<1>4. ASSUME h[o].kind = "map", KeysDiffer(h, o)
      PROVE  KeysDiffer(g, o)
  <2>1. PICK q \in Nat : MapHalves(h, o, q)
    BY <1>4, FormedFacts
  <2>2. Len(h[o].kids) = 2 * q /\ PairsIn(h, o) = {2 * i - 1 : i \in 1 .. q}
    BY <2>1, Pairs DEF MapHalves
  <2>3. PairsIn(g, o) = PairsIn(h, o)
    BY DEF PairsIn
  <2>4. ASSUME NEW i \in PairsIn(h, o)
        PROVE  KeyIn(g, o, i) = KeyIn(h, o, i)
    <3>1. i \in 1 .. Len(h[o].kids)
      BY <2>2
    <3>2. h[o].kids[i] \in DOMAIN h
      BY <1>2, <3>1, Fields DEF FormedAt
    <3> QED BY <3>2 DEF KeyIn, SameObjects
  <2> QED BY <1>4, <2>3, <2>4 DEF KeysDiffer
<1> QED BY <1>1, <1>3, <1>4

(* What the heap keeps if at most one container's items change, and that for
   the good. *)
LEMMA SameTypes ==
  ASSUME NEW h, Sound(h), NEW g, SameObjects(h, g), NEW a,
         \A o \in DOMAIN h : o # a => g[o].kids = h[o].kids,
         a \in DOMAIN h => FormedAt(g, a) /\ (h[a].kind = "map" => KeysDiffer(g, a))
  PROVE  Formed(g) /\ NoKeyTwice(g) /\ Contents(g)
<1>1. h \in Seq(ObjectType) /\ Formed(h) /\ NoKeyTwice(h) /\ Contents(h)
  BY DEF Sound
<1>2. ASSUME NEW o \in DOMAIN h
      PROVE  FormedAt(g, o) /\ (h[o].kind = "map" => KeysDiffer(g, o))
  BY <1>1, <1>2, SameKids DEF NoKeyTwice
<1>3. g \in Seq(ObjectType) /\ DOMAIN g = DOMAIN h
  BY DEF SameObjects
<1>4. Formed(g)
  BY <1>2, <1>3, FormedFrom
<1>5. NoKeyTwice(g)
  BY <1>2, <1>3 DEF NoKeyTwice, SameObjects
<1>6. Contents(g)
  BY <1>1, <1>3 DEF Contents, SameObjects
<1> QED BY <1>4, <1>5, <1>6

-----------------------------------------------------------------------------
(* Releasing a set of live objects, no part of which is still held by what
   stays, leaves what is in use held at one place. *)
LEMMA ReleaseHeld ==
  ASSUME NEW h, Sound(h), NEW g, SameObjects(h, g), NEW R, R \subseteq LiveIn(h),
         \A o \in DOMAIN h : g[o].freed = h[o].freed + (IF o \in R THEN 1 ELSE 0),
         \A c \in LiveIn(h) \ R :
           /\ KidsIn(g, c) \subseteq KidsIn(h, c) \ R
           /\ \A i, j \in DOMAIN g[c].kids : g[c].kids[i] = g[c].kids[j] => i = j
  PROVE  HeldOnce(g)
<1>1. DOMAIN g = DOMAIN h
  BY DEF SameObjects
<1>2. \A o \in DOMAIN h : h[o].freed \in Nat /\ h[o].freed <= 1
  BY Fields DEF Sound, HeldOnce
<1>3. LiveIn(g) = LiveIn(h) \ R
  BY <1>1, <1>2 DEF LiveIn
<1>4. \A o \in DOMAIN g : g[o].freed <= 1
  BY <1>1, <1>2 DEF LiveIn
<1>5. HeldOnce(h)
  BY DEF Sound
<1>6. \A c \in LiveIn(g) : KidsIn(g, c) \subseteq LiveIn(g)
  BY <1>3, <1>5 DEF HeldOnce
<1>7. \A c, d \in LiveIn(g) : c # d => KidsIn(g, c) \intersect KidsIn(g, d) = {}
  BY <1>3, <1>5 DEF HeldOnce
<1> QED BY <1>3, <1>4, <1>6, <1>7 DEF HeldOnce

(* What is below a live object is live, and held there. *)
LEMMA BelowLive ==
  ASSUME NEW h, Sound(h), NEW n \in Nat, NEW r, Ranks(h, r, n), NEW o \in LiveIn(h)
  PROVE  /\ BelowIn(h)[o] \subseteq LiveIn(h)
         /\ \A c \in LiveIn(h), x \in BelowIn(h)[o] :
              x \in KidsIn(h, c) /\ x # o => c \in BelowIn(h)[o]
<1>1. o \in DOMAIN h /\ HeldOnce(h)
  BY DEF LiveIn, Sound
<1>2. BelowIn(h)[o] \subseteq LiveIn(h)
  <2>1. \A c \in LiveIn(h) : KidsIn(h, c) \subseteq LiveIn(h)
    BY <1>1 DEF HeldOnce
  <2> QED BY <1>1, <2>1, BelowLeast
<1>3. ASSUME NEW c \in LiveIn(h), NEW x \in BelowIn(h)[o], x \in KidsIn(h, c), x # o
      PROVE  c \in BelowIn(h)[o]
  <2>1. PICK q \in BelowIn(h)[o] : x \in KidsIn(h, q)
    BY <1>1, <1>3, BelowParent
  <2>2. c = q
    BY <1>1, <1>2, <1>3, <2>1 DEF HeldOnce
  <2> QED BY <2>1, <2>2
<1> QED BY <1>2, <1>3

-----------------------------------------------------------------------------
(* The values that a program owns, and the heap after it releases some. *)
OwnedIn(h) == {o \in LiveIn(h) : \A c \in LiveIn(h) : o \notin KidsIn(h, c)}
ReleasedIn(h, roots) ==
  [o \in DOMAIN h |->
     [h[o] EXCEPT !.freed = @ + Cardinality({r \in roots : o \in BelowIn(h)[r]})]]

(* g is h after U has been released. *)
ReleasedAre(h, g, U) ==
  /\ SameObjects(h, g)
  /\ \A o \in DOMAIN h :
       g[o].kids = h[o].kids /\ g[o].freed = h[o].freed + (IF o \in U THEN 1 ELSE 0)
Apart(h, x, y) == x # y => BelowIn(h)[x] \intersect BelowIn(h)[y] = {}

(* Releasing roots below which nothing is twice counts each object once. *)
LEMMA ReleaseCounts ==
  ASSUME NEW h \in Seq(ObjectType), NEW x, NEW y, Apart(h, x, y),
         NEW roots, roots = {x, y}, NEW g, g = ReleasedIn(h, roots),
         NEW U, U = BelowIn(h)[x] \union BelowIn(h)[y]
  PROVE  ReleasedAre(h, g, U)
<1> DEFINE c == [o \in DOMAIN h |-> Cardinality({r \in roots : o \in BelowIn(h)[r]})]
<1>1. ASSUME NEW o \in DOMAIN h
      PROVE  c[o] = IF o \in BelowIn(h)[x] \union BelowIn(h)[y] THEN 1 ELSE 0
  <2>1. c[o] = Cardinality({r \in roots : o \in BelowIn(h)[r]})
    OBVIOUS
  <2>2. CASE o \in BelowIn(h)[x]
    <3>1. {r \in roots : o \in BelowIn(h)[r]} = {x}
      BY <2>2 DEF Apart
    <3> QED BY <2>1, <2>2, <3>1, FS_Singleton
  <2>3. CASE o \notin BelowIn(h)[x] /\ o \in BelowIn(h)[y]
    <3>1. {r \in roots : o \in BelowIn(h)[r]} = {y}
      BY <2>3
    <3> QED BY <2>1, <2>3, <3>1, FS_Singleton
  <2>4. CASE o \notin BelowIn(h)[x] /\ o \notin BelowIn(h)[y]
    <3>1. {r \in roots : o \in BelowIn(h)[r]} = {}
      BY <2>4
    <3> QED BY <2>1, <2>4, <3>1, FS_EmptySet
  <2> QED BY <2>2, <2>3, <2>4
<1>2. c \in [DOMAIN h -> Nat]
  <2>1. c = [o \in DOMAIN h |-> c[o]]
    OBVIOUS
  <2>2. \A o \in DOMAIN h : c[o] \in Nat
    <3> HIDE DEF c
    <3> QED BY <1>1
  <2> HIDE DEF c
  <2> QED BY <2>1, <2>2
<1>3. g = WithFreed(h, c)
  BY DEF ReleasedIn, WithFreed
<1> HIDE DEF c
<1>4. /\ SameObjects(h, g)
      /\ \A o \in DOMAIN h : g[o].kids = h[o].kids /\ g[o].freed = h[o].freed + c[o]
  <2>1. h \in Seq(ObjectType)
    OBVIOUS
  <2> QED BY ONLY <1>2, <1>3, <2>1, FreedAdd
<1> QED BY <1>1, <1>4 DEF ReleasedAre

(* llsd_delete of a value that its program owns. *)
LEMMA SoundDelete ==
  ASSUME NEW h, Sound(h), NEW o \in OwnedIn(h)
  PROVE  Sound(ReleasedIn(h, {o})) /\ SameObjects(h, ReleasedIn(h, {o}))
<1> DEFINE g == ReleasedIn(h, {o})
           R == BelowIn(h)[o]
<1>1. PICK n \in Nat : \E r \in [DOMAIN h -> 0 .. n] : Ranks(h, r, n)
  BY DEF Sound, Ranked
<1>2. PICK r \in [DOMAIN h -> 0 .. n] : Ranks(h, r, n)
  BY <1>1
<1>3. h \in Seq(ObjectType) /\ Formed(h) /\ HeldOnce(h) /\ Ranked(h)
  BY DEF Sound
<1>4. o \in LiveIn(h) /\ \A c \in LiveIn(h) : o \notin KidsIn(h, c)
  BY DEF OwnedIn
<1>5. /\ SameObjects(h, g)
      /\ \A p \in DOMAIN h :
           g[p].kids = h[p].kids /\ g[p].freed = h[p].freed + (IF p \in R THEN 1 ELSE 0)
  <2> DEFINE S == {o}
  <2>1. PICK q : q = o
    OBVIOUS
  <2>2. S = {o, q} /\ g = ReleasedIn(h, S)
    BY <2>1
  <2> HIDE DEF g, R, S
  <2>3. Apart(h, o, q) /\ R = BelowIn(h)[o] \union BelowIn(h)[q]
    BY <2>1 DEF Apart, R
  <2>4. ReleasedAre(h, g, R)
    BY <1>3, <2>2, <2>3, ReleaseCounts
  <2> QED BY <2>4 DEF ReleasedAre
<1> HIDE DEF g
<1>6. /\ R \subseteq LiveIn(h)
      /\ \A c \in LiveIn(h), x \in R : x \in KidsIn(h, c) /\ x # o => c \in R
  BY <1>2, <1>4, BelowLive
<1>7. \A p \in DOMAIN h : KidsIn(g, p) = KidsIn(h, p)
  BY <1>5 DEF KidsIn
<1>8. LiveIn(h) \subseteq DOMAIN h
  BY DEF LiveIn
<1>9. HeldOnce(g)
  <2>1. ASSUME NEW c \in LiveIn(h) \ R
        PROVE  /\ KidsIn(g, c) \subseteq KidsIn(h, c) \ R
               /\ \A i, j \in DOMAIN g[c].kids : g[c].kids[i] = g[c].kids[j] => i = j
    BY <1>3, <1>4, <1>5, <1>6, <1>7, <1>8 DEF HeldOnce
  <2> HIDE DEF R
  <2> QED BY <1>5, <1>6, <2>1, ReleaseHeld
<1>10. Ranked(g)
  BY <1>3, <1>5, <1>7, RankedLess DEF SameObjects
<1>11. Formed(g) /\ NoKeyTwice(g) /\ Contents(g)
  <2>1. 0 \notin DOMAIN h
    BY <1>3
  <2> QED BY <1>5, <2>1, SameTypes
<1>12. Sound(g)
  BY <1>5, <1>9, <1>10, <1>11 DEF Sound, SameObjects
<1> QED BY <1>5, <1>12 DEF g

(* The first items of a sequence. *)
LEMMA Prefix ==
  ASSUME NEW S, NEW s \in Seq(S), NEW n \in Nat, n <= Len(s)
  PROVE  /\ SubSeq(s, 1, n) \in Seq(S) /\ Len(SubSeq(s, 1, n)) = n
         /\ \A i \in 1 .. n : SubSeq(s, 1, n)[i] = s[i] /\ i \in DOMAIN s
OBVIOUS

(* The items of two sequences one behind the other, and of a part of one. *)
LEMMA Concat ==
  ASSUME NEW S, NEW s \in Seq(S), NEW t \in Seq(S), NEW u, u = s \o t,
         NEW n, n = Len(s), NEW k, k = Len(t)
  PROVE  /\ u \in Seq(S) /\ Len(u) = n + k /\ n \in Nat /\ k \in Nat
         /\ \A i \in 1 .. n : u[i] = s[i]
         /\ \A i \in 1 .. k : u[n + i] = t[i]
  BY ConcatProperties

(* The items from a to b. *)
LEMMA Slice ==
  ASSUME NEW S, NEW u \in Seq(S), NEW a \in Nat, NEW b \in Nat, a >= 1, b <= Len(u), a <= b + 1,
         NEW s, s = SubSeq(u, a, b), NEW c \in Nat, b + 1 = a + c
  PROVE  s \in Seq(S) /\ c = Len(s) /\ \A i \in 1 .. c : s[i] = u[a + i - 1]
  OBVIOUS

(* A sequence s without two neighbours, those of u at p and after it. *)
Without(u, p) == SubSeq(u, 1, p - 1) \o SubSeq(u, p + 2, Len(u))
Past(p, i) == IF i < p THEN i ELSE i + 2
CutAt(u, p, s) ==
  /\ s \in Seq(Nat) /\ Len(u) = Len(s) + 2
  /\ \A i \in 1 .. Len(s) : s[i] = u[Past(p, i)] /\ Past(p, i) \in DOMAIN u

(* The items of what is left are those before p and those behind p + 1. *)
LEMMA Cut ==
  ASSUME NEW u \in Seq(Nat), NEW l \in Nat, Len(u) = l + 2, NEW p \in 1 .. l + 1,
         NEW s, s = Without(u, p)
  PROVE  CutAt(u, p, s) /\ Len(s) = l
<1>1. PICK a \in Nat : a = p - 1
  OBVIOUS
<1>2. PICK c \in Nat : a + c = l
  <2>1. l - a \in Nat /\ a + (l - a) = l
    BY <1>1
  <2> QED BY <2>1
<1>3. PICK f : f = SubSeq(u, 1, a)
  OBVIOUS
<1>4. f \in Seq(Nat) /\ a = Len(f) /\ \A i \in 1 .. a : f[i] = u[1 + i - 1]
  <2>1. a <= Len(u) /\ 1 <= a + 1 /\ a + 1 = 1 + a
    BY <1>1
  <2> QED BY SMTT(30), <1>3, <2>1, Slice
<1>5. PICK b \in Nat : b = p + 2
  OBVIOUS
<1>6. PICK e \in Nat : e = Len(u)
  OBVIOUS
<1>7. PICK g : g = SubSeq(u, b, e)
  OBVIOUS
<1>8. g \in Seq(Nat) /\ c = Len(g) /\ \A i \in 1 .. c : g[i] = u[b + i - 1]
  <2>1. b >= 1 /\ e <= Len(u) /\ b <= e + 1 /\ e + 1 = b + c
    BY <1>1, <1>2, <1>5, <1>6
  <2> QED BY <1>7, <2>1, Slice
<1>9. s = f \o g
  BY <1>1, <1>3, <1>5, <1>6, <1>7 DEF Without
<1>10. /\ s \in Seq(Nat) /\ Len(s) = a + c
       /\ \A i \in 1 .. a : s[i] = f[i]
       /\ \A i \in 1 .. c : s[a + i] = g[i]
  BY ONLY <1>4, <1>8, <1>9, Concat
<1>11. Len(s) = l
  BY ONLY <1>2, <1>10
<1>12. ASSUME NEW i \in 1 .. l
       PROVE  s[i] = u[Past(p, i)] /\ Past(p, i) \in DOMAIN u
  <2>1. DOMAIN u = 1 .. l + 2
    OBVIOUS
  <2>2. CASE i < p
    <3>1. i \in 1 .. a /\ 1 + i - 1 = i /\ i \in 1 .. l + 2
      BY <1>1, <2>2
    <3> QED BY <1>4, <1>10, <2>1, <2>2, <3>1 DEF Past
  <2>3. CASE ~(i < p)
    <3>1. PICK j \in 1 .. c : i = a + j
      <4>1. i - a \in 1 .. c /\ i = a + (i - a)
        BY ONLY <1>1, <1>2, <2>3, i \in 1 .. l, l \in Nat, a \in Nat, p \in 1 .. l + 1, c \in Nat
      <4> QED BY <4>1
    <3>2. b + j - 1 = i + 2 /\ i + 2 \in 1 .. l + 2
      BY <1>1, <1>5, <3>1
    <3>3. s[i] = g[j] /\ g[j] = u[b + j - 1]
      BY <1>8, <1>10, <3>1
    <3> QED BY <2>1, <2>3, <3>2, <3>3 DEF Past
  <2> QED BY <2>2, <2>3
<1>13. s \in Seq(Nat) /\ Len(u) = l + 2
  BY <1>10
<1> QED BY ONLY <1>11, <1>12, <1>13 DEF CutAt

(* A live array's last item is taken out. *)
LEMMA SoundUnappend ==
  ASSUME NEW h, Sound(h), NEW a \in LiveIn(h), h[a].kind = "array", h[a].kids # << >>,
         NEW g, g = WithKids(h, a, Front(h[a].kids))
  PROVE  Sound(g) /\ SameObjects(h, g)
<1>1. /\ h \in Seq(ObjectType) /\ Formed(h) /\ HeldOnce(h) /\ Ranked(h) /\ a \in DOMAIN h
      /\ LiveIn(h) \subseteq DOMAIN h
  BY DEF Sound, LiveIn
<1> DEFINE s == Front(h[a].kids)
<1>2. h[a].kids \in Seq(Nat)
  BY <1>1, Fields
<1>3. /\ s \in Seq(Nat) /\ Len(s) = Len(h[a].kids) - 1 /\ Len(h[a].kids) \in Nat
      /\ \A i \in 1 .. Len(s) : s[i] = h[a].kids[i] /\ i \in DOMAIN h[a].kids
  <2>1. PICK l \in Nat : Len(h[a].kids) = l + 1
    <3>1. Len(h[a].kids) \in Nat /\ Len(h[a].kids) # 0
      BY <1>2
    <3>2. Len(h[a].kids) - 1 \in Nat /\ Len(h[a].kids) = (Len(h[a].kids) - 1) + 1
      BY <3>1
    <3> QED BY <3>2
  <2>2. s = SubSeq(h[a].kids, 1, l)
    BY <2>1 DEF Front
  <2>3. l <= Len(h[a].kids)
    BY <2>1
  <2> QED BY <1>2, <2>1, <2>2, <2>3, Prefix
<1>4. g = WithKids(h, a, s)
  OBVIOUS
<1> HIDE DEF s
<1>5. /\ SameObjects(h, g) /\ g[a].kids = s
      /\ \A o \in DOMAIN h : o # a => g[o].kids = h[o].kids
      /\ \A o \in DOMAIN h : g[o].freed = h[o].freed
  BY <1>1, <1>3, <1>4, KidsSet
<1>6. DOMAIN s = 1 .. Len(s) /\ Len(s) \in Nat
  BY <1>3
<1>7. FormedAt(g, a)
  <2>1. \A i \in DOMAIN g[a].kids : g[a].kids[i] \in DOMAIN g
    BY <1>1, <1>3, <1>5, <1>6, FormedFacts DEF SameObjects
  <2> QED BY <1>1, <1>5, <2>1 DEF FormedAt, SameObjects
<1>8. Formed(g) /\ NoKeyTwice(g) /\ Contents(g)
  BY <1>1, <1>5, <1>7, SameTypes
<1>9. KidsIn(g, a) \subseteq KidsIn(h, a)
  <2>1. ASSUME NEW k \in KidsIn(g, a) PROVE k \in KidsIn(h, a)
    <3>1. PICK i \in 1 .. Len(s) : k = s[i]
      BY <1>5, <1>6 DEF KidsIn, ToSet
    <3>2. k = h[a].kids[i] /\ i \in DOMAIN h[a].kids
      BY <1>3, <3>1
    <3> QED BY <1>1, <3>2, FormedFacts
  <2> QED BY <2>1
<1>10. \A o \in DOMAIN h : KidsIn(g, o) \subseteq KidsIn(h, o)
  BY <1>5, <1>9 DEF KidsIn
<1>11. Ranked(g)
  BY <1>1, <1>5, <1>10, RankedLess DEF SameObjects
<1>12. HeldOnce(g)
  <2>1. ASSUME NEW i \in DOMAIN g[a].kids, NEW j \in DOMAIN g[a].kids,
               g[a].kids[i] = g[a].kids[j]
        PROVE  i = j
    <3>1. /\ i \in DOMAIN h[a].kids /\ j \in DOMAIN h[a].kids
          /\ h[a].kids[i] = h[a].kids[j]
      BY ONLY <1>3, <1>5, <1>6, <2>1, i \in DOMAIN g[a].kids, j \in DOMAIN g[a].kids
    <3>2. \A p, q \in DOMAIN h[a].kids : h[a].kids[p] = h[a].kids[q] => p = q
      BY <1>1 DEF HeldOnce
    <3> QED BY ONLY <3>1, <3>2
  <2>2. \A c \in LiveIn(h) :
           /\ KidsIn(g, c) \subseteq KidsIn(h, c)
           /\ \A i, j \in DOMAIN g[c].kids : g[c].kids[i] = g[c].kids[j] => i = j
    BY <1>1, <1>5, <1>10, <2>1 DEF HeldOnce
  <2>3. PICK R : R = {}
    OBVIOUS
  <2>4. \A o \in DOMAIN h : g[o].freed = h[o].freed + (IF o \in R THEN 1 ELSE 0)
    BY <1>1, <1>5, <2>3, Fields
  <2>5. \A c \in LiveIn(h) \ R :
           /\ KidsIn(g, c) \subseteq KidsIn(h, c) \ R
           /\ \A i, j \in DOMAIN g[c].kids : g[c].kids[i] = g[c].kids[j] => i = j
    BY <2>2, <2>3
  <2>6. R \subseteq LiveIn(h)
    BY <2>3
  <2> QED BY <1>5, <2>4, <2>5, <2>6, ReleaseHeld
<1> QED BY <1>5, <1>8, <1>11, <1>12 DEF Sound, SameObjects

(* A live container takes values that its program owns and that it is not
   below. *)
Attached(h, a, t, g) ==
  /\ SameObjects(h, g) /\ g[a].kids = h[a].kids \o t
  /\ \A o \in DOMAIN h : o # a => g[o].kids = h[o].kids
  /\ \A i \in DOMAIN g[a].kids : g[a].kids[i] \in DOMAIN h
  /\ HeldOnce(g) /\ Ranked(g)

(* Owned values, each once, attached to a container that is not below them. *)
LEMMA Attach ==
  ASSUME NEW h, Sound(h), NEW a \in LiveIn(h), NEW t \in Seq(Nat),
         \A i, j \in DOMAIN t : t[i] = t[j] => i = j,
         \A i \in DOMAIN t : t[i] \in OwnedIn(h) /\ a \notin BelowIn(h)[t[i]],
         NEW g, g = WithKids(h, a, h[a].kids \o t)
  PROVE  Attached(h, a, t, g)
<1>1. /\ h \in Seq(ObjectType) /\ Formed(h) /\ HeldOnce(h) /\ Ranked(h) /\ a \in DOMAIN h
      /\ LiveIn(h) \subseteq DOMAIN h
  BY DEF Sound, LiveIn
<1> DEFINE s == h[a].kids \o t
           K == {t[i] : i \in DOMAIN t}
           m == Len(h[a].kids)
<1>2. h[a].kids \in Seq(Nat) /\ m \in Nat /\ DOMAIN h[a].kids = 1 .. m
  BY <1>1, Fields
<1>3. /\ s \in Seq(Nat) /\ DOMAIN s = 1 .. m + Len(t) /\ DOMAIN t = 1 .. Len(t) /\ Len(t) \in Nat
      /\ \A i \in DOMAIN s : IF i <= m THEN i \in 1 .. m /\ s[i] = h[a].kids[i]
                             ELSE i - m \in DOMAIN t /\ s[i] = t[i - m]
  <2>1. PICK u : u = h[a].kids
    OBVIOUS
  <2>2. u \in Seq(Nat) /\ Len(u) = m /\ s = u \o t
    BY <1>2, <2>1
  <2> HIDE DEF s, m
  <2>3. /\ s \in Seq(Nat) /\ DOMAIN s = 1 .. m + Len(t) /\ DOMAIN t = 1 .. Len(t)
        /\ Len(t) \in Nat
    BY SMTT(30), <2>2
  <2>4. \A i \in DOMAIN s : IF i <= m THEN i \in 1 .. m /\ s[i] = u[i]
                            ELSE i - m \in DOMAIN t /\ s[i] = t[i - m]
    BY <1>2, <2>2, <2>3
  <2> QED BY <2>1, <2>3, <2>4
<1> HIDE DEF s
<1>4. g = WithKids(h, a, s)
  BY DEF s
<1>5. /\ SameObjects(h, g) /\ g[a].kids = s
      /\ \A o \in DOMAIN h : o # a => g[o].kids = h[o].kids
      /\ \A o \in DOMAIN h : g[o].freed = h[o].freed
  BY <1>1, <1>3, <1>4, KidsSet
<1>6. K \subseteq OwnedIn(h) /\ OwnedIn(h) \subseteq LiveIn(h)
  BY DEF OwnedIn
<1>7. ASSUME NEW i \in DOMAIN s
      PROVE  s[i] \in KidsIn(h, a) \union K /\ s[i] \in DOMAIN h
  <2>1. CASE i <= m
    <3>1. i \in DOMAIN h[a].kids /\ s[i] = h[a].kids[i]
      BY <1>2, <1>3, <2>1
    <3> QED BY <1>1, <3>1, FormedFacts
  <2>2. CASE ~(i <= m)
    <3>1. s[i] \in K
      BY <1>3, <2>2
    <3> QED BY <1>1, <1>6, <3>1
  <2> QED BY <2>1, <2>2
<1>8. KidsIn(g, a) \subseteq KidsIn(h, a) \union K
  BY <1>5, <1>7 DEF KidsIn, ToSet
<1>9. \A o \in DOMAIN h : o # a => KidsIn(g, o) = KidsIn(h, o)
  BY <1>5 DEF KidsIn
<1>10. Ranked(g)
  <2>1. \A k \in K : a \notin BelowIn(h)[k]
    OBVIOUS
  <2>2. \A o \in DOMAIN h :
          KidsIn(g, o) \subseteq KidsIn(h, o) \union (IF o = a THEN K ELSE {})
    BY <1>8, <1>9
  <2>3. K \subseteq DOMAIN h /\ DOMAIN g = DOMAIN h
    BY <1>1, <1>5, <1>6 DEF SameObjects
  <2> HIDE DEF K
  <2> QED BY ZenonT(60), <1>1, <2>1, <2>2, <2>3, RankedAttach
<1>11. ASSUME NEW i \in DOMAIN s, NEW j \in DOMAIN s, s[i] = s[j]
       PROVE  i = j
  <2>1. KidsIn(h, a) \intersect K = {}
    BY <1>6 DEF OwnedIn
  <2>2. ASSUME NEW k \in DOMAIN s
        PROVE  IF k <= m THEN k \in DOMAIN h[a].kids /\ s[k] = h[a].kids[k] /\ s[k] \in KidsIn(h, a)
               ELSE k - m \in DOMAIN t /\ s[k] = t[k - m] /\ s[k] \in K
    BY SMTT(30), <1>1, <1>2, <1>3, FormedFacts
  <2>3. CASE i <= m
    <3>1. j <= m
      BY <1>11, <2>1, <2>2, <2>3
    <3> QED BY <1>1, <1>11, <2>2, <2>3, <3>1 DEF HeldOnce
  <2>4. CASE ~(i <= m)
    <3>1. ~(j <= m)
      BY <1>11, <2>1, <2>2, <2>4
    <3>2. i - m = j - m
      BY <1>11, <2>2, <2>4, <3>1
    <3>3. i \in Nat /\ j \in Nat
      BY <1>3
    <3> QED BY SMTT(30), <1>2, <3>2, <3>3
  <2> QED BY <2>3, <2>4
<1>12. LiveIn(g) = LiveIn(h)
  BY <1>5 DEF LiveIn, SameObjects
<1>13. HeldOnce(g)
  <2>1. \A o \in DOMAIN g : g[o].freed <= 1
    BY <1>1, <1>5 DEF HeldOnce, SameObjects
  <2>2. ASSUME NEW c \in LiveIn(h) PROVE KidsIn(g, c) \subseteq LiveIn(h)
    BY <1>1, <1>6, <1>8, <1>9 DEF HeldOnce
  <2>3. ASSUME NEW c \in LiveIn(h), NEW i \in DOMAIN g[c].kids, NEW j \in DOMAIN g[c].kids,
               g[c].kids[i] = g[c].kids[j]
        PROVE  i = j
    BY <1>1, <1>5, <1>11, <2>3 DEF HeldOnce
  <2>4. ASSUME NEW c \in LiveIn(h), NEW d \in LiveIn(h), c # d
        PROVE  KidsIn(g, c) \intersect KidsIn(g, d) = {}
    <3>1. KidsIn(h, c) \intersect KidsIn(h, d) = {}
      BY <1>1, <2>4 DEF HeldOnce
    <3>2. KidsIn(h, c) \intersect K = {} /\ KidsIn(h, d) \intersect K = {}
      BY <1>6 DEF OwnedIn
    <3> QED BY <1>1, <1>8, <1>9, <2>4, <3>1, <3>2
  <2> QED BY <1>12, <2>1, <2>2, <2>3, <2>4 DEF HeldOnce
<1> QED BY <1>5, <1>7, <1>10, <1>13, Zenon DEF Attached, s

(* llsd_array_append. *)
LEMMA SoundArrayAppend ==
  ASSUME NEW h, Sound(h), NEW a \in LiveIn(h), h[a].kind = "array",
         NEW v \in OwnedIn(h), a \notin BelowIn(h)[v],
         NEW g, g = WithKids(h, a, Append(h[a].kids, v))
  PROVE  Sound(g) /\ SameObjects(h, g)
<1>1. /\ h \in Seq(ObjectType) /\ Formed(h) /\ a \in DOMAIN h /\ v \in Nat
  BY Fields DEF Sound, LiveIn, OwnedIn
<1>2. h[a].kids \in Seq(Nat)
  BY <1>1, Fields
<1>3. PICK t : t = <<v>>
  OBVIOUS
<1>4. t \in Seq(Nat) /\ DOMAIN t = {1} /\ t[1] = v
  BY <1>1, <1>3
<1>5. Append(h[a].kids, v) = h[a].kids \o t
  <2>1. PICK u : u = h[a].kids
    OBVIOUS
  <2>2. Append(u, v) = u \o <<v>>
    BY <1>1, <1>2, <2>1
  <2> QED BY <1>3, <2>1, <2>2
<1>6. Attached(h, a, t, g)
  BY <1>4, <1>5, Attach
<1>7. FormedAt(g, a)
  BY <1>1, <1>6 DEF Attached, FormedAt, SameObjects
<1>8. Formed(g) /\ NoKeyTwice(g) /\ Contents(g)
  BY <1>1, <1>6, <1>7, SameTypes DEF Attached
<1> QED BY <1>6, <1>8 DEF Attached, Sound, SameObjects

(* ht_find in a heap: there is an equal key where it says, and none if it says
   that there is none. *)
FindIn(h, m, key) ==
  LET found == {i \in PairsIn(h, m) : KeyIn(h, m, i) = key}
  IN  IF found = {} THEN 0 ELSE CHOOSE i \in found : TRUE

(* ht_find finds a pair with that key if there is one. *)
LEMMA FindFacts ==
  ASSUME NEW h, NEW m, NEW q \in Nat, Len(h[m].kids) = 2 * q, NEW key
  PROVE  /\ FindIn(h, m, key) = 0 => \A i \in PairsIn(h, m) : KeyIn(h, m, i) # key
         /\ FindIn(h, m, key) # 0 => /\ FindIn(h, m, key) \in PairsIn(h, m)
                                     /\ KeyIn(h, m, FindIn(h, m, key)) = key
<1> DEFINE found == {i \in PairsIn(h, m) : KeyIn(h, m, i) = key}
<1>1. FindIn(h, m, key) = IF found = {} THEN 0 ELSE CHOOSE i \in found : TRUE
  BY DEF FindIn
<1>2. 0 \notin PairsIn(h, m)
  <2>1. PairsIn(h, m) = {2 * i - 1 : i \in 1 .. q}
    BY Pairs
  <2>2. \A i \in 1 .. q : 2 * i - 1 # 0
    OBVIOUS
  <2> QED BY <2>1, <2>2
<1>3. found # {} => FindIn(h, m, key) \in found
  BY <1>1
<1> QED BY <1>1, <1>2, <1>3

(* A pair goes behind a sequence. *)
LEMMA PairBehind ==
  ASSUME NEW S, NEW s \in Seq(S), NEW k \in S, NEW v \in S, NEW n, n = Len(s),
         NEW t, t = <<k, v>>, NEW u, u = s \o t
  PROVE  /\ u \in Seq(S) /\ Len(u) = n + 2 /\ u[n + 1] = k
         /\ \A i \in 1 .. n : u[i] = s[i]
<1>1. PICK z : z = 2
  OBVIOUS
<1>2. t \in Seq(S) /\ z = Len(t) /\ t[1] = k
  BY <1>1
<1>3. /\ u \in Seq(S) /\ Len(u) = n + z /\ n \in Nat /\ z \in Nat
      /\ \A i \in 1 .. n : u[i] = s[i]
      /\ \A i \in 1 .. z : u[n + i] = t[i]
  BY <1>2, Concat
<1>4. 1 \in 1 .. z
  BY <1>1
<1>5. u[n + 1] = t[1]
  BY SMTT(30), <1>3, <1>4
<1> QED BY <1>1, <1>2, <1>3, <1>5

(* llsd_map_insert of a key that is not there. *)
LEMMA SoundMapInsert ==
  ASSUME NEW h, Sound(h), NEW m \in LiveIn(h), h[m].kind = "map",
         NEW k \in OwnedIn(h), NEW v \in OwnedIn(h), k # v, h[k].kind = "string",
         m \notin BelowIn(h)[k], m \notin BelowIn(h)[v],
         FindIn(h, m, Text(h[k].content)) = 0,
         NEW g, g = WithKids(h, m, h[m].kids \o <<k, v>>)
  PROVE  Sound(g) /\ SameObjects(h, g)
<1>1. /\ h \in Seq(ObjectType) /\ Formed(h) /\ NoKeyTwice(h) /\ m \in DOMAIN h
      /\ k \in Nat /\ v \in Nat /\ k \in DOMAIN h
  BY Fields DEF Sound, LiveIn, OwnedIn
<1>2. PICK t : t = <<k, v>>
  OBVIOUS
<1>3. /\ t \in Seq(Nat) /\ DOMAIN t = {1, 2} /\ Len(t) = 2 /\ t[1] = k /\ t[2] = v
  BY <1>1, <1>2
<1>4. Attached(h, m, t, g)
  <2>1. g = WithKids(h, m, h[m].kids \o t)
    BY <1>2
  <2> QED BY <1>3, <2>1, Attach
<1>5. PICK q \in Nat : MapHalves(h, m, q)
  BY <1>1, FormedFacts
<1>6. PICK s : s = h[m].kids
  OBVIOUS
<1>7. s \in Seq(Nat) /\ Len(s) = 2 * q
  BY <1>1, <1>5, <1>6, Fields DEF MapHalves
<1>8. PICK u : u = g[m].kids
  OBVIOUS
<1>9. u = s \o t
  BY <1>4, <1>6, <1>8 DEF Attached
<1>10. /\ Len(u) = 2 * (q + 1) /\ \A i \in 1 .. 2 * q : u[i] = s[i]
       /\ u[2 * q + 1] = k
  <2>1. PICK l \in Nat : l = 2 * q
    OBVIOUS
  <2>2. Len(u) = l + 2 /\ u[l + 1] = k /\ \A i \in 1 .. l : u[i] = s[i]
    <3>1. l = Len(s) /\ s \in Seq(Nat)
      BY <1>7, <2>1
    <3> QED BY ONLY <1>1, <1>2, <1>9, <3>1, PairBehind
  <2> QED BY <2>1, <2>2
<1>11. /\ SameObjects(h, g)
       /\ \A i \in 1 .. q : h[s[2 * i - 1]].kind = "string" /\ s[2 * i - 1] \in DOMAIN h
  <2>1. \A i \in 1 .. q : 2 * i - 1 \in DOMAIN s
    BY <1>7
  <2> QED BY SMTT(30), <1>1, <1>4, <1>5, <1>6, <2>1, FormedFacts DEF Attached, MapHalves
<1>12. MapHalves(g, m, q + 1)
  <2>1. ASSUME NEW i \in 1 .. q + 1
        PROVE  g[u[2 * i - 1]].kind = "string"
    <3>1. CASE i \in 1 .. q
      <4>1. 2 * i - 1 \in 1 .. 2 * q
        BY <3>1
      <4>2. u[2 * i - 1] = s[2 * i - 1]
        BY <1>10, <4>1
      <4>3. PICK z : z = s[2 * i - 1]
        OBVIOUS
      <4>4. h[z].kind = "string" /\ z \in DOMAIN h
        BY <1>11, <3>1, <4>3
      <4>5. g[z].kind = "string"
        BY <1>11, <4>4 DEF SameObjects
      <4> QED BY <4>2, <4>3, <4>5
    <3>2. CASE i = q + 1
      <4>1. 2 * i - 1 = 2 * q + 1
        BY <3>2
      <4>2. u[2 * i - 1] = k
        BY <1>10, <4>1
      <4> QED BY ZenonT(60), <1>1, <1>11, <4>2 DEF SameObjects
    <3> QED BY <3>1, <3>2
  <2> QED BY <1>8, <1>10, <2>1 DEF MapHalves
<1>13. FormedAt(g, m)
  <2>1. q + 1 \in Nat
    OBVIOUS
  <2> QED BY <1>4, <1>1, <1>12, <2>1 DEF Attached, FormedAt, SameObjects
<1>14. KeysDiffer(g, m)
  <2>1. PICK p \in Nat : p = q + 1
    OBVIOUS
  <2>2. Len(g[m].kids) = 2 * p
    BY <1>8, <1>10, <2>1
  <2>3. PairsIn(g, m) = {2 * i - 1 : i \in 1 .. p}
    BY ZenonT(60), <2>2, Pairs
  <2>4. PairsIn(h, m) = {2 * i - 1 : i \in 1 .. q}
    BY <1>6, <1>7, Pairs
  <2>5. \A i \in PairsIn(g, m) : i \in PairsIn(h, m) \/ i = 2 * q + 1
    BY <2>1, <2>3, <2>4
  <2>6. ASSUME NEW i \in PairsIn(h, m)
        PROVE  KeyIn(g, m, i) = KeyIn(h, m, i) /\ KeyIn(h, m, i) # Text(h[k].content)
    <3>1. PICK j \in 1 .. q : i = 2 * j - 1
      BY <2>4
    <3>2. i \in 1 .. 2 * q
      BY <3>1
    <3>3. u[i] = s[i] /\ s[i] \in DOMAIN h
      BY <1>10, <1>11, <3>1, <3>2
    <3>4. KeyIn(g, m, i) = KeyIn(h, m, i)
      BY <1>6, <1>8, <1>11, <3>3 DEF KeyIn, SameObjects
    <3>5. KeyIn(h, m, i) # Text(h[k].content)
      BY <1>6, <1>7, FindFacts
    <3> QED BY <3>4, <3>5
  <2>7. KeyIn(g, m, 2 * q + 1) = Text(h[k].content)
    BY ZenonT(60), <1>1, <1>8, <1>10, <1>11 DEF KeyIn, SameObjects
  <2>8. KeysDiffer(h, m)
    BY <1>1 DEF NoKeyTwice
  <2> QED BY <2>5, <2>6, <2>7, <2>8 DEF KeysDiffer
<1>15. Formed(g) /\ NoKeyTwice(g) /\ Contents(g)
  BY <1>1, <1>4, <1>13, <1>14, SameTypes DEF Attached
<1> QED BY <1>4, <1>15 DEF Attached, Sound, SameObjects

(* Where the items that stay were. *)
LEMMA PastFacts ==
  ASSUME NEW p \in Nat, NEW l \in Nat
  PROVE  /\ \A i \in 1 .. l : Past(p, i) # p /\ Past(p, i) # p + 1
         /\ \A i, j \in 1 .. l : Past(p, i) = Past(p, j) => i = j
BY DEF Past

KeysStay(p, q, l) == \A i \in 1 .. q - 1 : \E j \in 1 .. q :
  Past(p, 2 * i - 1) = 2 * j - 1 /\ 2 * i - 1 \in 1 .. l
PairAt(q, a, p) == a \in 1 .. q /\ p = 2 * a - 1

(* A sequence of pairs without one of them is a sequence of pairs. *)
LEMMA CutPair ==
  ASSUME NEW u \in Seq(Nat), NEW q \in Nat, Len(u) = 2 * q, NEW a, NEW p, PairAt(q, a, p),
         NEW s, s = Without(u, p)
  PROVE  /\ CutAt(u, p, s) /\ q - 1 \in Nat /\ Len(s) = 2 * (q - 1)
         /\ KeysStay(p, q, Len(s))
<1>0. p = 2 * a - 1 /\ a \in 1 .. q
  BY DEF PairAt
<1>1. PICK w \in Nat : w = q - 1
  BY <1>0
<1>2. PICK l \in Nat : l = 2 * w
  BY <1>1
<1>3. Len(u) = l + 2
  BY <1>1, <1>2
<1>4. p \in 1 .. l + 1
  BY <1>0, <1>1, <1>2
<1>5. CutAt(u, p, s) /\ Len(s) = l
  <2>1. s = Without(u, p) /\ u \in Seq(Nat) /\ l \in Nat
    OBVIOUS
  <2> QED BY ONLY <1>3, <1>4, <2>1, Cut
<1>7. ASSUME NEW i \in 1 .. w
      PROVE  \E j \in 1 .. q : Past(p, 2 * i - 1) = 2 * j - 1 /\ 2 * i - 1 \in 1 .. l
  <2>1. 2 * i - 1 \in 1 .. l
    BY ONLY <1>2, i \in 1 .. w, w \in Nat
  <2>2. CASE i < a
    <3>1. 2 * i - 1 < p /\ i \in 1 .. q
      BY ONLY <2>2, <1>0, i \in 1 .. w, q \in Nat, w \in Nat
    <3> QED BY <2>1, <3>1 DEF Past
  <2>3. CASE ~(i < a)
    <3>1. ~(2 * i - 1 < p) /\ i + 1 \in 1 .. q
      BY ONLY <1>1, <2>3, <1>0, i \in 1 .. w, q \in Nat, w \in Nat
    <3>2. 2 * i - 1 + 2 = 2 * (i + 1) - 1
      BY ONLY i \in 1 .. w, w \in Nat
    <3> QED BY <2>1, <3>1, <3>2 DEF Past
  <2> QED BY <2>2, <2>3
<1>8. KeysStay(p, q, l)
  BY ONLY <1>1, <1>7 DEF KeysStay
<1> QED BY <1>1, <1>2, <1>5, <1>8

(* The pair whose key is found at p: the key is a leaf of its own, and the tree
   of the value holds neither the key nor the map. *)
PairOf(h, m, p, x, y) ==
  /\ x = h[m].kids[p] /\ y = h[m].kids[p + 1]
  /\ x \in LiveIn(h) /\ y \in LiveIn(h)
  /\ BelowIn(h)[x] = {x} /\ x \notin BelowIn(h)[y]
  /\ m # x /\ m \notin BelowIn(h)[y] /\ y \in BelowIn(h)[y]
  /\ BelowIn(h)[y] \subseteq LiveIn(h)
  /\ \A c \in LiveIn(h), z \in BelowIn(h)[y] : z \in KidsIn(h, c) /\ z # y => c \in BelowIn(h)[y]
  /\ \A c \in LiveIn(h) : x \in KidsIn(h, c) \/ y \in KidsIn(h, c) => c = m
  /\ \A i \in DOMAIN h[m].kids : i # p /\ i # p + 1 => h[m].kids[i] # x /\ h[m].kids[i] # y

(* A pair's key is a leaf, and the trees of key and value are apart from the map
   and from all else that is in use. *)
LEMMA PairTrees ==
  ASSUME NEW h, Sound(h), NEW m \in LiveIn(h), h[m].kind = "map",
         NEW q \in Nat, MapHalves(h, m, q), NEW a \in 1 .. q, NEW p \in Nat, p = 2 * a - 1,
         NEW x, x = h[m].kids[p], NEW y, y = h[m].kids[p + 1]
  PROVE  PairOf(h, m, p, x, y)
<1>1. /\ h \in Seq(ObjectType) /\ Formed(h) /\ HeldOnce(h) /\ Ranked(h)
      /\ m \in DOMAIN h /\ LiveIn(h) \subseteq DOMAIN h
  BY DEF Sound, LiveIn
<1>2. PICK n \in Nat : \E r \in [DOMAIN h -> 0 .. n] : Ranks(h, r, n)
  BY <1>1 DEF Ranked
<1>3. PICK r \in [DOMAIN h -> 0 .. n] : Ranks(h, r, n)
  BY <1>2
<1>4. p \in 1 .. 2 * q /\ p + 1 \in 1 .. 2 * q
  BY ONLY p = 2 * a - 1, a \in 1 .. q, q \in Nat
<1>5. DOMAIN h[m].kids = 1 .. 2 * q
  BY <1>1, Fields DEF MapHalves
<1>6. x \in KidsIn(h, m) /\ y \in KidsIn(h, m) /\ x \in LiveIn(h) /\ y \in LiveIn(h)
  <2>1. x \in KidsIn(h, m) /\ y \in KidsIn(h, m)
    BY ONLY <1>1, <1>4, <1>5, FormedFacts, x = h[m].kids[p], y = h[m].kids[p + 1]
  <2> QED BY ONLY <1>1, <2>1, m \in LiveIn(h) DEF HeldOnce
<1>7. /\ x \in DOMAIN h /\ y \in DOMAIN h
      /\ \A i \in DOMAIN h[m].kids : i # p /\ i # p + 1 => h[m].kids[i] # x /\ h[m].kids[i] # y
      /\ x # y
  <2>1. \A i, j \in DOMAIN h[m].kids : h[m].kids[i] = h[m].kids[j] => i = j
    BY <1>1 DEF HeldOnce
  <2>2. p # p + 1
    OBVIOUS
  <2> QED BY ONLY <1>1, <1>4, <1>5, <1>6, <2>1, <2>2, x = h[m].kids[p], y = h[m].kids[p + 1]
<1>8. h[x].kind = "string"
  <2>1. h[h[m].kids[2 * a - 1]].kind = "string"
    BY ONLY MapHalves(h, m, q), a \in 1 .. q DEF MapHalves
  <2> QED BY <2>1
<1>9. BelowIn(h)[x] = {x}
  <2>1. KidsIn(h, x) = {}
    BY ONLY <1>1, <1>7, <1>8, FormedFacts
  <2> QED BY ONLY <1>3, <1>7, <2>1, n \in Nat, BelowLeaf
<1>10. m \notin BelowIn(h)[y] /\ y \in BelowIn(h)[y]
  <2>1. r[y] < r[m] /\ r[y] \in Nat /\ r[m] \in Nat
    BY ONLY <1>1, <1>3, <1>6, <1>7, n \in Nat DEF Ranks
  <2> QED BY ONLY <1>3, <1>7, <2>1, n \in Nat, BelowFacts
<1>11. /\ BelowIn(h)[y] \subseteq LiveIn(h)
       /\ \A c \in LiveIn(h), z \in BelowIn(h)[y] :
            z \in KidsIn(h, c) /\ z # y => c \in BelowIn(h)[y]
  BY ONLY <1>3, <1>6, n \in Nat, Sound(h), BelowLive
<1>12. x \notin BelowIn(h)[y]
  BY ONLY <1>6, <1>7, <1>10, <1>11, m \in LiveIn(h)
<1>13. \A c \in LiveIn(h) : x \in KidsIn(h, c) \/ y \in KidsIn(h, c) => c = m
  BY ONLY <1>1, <1>6, m \in LiveIn(h) DEF HeldOnce
<1>14. m # x
  BY <1>8
<1> QED BY ONLY <1>6, <1>7, <1>9, <1>10, <1>11, <1>12, <1>13, <1>14,
                x = h[m].kids[p], y = h[m].kids[p + 1]
        DEF PairOf

(* What llsd_map_remove makes of the pair at p. *)
RemovedAt(h, m, p, g) ==
  LET f == ReleasedIn(h, {h[m].kids[p], h[m].kids[p + 1]})
  IN  g = WithKids(f, m, Without(f[m].kids, p))

(* The objects after the removal of a pair. *)
LEMMA RemovedFields ==
  ASSUME NEW h \in Seq(ObjectType), NEW m \in DOMAIN h, NEW p, NEW x, NEW y,
         PairOf(h, m, p, x, y), NEW u, u = h[m].kids,
         NEW g, RemovedAt(h, m, p, g),
         NEW s, s = Without(u, p), s \in Seq(Nat)
  PROVE  /\ SameObjects(h, g) /\ g[m].kids = s
         /\ \A o \in DOMAIN h : o # m => g[o].kids = h[o].kids
         /\ \A o \in DOMAIN h :
              g[o].freed = h[o].freed + (IF o \in {x} \union BelowIn(h)[y] THEN 1 ELSE 0)
<1>1. PICK S : S = {x, y}
  OBVIOUS
<1>2. PICK f : f = ReleasedIn(h, S)
  OBVIOUS
<1>3. PICK R : R = {x} \union BelowIn(h)[y]
  OBVIOUS
<1>4. ReleasedAre(h, f, R)
  <2>1. Apart(h, x, y) /\ R = BelowIn(h)[x] \union BelowIn(h)[y]
    BY <1>3 DEF Apart, PairOf
  <2> QED BY ONLY <1>1, <1>2, <2>1, h \in Seq(ObjectType), ReleaseCounts
<1>5. f[m].kids = u /\ SameObjects(h, f) /\ f \in Seq(ObjectType) /\ m \in DOMAIN f
  BY <1>4 DEF ReleasedAre, SameObjects
<1>6. g = WithKids(f, m, s)
  <2>1. S = {h[m].kids[p], h[m].kids[p + 1]}
    BY <1>1 DEF PairOf
  <2>2. g = WithKids(f, m, Without(f[m].kids, p))
    BY ONLY <1>2, <2>1, RemovedAt(h, m, p, g), Zenon DEF RemovedAt
  <2> QED BY ONLY <1>5, <2>2, s = Without(u, p), Zenon
<1>7. /\ SameObjects(f, g) /\ g[m].kids = s
      /\ \A o \in DOMAIN f : o # m => g[o].kids = f[o].kids
      /\ \A o \in DOMAIN f : g[o].freed = f[o].freed
  BY ONLY <1>5, <1>6, s \in Seq(Nat), KidsSet
<1>8. SameObjects(h, g) /\ DOMAIN f = DOMAIN h
  BY <1>5, <1>7, SameTwice DEF SameObjects
<1> QED BY ONLY <1>3, <1>4, <1>7, <1>8 DEF ReleasedAre

(* llsd_map_remove. *)
LEMMA SoundMapRemove ==
  ASSUME NEW h, Sound(h), NEW m \in LiveIn(h), h[m].kind = "map",
         NEW p \in PairsIn(h, m), NEW g, RemovedAt(h, m, p, g)
  PROVE  Sound(g) /\ SameObjects(h, g)
<1>1. /\ h \in Seq(ObjectType) /\ Formed(h) /\ HeldOnce(h) /\ Ranked(h) /\ NoKeyTwice(h)
      /\ m \in DOMAIN h /\ LiveIn(h) \subseteq DOMAIN h
  BY DEF Sound, LiveIn
<1>2. PICK q \in Nat : MapHalves(h, m, q)
  BY <1>1, FormedFacts
<1>3. PICK u : u = h[m].kids
  OBVIOUS
<1>4. u \in Seq(Nat) /\ Len(u) = 2 * q /\ DOMAIN u = 1 .. 2 * q
  BY <1>1, <1>2, <1>3, Fields DEF MapHalves
<1>5. PICK a \in 1 .. q : p = 2 * a - 1
  <2>1. PairsIn(h, m) = {2 * i - 1 : i \in 1 .. q}
    BY <1>3, <1>4, Pairs
  <2> QED BY ONLY <2>1, p \in PairsIn(h, m)
<1>6. PICK s : s = Without(u, p)
  OBVIOUS
<1>7. /\ CutAt(u, p, s) /\ q - 1 \in Nat /\ Len(s) = 2 * (q - 1)
      /\ KeysStay(p, q, Len(s))
  <2>1. PairAt(q, a, p)
    BY <1>5 DEF PairAt
  <2> QED BY ONLY <1>4, <1>6, <2>1, q \in Nat, CutPair
<1>8. PICK x : x = h[m].kids[p]
  OBVIOUS
<1>9. PICK y : y = h[m].kids[p + 1]
  OBVIOUS
<1>10. p \in Nat
  BY ONLY <1>5, q \in Nat
<1>11. PairOf(h, m, p, x, y)
  BY ONLY <1>2, <1>5, <1>8, <1>9, <1>10, Sound(h), m \in LiveIn(h), h[m].kind = "map",
          q \in Nat, PairTrees
<1>12. s \in Seq(Nat)
  BY <1>7 DEF CutAt
<1>13. PICK R : R = {x} \union BelowIn(h)[y]
  OBVIOUS
<1>14. /\ SameObjects(h, g) /\ g[m].kids = s
       /\ \A o \in DOMAIN h : o # m => g[o].kids = h[o].kids
       /\ \A o \in DOMAIN h : g[o].freed = h[o].freed + (IF o \in R THEN 1 ELSE 0)
  BY ONLY <1>1, <1>3, <1>6, <1>11, <1>12, <1>13, RemovedAt(h, m, p, g), RemovedFields
<1>15. PICK w \in Nat : w = q - 1
  BY <1>7
<1>16. PICK l \in Nat : l = Len(s)
  BY <1>12
<1>17. l = 2 * w /\ DOMAIN s = 1 .. l
  BY ONLY <1>7, <1>12, <1>15, <1>16, w \in Nat, q \in Nat
<1>18. /\ \A i \in 1 .. l : Past(p, i) # p /\ Past(p, i) # p + 1
       /\ \A i, j \in 1 .. l : Past(p, i) = Past(p, j) => i = j
  BY ONLY <1>10, l \in Nat, PastFacts
<1>19. \A i \in 1 .. l : s[i] = u[Past(p, i)] /\ Past(p, i) \in DOMAIN u
  BY ONLY <1>7, <1>16 DEF CutAt
<1>20. \A i, j \in DOMAIN u : u[i] = u[j] => i = j
  BY ONLY <1>1, <1>3, m \in LiveIn(h) DEF HeldOnce
<1>21. \A i \in DOMAIN u : u[i] \in DOMAIN h /\ u[i] \in KidsIn(h, m)
  BY ONLY <1>1, <1>3, FormedFacts
<1>22. \A i \in DOMAIN u : i # p /\ i # p + 1 => u[i] # x /\ u[i] # y
  BY ONLY <1>3, <1>11 DEF PairOf
<1>23. \A i \in 1 .. l : s[i] \in KidsIn(h, m) \ {x, y} /\ s[i] \in DOMAIN h
  BY ONLY <1>18, <1>19, <1>21, <1>22
<1>24. \A i, j \in 1 .. l : s[i] = s[j] => i = j
  BY ONLY <1>18, <1>19, <1>20
<1>25. KidsIn(g, m) \subseteq KidsIn(h, m) \ {x, y}
  BY ONLY <1>14, <1>17, <1>23 DEF KidsIn, ToSet
<1>26. \A o \in DOMAIN h : o # m => KidsIn(g, o) = KidsIn(h, o)
  BY ONLY <1>14 DEF KidsIn
<1>27. Ranked(g)
  <2>1. \A o \in DOMAIN h : KidsIn(g, o) \subseteq KidsIn(h, o)
    BY ONLY <1>25, <1>26
  <2>2. DOMAIN g = DOMAIN h
    BY ONLY <1>14 DEF SameObjects
  <2> QED BY ONLY <1>1, <2>1, <2>2, RankedLess
<1>28. HeldOnce(g)
  <2>1. R \subseteq LiveIn(h)
    BY ONLY <1>11, <1>13 DEF PairOf
  <2>2. ASSUME NEW c \in LiveIn(h) \ R
        PROVE  KidsIn(g, c) \subseteq KidsIn(h, c) \ R
    <3>1. KidsIn(g, c) \subseteq KidsIn(h, c) \ {x, y}
      BY ONLY <1>1, <1>11, <1>25, <1>26, c \in LiveIn(h) \ R DEF PairOf
    <3>2. ASSUME NEW z \in KidsIn(g, c), z \in R PROVE FALSE
      <4>1. z \in KidsIn(h, c) /\ z # x /\ z # y /\ z \in BelowIn(h)[y]
        BY ONLY <1>13, <3>1, <3>2
      <4>2. c \in BelowIn(h)[y]
        BY ONLY <1>11, <4>1, c \in LiveIn(h) \ R DEF PairOf
      <4> QED BY ONLY <1>13, <4>2, c \in LiveIn(h) \ R
    <3> QED BY ONLY <3>1, <3>2
  <2>3. ASSUME NEW c \in LiveIn(h) \ R
        PROVE  \A i, j \in DOMAIN g[c].kids : g[c].kids[i] = g[c].kids[j] => i = j
    <3>1. CASE c = m
      BY ONLY <1>14, <1>17, <1>24, <3>1
    <3>2. CASE c # m
      BY ONLY <1>1, <1>14, <3>2, c \in LiveIn(h) \ R DEF HeldOnce
    <3> QED BY ONLY <3>1, <3>2
  <2>4. SameObjects(h, g) /\ \A o \in DOMAIN h :
          g[o].freed = h[o].freed + (IF o \in R THEN 1 ELSE 0)
    BY ONLY <1>14
  <2> QED BY ONLY <2>1, <2>2, <2>3, <2>4, Sound(h), ReleaseHeld
<1>29. \A i \in 1 .. w : \E j \in 1 .. q :
         Past(p, 2 * i - 1) = 2 * j - 1 /\ 2 * i - 1 \in 1 .. l /\ s[2 * i - 1] = u[2 * j - 1]
  BY ONLY <1>7, <1>15, <1>16, <1>19 DEF KeysStay
<1>30. FormedAt(g, m)
  <2>1. Len(g[m].kids) = 2 * w
    BY ONLY <1>14, <1>16, <1>17
  <2>2. ASSUME NEW i \in 1 .. w
        PROVE  g[g[m].kids[2 * i - 1]].kind = "string"
    <3>1. PICK j \in 1 .. q : 2 * i - 1 \in 1 .. l /\ s[2 * i - 1] = u[2 * j - 1]
      BY ONLY <1>29, i \in 1 .. w
    <3>2. PICK k : k = s[2 * i - 1]
      OBVIOUS
    <3>3. k \in DOMAIN h
      BY ONLY <1>23, <3>1, <3>2
    <3>4. h[h[m].kids[2 * j - 1]].kind = "string"
      BY ONLY <1>2, j \in 1 .. q DEF MapHalves
    <3>5. h[k].kind = "string"
      BY ONLY <1>3, <3>1, <3>2, <3>4
    <3>6. g[k].kind = "string"
      BY ONLY <1>14, <3>3, <3>5 DEF SameObjects
    <3> QED BY ONLY <1>14, <3>2, <3>6
  <2>3. \A i \in DOMAIN g[m].kids : g[m].kids[i] \in DOMAIN g
    BY ONLY <1>14, <1>17, <1>23 DEF SameObjects
  <2>4. g[m].kind = "map"
    BY ONLY <1>1, <1>14, h[m].kind = "map" DEF SameObjects
  <2>5. MapHalves(g, m, w)
    BY ONLY <2>1, <2>2 DEF MapHalves
  <2> QED BY ONLY <2>3, <2>4, <2>5, w \in Nat DEF FormedAt
<1>31. KeysDiffer(g, m)
  <2>1. PairsIn(h, m) = {2 * i - 1 : i \in 1 .. q}
    BY ONLY <1>3, <1>4, q \in Nat, Pairs
  <2>2. PairsIn(g, m) = {2 * i - 1 : i \in 1 .. w}
    <3>1. Len(g[m].kids) = 2 * w
      BY ONLY <1>14, <1>16, <1>17
    <3> QED BY ONLY <3>1, w \in Nat, Pairs
  <2>3. ASSUME NEW i \in PairsIn(g, m)
        PROVE  /\ i \in 1 .. l /\ Past(p, i) \in PairsIn(h, m)
               /\ KeyIn(g, m, i) = KeyIn(h, m, Past(p, i))
    <3>1. i \in 1 .. l /\ Past(p, i) \in PairsIn(h, m)
      BY ONLY <1>29, <2>1, <2>2, i \in PairsIn(g, m)
    <3>2. s[i] = u[Past(p, i)] /\ s[i] \in DOMAIN h
      BY ONLY <1>19, <1>23, <3>1
    <3>3. g[s[i]].content = h[s[i]].content
      BY ONLY <1>14, <3>2 DEF SameObjects
    <3> QED BY ONLY <1>3, <1>14, <3>1, <3>2, <3>3 DEF KeyIn
  <2>4. KeysDiffer(h, m)
    BY ONLY <1>1, h[m].kind = "map" DEF NoKeyTwice
  <2> QED BY ONLY <1>18, <2>3, <2>4 DEF KeysDiffer
<1>32. Formed(g) /\ NoKeyTwice(g) /\ Contents(g)
  BY ONLY <1>14, <1>30, <1>31, Sound(h), SameTypes
<1> QED BY ONLY <1>14, <1>27, <1>28, <1>32 DEF Sound, SameObjects

-----------------------------------------------------------------------------
(* A heap and one object more that holds nothing. *)
LEMMA AppendFields ==
  ASSUME NEW h \in Seq(ObjectType), NEW x \in ObjectType, NEW g, g = Append(h, x)
  PROVE  /\ g \in Seq(ObjectType) /\ Len(h) + 1 \in DOMAIN g /\ g[Len(h) + 1] = x
         /\ Len(h) + 1 \notin DOMAIN h
         /\ DOMAIN g = DOMAIN h \union {Len(h) + 1}
         /\ \A o \in DOMAIN h : g[o] = h[o]
<1>1. PICK n \in Nat : n = Len(h)
  OBVIOUS
<1>2. /\ g \in Seq(ObjectType) /\ Len(g) = n + 1 /\ g[n + 1] = x
      /\ \A o \in 1 .. n : g[o] = h[o]
  BY <1>1
<1>3. DOMAIN h = 1 .. n /\ DOMAIN g = 1 .. n + 1
  BY <1>1, <1>2
<1> QED BY ONLY <1>1, <1>2, <1>3

(* A new object, which holds nothing, keeps a heap sound. *)
LEMMA SoundAppend ==
  ASSUME NEW h, Sound(h), NEW x \in ObjectType, x.kids = << >>, x.freed = 0,
         IF x.made = <<0, 0>>
         THEN x.content.of = x.kind /\ Carries(x.kind, x.content.val)
         ELSE x.kind \in {"string", "binary"},
         NEW g, g = Append(h, x)
  PROVE  Sound(g)
<1>1. h \in Seq(ObjectType) /\ Formed(h) /\ HeldOnce(h) /\ Ranked(h) /\ NoKeyTwice(h) /\ Contents(h)
  BY DEF Sound
<1>2. PICK w : w = Len(h) + 1
  OBVIOUS
<1>3. /\ g \in Seq(ObjectType) /\ g[w] = x /\ w \notin DOMAIN h
      /\ DOMAIN g = DOMAIN h \union {w} /\ \A o \in DOMAIN h : g[o] = h[o]
  BY ONLY <1>1, <1>2, x \in ObjectType, g = Append(h, x), AppendFields
<1>4. KidsIn(g, w) = {} /\ \A o \in DOMAIN h : KidsIn(g, o) = KidsIn(h, o)
  <2>1. DOMAIN x.kids = {}
    OBVIOUS
  <2> QED BY <1>3, <2>1 DEF KidsIn, ToSet
<1>5. ASSUME NEW o \in DOMAIN h
      PROVE  /\ KidsIn(h, o) \subseteq DOMAIN h
             /\ \A i \in DOMAIN h[o].kids : h[o].kids[i] \in DOMAIN h
             /\ FormedAt(h, o)
  BY <1>1, FormedFacts
<1>6. Formed(g)
  <2>1. ASSUME NEW o \in DOMAIN h PROVE FormedAt(g, o)
    <3>1. ASSUME NEW q \in Nat, MapHalves(h, o, q) PROVE MapHalves(g, o, q)
      <4>1. Len(h[o].kids) = 2 * q
        BY <3>1 DEF MapHalves
      <4>2. ASSUME NEW i \in 1 .. q
            PROVE  g[g[o].kids[2 * i - 1]].kind = "string"
        <5>1. 2 * i - 1 \in DOMAIN h[o].kids
          BY <1>1, <4>1, Fields
        <5>2. PICK k : k = h[o].kids[2 * i - 1]
          OBVIOUS
        <5>3. k \in DOMAIN h /\ h[k].kind = "string"
          BY <1>5, <3>1, <5>1, <5>2 DEF MapHalves
        <5> QED BY <1>3, <5>2, <5>3
      <4> QED BY <1>3, <4>1, <4>2 DEF MapHalves
    <3> QED BY <1>3, <1>5, <3>1 DEF FormedAt
  <2>2. FormedAt(g, w)
    <3>1. MapHalves(g, w, 0)
      BY <1>3 DEF MapHalves
    <3> QED BY <1>3, <3>1 DEF FormedAt
  <2> QED BY <1>3, <2>1, <2>2, FormedFrom
<1>7. Ranked(g)
  <2>1. PICK n \in Nat : \E r \in [DOMAIN h -> 0 .. n] : Ranks(h, r, n)
    BY <1>1 DEF Ranked
  <2>2. PICK r \in [DOMAIN h -> 0 .. n] : Ranks(h, r, n)
    BY <2>1
  <2> DEFINE q == [o \in DOMAIN g |-> IF o = w THEN 0 ELSE r[o]]
  <2>3. q \in [DOMAIN g -> 0 .. n]
    BY <1>3
  <2>4. Ranks(g, q, n)
    BY <1>3, <1>4, <2>2, <2>3 DEF Ranks
  <2> HIDE DEF q
  <2> QED BY <2>3, <2>4 DEF Ranked
<1>8. HeldOnce(g)
  <2>1. LiveIn(g) = LiveIn(h) \union {w} /\ LiveIn(h) \subseteq DOMAIN h
    BY <1>3 DEF LiveIn
  <2>2. \A o \in DOMAIN g : g[o].freed <= 1
    BY <1>1, <1>3 DEF HeldOnce
  <2>3. \A c \in LiveIn(g) : KidsIn(g, c) \subseteq LiveIn(g)
    BY <1>1, <1>4, <2>1 DEF HeldOnce
  <2>4. \A c \in LiveIn(g) : \A i, j \in DOMAIN g[c].kids : g[c].kids[i] = g[c].kids[j] => i = j
    BY <1>1, <1>3, <2>1 DEF HeldOnce
  <2>5. \A c, d \in LiveIn(g) : c # d => KidsIn(g, c) \intersect KidsIn(g, d) = {}
    BY <1>1, <1>4, <2>1 DEF HeldOnce
  <2> QED BY <2>2, <2>3, <2>4, <2>5 DEF HeldOnce
<1>9. NoKeyTwice(g)
  <2>1. ASSUME NEW m \in DOMAIN h, h[m].kind = "map" PROVE KeysDiffer(g, m)
    <3>1. KeysDiffer(h, m)
      BY <1>1, <2>1 DEF NoKeyTwice
    <3>2. PICK q \in Nat : MapHalves(h, m, q)
      BY <1>1, <2>1, FormedFacts
    <3>3. Len(h[m].kids) = 2 * q
      BY <3>2 DEF MapHalves
    <3>4. PairsIn(h, m) = {2 * i - 1 : i \in 1 .. q}
      BY <3>3, Pairs
    <3>5. PairsIn(g, m) = PairsIn(h, m)
      BY <1>3 DEF PairsIn
    <3>6. ASSUME NEW i \in PairsIn(h, m)
          PROVE  KeyIn(g, m, i) = KeyIn(h, m, i)
      <4>1. i \in DOMAIN h[m].kids
        BY <1>1, <3>3, <3>4, Fields
      <4>2. h[m].kids[i] \in DOMAIN h
        BY <1>5, <4>1
      <4> QED BY <1>3, <4>2 DEF KeyIn
    <3> QED BY <3>1, <3>5, <3>6 DEF KeysDiffer
  <2>2. ASSUME g[w].kind = "map" PROVE KeysDiffer(g, w)
    <3>1. Len(g[w].kids) = 2 * 0
      BY <1>3
    <3>2. PICK z \in Nat : z = 0
      OBVIOUS
    <3>3. Len(g[w].kids) = 2 * z
      BY <3>1, <3>2
    <3>4. PairsIn(g, w) = {2 * i - 1 : i \in 1 .. z}
      BY <3>3, Pairs
    <3>5. PairsIn(g, w) = {}
      BY <3>2, <3>4
    <3> QED BY <3>5 DEF KeysDiffer
  <2> QED BY <1>3, <2>1, <2>2 DEF NoKeyTwice
<1>10. Contents(g)
  BY <1>1, <1>3 DEF Contents
<1> QED BY <1>3, <1>6, <1>7, <1>8, <1>9, <1>10 DEF Sound

(* What a parse leaves: every object is held by an older one. *)
LEMMA SoundParsed ==
  ASSUME NEW h, AsParsed(h)
  PROVE  Sound(h)
<1>1. h \in Seq(ObjectType) /\ Formed(h)
  BY DEF AsParsed
<1>2. \A o \in DOMAIN h :
        /\ h[o].made = <<0, 0>> /\ h[o].freed = 0
        /\ h[o].content.of = h[o].kind /\ Carries(h[o].kind, h[o].content.val)
  BY DEF AsParsed
<1>9. \A o \in DOMAIN h : \A i \in DOMAIN h[o].kids : h[o].kids[i] > o
  BY DEF AsParsed
<1>10. \A o, p \in DOMAIN h : \A i \in DOMAIN h[o].kids, j \in DOMAIN h[p].kids :
         h[p].kids[j] = h[o].kids[i] => p = o /\ j = i
  BY DEF AsParsed
<1>11. ASSUME NEW o \in DOMAIN h, h[o].kind = "map",
              NEW i \in 1 .. Len(h[o].kids) \div 2, NEW j \in 1 .. Len(h[o].kids) \div 2,
              Text(h[h[o].kids[2 * i - 1]].content)
                = Text(h[h[o].kids[2 * j - 1]].content)
       PROVE  i = j
  BY <1>11, Zenon DEF AsParsed
<1>3. Len(h) \in Nat /\ DOMAIN h = 1 .. Len(h)
  BY <1>1
<1>4. \A o \in DOMAIN h : KidsIn(h, o) \subseteq DOMAIN h
                          /\ KidsIn(h, o) = {h[o].kids[i] : i \in DOMAIN h[o].kids}
  BY <1>1, Fields, FormedFacts
<1>5. Ranked(h)
  <2>1. PICK n \in Nat : n = Len(h)
    BY <1>3
  <2> DEFINE r == [o \in DOMAIN h |-> n - o]
  <2>2. r \in [DOMAIN h -> 0 .. n]
    BY <1>3, <2>1
  <2>3. ASSUME NEW o \in DOMAIN h, NEW k \in KidsIn(h, o)
        PROVE  k \in DOMAIN h /\ r[k] < r[o]
    <3>1. k \in DOMAIN h /\ k > o
      BY <1>4, <1>9
    <3> QED BY <1>3, <2>1, <3>1
  <2> HIDE DEF r
  <2>4. Ranks(h, r, n)
    BY <2>2, <2>3 DEF Ranks
  <2> QED BY SMTT(30), <2>2, <2>4 DEF Ranked
<1>6. HeldOnce(h)
  <2>1. LiveIn(h) = DOMAIN h
    BY <1>2 DEF LiveIn
  <2>2. \A o \in DOMAIN h : h[o].freed <= 1
    BY <1>2
  <2>3. \A c, d \in DOMAIN h : c # d => KidsIn(h, c) \intersect KidsIn(h, d) = {}
    BY <1>4, <1>10
  <2>4. \A c \in DOMAIN h : \A i, j \in DOMAIN h[c].kids : h[c].kids[i] = h[c].kids[j] => i = j
    BY <1>10
  <2> QED BY <1>4, <2>1, <2>2, <2>3, <2>4 DEF HeldOnce
<1>7. NoKeyTwice(h)
  <2>1. ASSUME NEW m \in DOMAIN h, h[m].kind = "map",
               NEW i \in PairsIn(h, m), NEW j \in PairsIn(h, m), KeyIn(h, m, i) = KeyIn(h, m, j)
        PROVE  i = j
    <3>1. PICK a \in 1 .. Len(h[m].kids) \div 2 : i = 2 * a - 1
      BY DEF PairsIn
    <3>2. PICK b \in 1 .. Len(h[m].kids) \div 2 : j = 2 * b - 1
      BY DEF PairsIn
    <3>3. a = b
      BY <1>11, <2>1, <3>1, <3>2 DEF KeyIn
    <3> QED BY <3>1, <3>2, <3>3
  <2> QED BY <2>1 DEF NoKeyTwice, KeysDiffer
<1>8. Contents(h)
  BY <1>2 DEF Contents
<1> QED BY <1>1, <1>5, <1>6, <1>7, <1>8 DEF Sound

(* Sound says what OwnedOnce does. *)
LEMMA SoundOwned ==
  ASSUME Sound(heap)
  PROVE  OwnedOnce
<1>1. /\ heap \in Seq(ObjectType) /\ HeldOnce(heap)
      /\ Live = LiveIn(heap) /\ Live \subseteq DOMAIN heap
  BY DEF Sound, Live, LiveIn
<1>2. \A c \in Live : Kids(c) = KidsIn(heap, c)
  BY DEF Kids, KidsIn
<1>3. ASSUME NEW c \in Live
      PROVE  Cardinality(Kids(c)) = Len(heap[c].kids)
  <2>1. PICK s : s = heap[c].kids
    OBVIOUS
  <2>2. PICK n : n = Len(s)
    OBVIOUS
  <2>3. s \in Seq(Nat) /\ DOMAIN s = 1 .. n /\ n \in Nat
    BY <1>1, <2>1, <2>2, Fields
  <2>4. Kids(c) = {s[i] : i \in 1 .. n}
    BY <1>1, <1>2, <2>1, <2>3, Fields
  <2>5. \A i, j \in 1 .. n : s[i] = s[j] => i = j
    BY <1>1, <2>1, <2>3 DEF HeldOnce
  <2>6. ExistsBijection(1 .. n, Kids(c))
    <3>1. s \in [1 .. n -> Kids(c)]
      BY <2>3, <2>4
    <3>2. \A t \in Kids(c) : \E i \in 1 .. n : s[i] = t
      BY <2>4
    <3>3. s \in Bijection(1 .. n, Kids(c))
      BY ONLY <2>5, <3>1, <3>2 DEF Bijection, Injection, Surjection, IsInjective
    <3> QED BY <3>3 DEF ExistsBijection
  <2>7. Cardinality(Kids(c)) = n
    BY ONLY <2>3, <2>6, FS_CountingElements
  <2> QED BY <2>1, <2>2, <2>7
<1> QED BY <1>1, <1>2, <1>3 DEF OwnedOnce, HeldOnce

-----------------------------------------------------------------------------
(* llsd_equal and Shape in a heap. *)
FindValue(h, m, key) == IF FindIn(h, m, key) = 0 THEN 0 ELSE h[m].kids[FindIn(h, m, key) + 1]
EqualStep(h, p, E) ==
  LET x == h[p[1]]
      y == h[p[2]]
  IN  /\ x.kind = y.kind
      /\ CASE x.kind = "array" ->
                /\ Len(x.kids) = Len(y.kids)
                /\ \A i \in DOMAIN x.kids : E[<<x.kids[i], y.kids[i]>>]
           [] x.kind = "map" ->
                /\ Len(x.kids) = Len(y.kids)
                /\ \A i \in PairsIn(h, p[1]) :
                     LET rv == FindValue(h, p[2], KeyIn(h, p[1], i))
                     IN  rv # 0 /\ E[<<x.kids[i + 1], rv>>]
           [] OTHER -> Compared(x) = Compared(y)
EqualIn(h) == LET E[p \in (DOMAIN h) \X (DOMAIN h)] == EqualStep(h, p, E) IN E

ShapeStep(h, o, S) ==
  LET x == h[o]
  IN  [kind |-> x.kind, content |-> Compared(x),
       items |-> IF x.kind = "map"
                 THEN {<<KeyIn(h, o, i), S[x.kids[i + 1]]>> : i \in PairsIn(h, o)}
                 ELSE {<<i, S[x.kids[i]]>> : i \in DOMAIN x.kids}]
ShapeIn(h) == LET S[o \in DOMAIN h] == ShapeStep(h, o, S) IN S

(* The values of a map's pairs are objects of the heap, held by it. *)
LEMMA Values ==
  ASSUME NEW h \in Seq(ObjectType), Formed(h), NEW m \in DOMAIN h, h[m].kind = "map",
         NEW i \in PairsIn(h, m)
  PROVE  h[m].kids[i + 1] \in KidsIn(h, m) /\ h[m].kids[i + 1] \in DOMAIN h
<1>1. PICK q \in Nat : MapHalves(h, m, q)
  BY FormedFacts
<1>2. Len(h[m].kids) = 2 * q /\ PairsIn(h, m) = {2 * j - 1 : j \in 1 .. q}
  BY <1>1, Pairs DEF MapHalves
<1>3. PICK j \in 1 .. q : i = 2 * j - 1
  BY <1>2
<1>4. i + 1 \in 1 .. 2 * q
  BY <1>3
<1>5. i + 1 \in DOMAIN h[m].kids
  BY <1>2, <1>4, Fields
<1> QED BY <1>5, FormedFacts

(* A value that is found is an object. *)
LEMMA Found ==
  ASSUME NEW h \in Seq(ObjectType), Formed(h), NEW m \in DOMAIN h, h[m].kind = "map", NEW key
  PROVE  IF FindIn(h, m, key) = 0 THEN FindValue(h, m, key) = 0
         ELSE /\ FindIn(h, m, key) \in PairsIn(h, m) /\ KeyIn(h, m, FindIn(h, m, key)) = key
              /\ FindValue(h, m, key) = h[m].kids[FindIn(h, m, key) + 1]
              /\ FindValue(h, m, key) \in DOMAIN h /\ FindValue(h, m, key) # 0
<1>1. PICK q \in Nat : MapHalves(h, m, q)
  BY FormedFacts
<1>2. Len(h[m].kids) = 2 * q
  BY <1>1 DEF MapHalves
<1>3. FindIn(h, m, key) # 0 => /\ FindIn(h, m, key) \in PairsIn(h, m)
                               /\ KeyIn(h, m, FindIn(h, m, key)) = key
  BY <1>2, FindFacts
<1>4. 0 \notin DOMAIN h
  OBVIOUS
<1> QED BY <1>3, <1>4, Values DEF FindValue

(* llsd_equal goes from two values to items of the left one: its equation
   holds for left values of the n lowest ranks, for every n. *)
LEMMA EqualEquation ==
  ASSUME NEW h \in Seq(ObjectType), Formed(h), NEW n \in Nat, NEW r, Ranks(h, r, n),
         NEW o \in (DOMAIN h) \X (DOMAIN h)
  PROVE  EqualIn(h)[o] = EqualStep(h, o, EqualIn(h))
<1> DEFINE B == CHOOSE B : B = [a \in (DOMAIN h) \X (DOMAIN h) |-> EqualStep(h, a, B)]
           Good(k, f) ==
             \A a \in (DOMAIN h) \X (DOMAIN h) : r[a[1]] < k => f[a] = EqualStep(h, a, f)
           T == {k \in Nat : \A f : ~Good(k, f)}
<1>1. EqualIn(h) = B
  BY DEF EqualIn
<1>2. r \in [DOMAIN h -> 0 .. n]
  BY DEF Ranks
<1>3. ASSUME NEW f, NEW g, NEW a \in (DOMAIN h) \X (DOMAIN h),
             \A k \in (DOMAIN h) \X (DOMAIN h) : r[k[1]] < r[a[1]] => f[k] = g[k]
      PROVE  EqualStep(h, a, f) = EqualStep(h, a, g)
  <2>1. PICK x : x = a[1]
    OBVIOUS
  <2>2. PICK y : y = a[2]
    OBVIOUS
  <2>3. x \in DOMAIN h /\ y \in DOMAIN h
    BY <2>1, <2>2
  <2>4. ASSUME NEW k \in KidsIn(h, x), NEW l \in DOMAIN h
        PROVE  f[<<k, l>>] = g[<<k, l>>]
    <3>1. k \in DOMAIN h /\ r[k] < r[a[1]]
      BY <2>1, <2>3 DEF Ranks
    <3>2. <<k, l>> \in (DOMAIN h) \X (DOMAIN h) /\ <<k, l>>[1] = k
      BY <3>1
    <3> QED BY <1>3, <3>1, <3>2
  <2>5. CASE h[x].kind # h[y].kind
    BY <2>1, <2>2, <2>5 DEF EqualStep
  <2>6. CASE h[x].kind = h[y].kind /\ h[x].kind = "array"
    <3>1. ASSUME Len(h[x].kids) = Len(h[y].kids), NEW i \in DOMAIN h[x].kids
          PROVE  f[<<h[x].kids[i], h[y].kids[i]>>] = g[<<h[x].kids[i], h[y].kids[i]>>]
      <4>1. i \in DOMAIN h[y].kids
        BY <2>3, <3>1, Fields
      <4> QED BY <2>3, <2>4, <4>1, FormedFacts
    <3> QED BY <2>1, <2>2, <2>6, <3>1 DEF EqualStep
  <2>7. CASE h[x].kind = h[y].kind /\ h[x].kind = "map"
    <3>1. ASSUME NEW i \in PairsIn(h, x)
          PROVE  LET rv == FindValue(h, y, KeyIn(h, x, i))
                 IN  rv # 0 => f[<<h[x].kids[i + 1], rv>>] = g[<<h[x].kids[i + 1], rv>>]
      <4>1. h[x].kids[i + 1] \in KidsIn(h, x)
        BY <2>3, <2>7, Values
      <4>2. PICK rv : rv = FindValue(h, y, KeyIn(h, x, i))
        OBVIOUS
      <4>3. rv # 0 => rv \in DOMAIN h
        BY <2>3, <2>7, <4>2, Found
      <4> QED BY <2>4, <4>1, <4>2, <4>3
    <3> QED BY <2>1, <2>2, <2>7, <3>1 DEF EqualStep
  <2>8. CASE h[x].kind # "array" /\ h[x].kind # "map"
    BY <2>1, <2>2, <2>8 DEF EqualStep
  <2> QED BY <2>5, <2>6, <2>7, <2>8
<1> HIDE DEF B
<1>4. T = {}
  <2> SUFFICES ASSUME T # {} PROVE FALSE
    OBVIOUS
  <2>1. PICK t \in T : \A u \in T : t <= u
    <3> HIDE DEF Good
    <3>1. T \subseteq Nat
      OBVIOUS
    <3> HIDE DEF T
    <3> QED BY <3>1, LeastNumber
  <2>2. t \in Nat /\ \A f : ~Good(t, f)
    OBVIOUS
  <2>3. t # 0
    <3> SUFFICES ASSUME t = 0 PROVE FALSE
      OBVIOUS
    <3>1. Good(t, [a \in {} |-> 0])
      BY <1>2
    <3> QED BY <2>2, <3>1
  <2>4. PICK k \in Nat : t = k + 1
    <3>1. t - 1 \in Nat /\ t = (t - 1) + 1
      BY <2>2, <2>3
    <3> QED BY <3>1
  <2>5. PICK f : Good(k, f)
    <3>1. k \notin T
      <4> HIDE DEF T
      <4> QED BY <2>1, <2>2, <2>4
    <3> QED BY <3>1
  <2> DEFINE g == [a \in (DOMAIN h) \X (DOMAIN h) |-> EqualStep(h, a, f)]
  <2>6. ASSUME NEW a \in (DOMAIN h) \X (DOMAIN h), r[a[1]] < t
        PROVE  g[a] = EqualStep(h, a, g)
    <3>1. \A b \in (DOMAIN h) \X (DOMAIN h) : r[b[1]] < r[a[1]] => f[b] = g[b]
      <4>1. ASSUME NEW b \in (DOMAIN h) \X (DOMAIN h), r[b[1]] < r[a[1]]
            PROVE  f[b] = g[b]
        <5>1. r[b[1]] \in Nat /\ r[a[1]] \in Nat
          BY <1>2
        <5>2. r[b[1]] < k
          <6>1. PICK i : i = r[b[1]]
            OBVIOUS
          <6>2. PICK j : j = r[a[1]]
            OBVIOUS
          <6>3. i \in Nat /\ j \in Nat /\ i < j /\ j < k + 1
            BY <2>4, <2>6, <4>1, <5>1, <6>1, <6>2
          <6>4. i < k
            BY ONLY <6>3, k \in Nat
          <6> QED BY <6>1, <6>4
        <5>3. f[b] = EqualStep(h, b, f)
          BY <2>5, <5>2
        <5> QED BY <5>3
      <4> HIDE DEF g
      <4> QED BY <4>1
    <3> HIDE DEF g
    <3>2. EqualStep(h, a, f) = EqualStep(h, a, g)
      BY ZenonT(60), <1>3, <3>1
    <3>3. g[a] = EqualStep(h, a, f)
      BY DEF g
    <3> QED BY <3>2, <3>3
  <2>7. Good(t, g)
    <3> HIDE DEF g
    <3> QED BY <2>6
  <2> HIDE DEF g, Good
  <2> QED BY <2>2, <2>7
<1>5. PICK f : Good(n + 1, f)
  <2>1. n + 1 \notin T
    <3> HIDE DEF T
    <3> QED BY <1>4
  <2> HIDE DEF Good
  <2> QED BY <2>1
<1> DEFINE g == [a \in (DOMAIN h) \X (DOMAIN h) |-> EqualStep(h, a, f)]
<1>6. \A a \in (DOMAIN h) \X (DOMAIN h) : f[a] = g[a]
  BY <1>2, <1>5
<1>7. ASSUME NEW a \in (DOMAIN h) \X (DOMAIN h)
      PROVE  g[a] = EqualStep(h, a, g)
  <2>1. g[a] = EqualStep(h, a, f)
    OBVIOUS
  <2> HIDE DEF g
  <2>2. EqualStep(h, a, f) = EqualStep(h, a, g)
    BY <1>3, <1>6
  <2> QED BY <2>1, <2>2
<1>8. g = [a \in (DOMAIN h) \X (DOMAIN h) |-> EqualStep(h, a, g)]
  <2>1. \A a \in (DOMAIN h) \X (DOMAIN h) : g[a] = EqualStep(h, a, g)
    <3> HIDE DEF g
    <3> QED BY <1>7
  <2>2. g = [a \in (DOMAIN h) \X (DOMAIN h) |-> g[a]]
    OBVIOUS
  <2> HIDE DEF g
  <2> QED BY <2>1, <2>2, Zenon
<1> HIDE DEF g, Good, T
<1>9. B = [a \in (DOMAIN h) \X (DOMAIN h) |-> EqualStep(h, a, B)]
  BY <1>8, Zenon DEF B
<1>10. B[o] = EqualStep(h, o, B)
  BY <1>9, Zenon
<1> QED BY <1>1, <1>10, Zenon

(* Shape satisfies its equation. *)
LEMMA ShapeEquation ==
  ASSUME NEW h \in Seq(ObjectType), Formed(h), NEW n \in Nat, NEW r, Ranks(h, r, n),
         NEW o \in DOMAIN h
  PROVE  ShapeIn(h)[o] = ShapeStep(h, o, ShapeIn(h))
<1> DEFINE B == CHOOSE B : B = [a \in DOMAIN h |-> ShapeStep(h, a, B)]
           Good(k, f) == \A a \in DOMAIN h : r[a] < k => f[a] = ShapeStep(h, a, f)
           T == {k \in Nat : \A f : ~Good(k, f)}
<1>1. ShapeIn(h) = B
  BY DEF ShapeIn
<1>2. r \in [DOMAIN h -> 0 .. n]
  BY DEF Ranks
<1>3. ASSUME NEW f, NEW g, NEW a \in DOMAIN h,
             \A k \in DOMAIN h : r[k] < r[a] => f[k] = g[k]
      PROVE  ShapeStep(h, a, f) = ShapeStep(h, a, g)
  <2>1. \A k \in KidsIn(h, a) : f[k] = g[k]
    BY <1>3 DEF Ranks
  <2>2. CASE h[a].kind = "map"
    <3>1. \A i \in PairsIn(h, a) : f[h[a].kids[i + 1]] = g[h[a].kids[i + 1]]
      BY <2>1, <2>2, Values
    <3>2. {<<KeyIn(h, a, i), f[h[a].kids[i + 1]]>> : i \in PairsIn(h, a)}
            = {<<KeyIn(h, a, i), g[h[a].kids[i + 1]]>> : i \in PairsIn(h, a)}
      BY ONLY <3>1
    <3> QED BY ONLY <2>2, <3>2, Zenon DEF ShapeStep
  <2>3. CASE h[a].kind # "map"
    <3>1. \A i \in DOMAIN h[a].kids : f[h[a].kids[i]] = g[h[a].kids[i]]
      BY <2>1, FormedFacts
    <3>2. {<<i, f[h[a].kids[i]]>> : i \in DOMAIN h[a].kids}
            = {<<i, g[h[a].kids[i]]>> : i \in DOMAIN h[a].kids}
      BY ONLY <3>1
    <3> QED BY ONLY <2>3, <3>2, Zenon DEF ShapeStep
  <2> QED BY <2>2, <2>3
<1> HIDE DEF B
<1>4. T = {}
  <2> SUFFICES ASSUME T # {} PROVE FALSE
    OBVIOUS
  <2>1. PICK t \in T : \A u \in T : t <= u
    <3> HIDE DEF Good
    <3>1. T \subseteq Nat
      OBVIOUS
    <3> HIDE DEF T
    <3> QED BY <3>1, LeastNumber
  <2>2. t \in Nat /\ \A f : ~Good(t, f)
    OBVIOUS
  <2>3. t # 0
    <3> SUFFICES ASSUME t = 0 PROVE FALSE
      OBVIOUS
    <3>1. Good(t, [a \in {} |-> 0])
      BY <1>2
    <3> QED BY <2>2, <3>1
  <2>4. PICK k \in Nat : t = k + 1
    <3>1. t - 1 \in Nat /\ t = (t - 1) + 1
      BY <2>2, <2>3
    <3> QED BY <3>1
  <2>5. PICK f : Good(k, f)
    <3>1. k \notin T
      BY <2>1, <2>2, <2>4
    <3> QED BY <3>1
  <2> DEFINE g == [a \in DOMAIN h |-> ShapeStep(h, a, f)]
  <2>6. ASSUME NEW a \in DOMAIN h, r[a] < t
        PROVE  g[a] = ShapeStep(h, a, g)
    <3>1. \A b \in DOMAIN h : r[b] < r[a] => f[b] = g[b]
      BY <1>2, <2>4, <2>5, <2>6
    <3> HIDE DEF g
    <3>2. ShapeStep(h, a, f) = ShapeStep(h, a, g)
      BY <1>3, <3>1
    <3>3. g[a] = ShapeStep(h, a, f)
      BY DEF g
    <3> QED BY <3>2, <3>3
  <2>7. Good(t, g)
    <3> HIDE DEF g
    <3> QED BY <2>6
  <2> HIDE DEF g, Good
  <2> QED BY <2>2, <2>7
<1>5. PICK f : Good(n + 1, f)
  <2>1. n + 1 \notin T
    <3> HIDE DEF T
    <3> QED BY <1>4
  <2> HIDE DEF Good
  <2> QED BY <2>1
<1> DEFINE g == [a \in DOMAIN h |-> ShapeStep(h, a, f)]
<1>6. \A a \in DOMAIN h : f[a] = g[a]
  BY <1>2, <1>5
<1>7. ASSUME NEW a \in DOMAIN h
      PROVE  g[a] = ShapeStep(h, a, g)
  <2>1. g[a] = ShapeStep(h, a, f)
    OBVIOUS
  <2> HIDE DEF g
  <2>2. ShapeStep(h, a, f) = ShapeStep(h, a, g)
    BY <1>3, <1>6
  <2> QED BY <2>1, <2>2
<1>8. g = [a \in DOMAIN h |-> ShapeStep(h, a, g)]
  <2>1. \A a \in DOMAIN h : g[a] = ShapeStep(h, a, g)
    <3> HIDE DEF g
    <3> QED BY <1>7
  <2>2. g = [a \in DOMAIN h |-> g[a]]
    OBVIOUS
  <2> HIDE DEF g
  <2> QED BY <2>1, <2>2, Zenon
<1> HIDE DEF g, Good, T
<1>9. B = [a \in DOMAIN h |-> ShapeStep(h, a, B)]
  BY <1>8, Zenon DEF B
<1>10. B[o] = ShapeStep(h, o, B)
  BY <1>9, Zenon
<1> QED BY <1>1, <1>10, Zenon

(* Two lists of items make one set of numbered items if they are one list. *)
ItemSet(f, n) == {<<i, f[i]>> : i \in 1 .. n}
OneList(f, n, g, m) == n = m /\ \A i \in 1 .. n : f[i] = g[i]

(* The sets are equal exactly if the lists are. *)
LEMMA NumberedItems ==
  ASSUME NEW n \in Nat, NEW m \in Nat, NEW f, NEW g
  PROVE  ItemSet(f, n) = ItemSet(g, m) <=> OneList(f, n, g, m)
<1> DEFINE X == {<<i, f[i]>> : i \in 1 .. n}
           Y == {<<i, g[i]>> : i \in 1 .. m}
<1>1. ASSUME X = Y PROVE n = m /\ \A i \in 1 .. n : f[i] = g[i]
  <2>1. ASSUME NEW i \in 1 .. n PROVE i \in 1 .. m /\ f[i] = g[i]
    <3>1. <<i, f[i]>> \in Y
      BY <1>1
    <3>2. PICK j \in 1 .. m : <<i, f[i]>> = <<j, g[j]>>
      BY <3>1
    <3> QED BY <3>2
  <2>2. ASSUME NEW i \in 1 .. m PROVE i \in 1 .. n
    <3>1. <<i, g[i]>> \in X
      BY <1>1
    <3>2. PICK j \in 1 .. n : <<i, g[i]>> = <<j, f[j]>>
      BY <3>1
    <3> QED BY <3>2
  <2>3. n <= m
    <3>1. n > 0 => n \in 1 .. n
      OBVIOUS
    <3>2. n > 0 => n \in 1 .. m
      BY <2>1, <3>1
    <3> QED BY <3>2
  <2>4. m <= n
    <3>1. m > 0 => m \in 1 .. m
      OBVIOUS
    <3>2. m > 0 => m \in 1 .. n
      BY <2>2, <3>1
    <3> QED BY <3>2
  <2> QED BY <2>1, <2>3, <2>4
<1>2. ASSUME n = m, \A i \in 1 .. n : f[i] = g[i] PROVE X = Y
  BY <1>2
<1> QED BY <1>1, <1>2 DEF ItemSet, OneList

(* k tells n pairs apart. *)
Distinct(k, n) == \A i, j \in 1 .. n : k[i] = k[j] => i = j
Image(k, n) == {k[i] : i \in 1 .. n}

(* There are as many keys as pairs. *)
LEMMA ImageSize ==
  ASSUME NEW n \in Nat, NEW k, Distinct(k, n)
  PROVE  IsFiniteSet(Image(k, n)) /\ Cardinality(Image(k, n)) = n
<1> DEFINE f == [i \in 1 .. n |-> k[i]]
<1>1. f \in [1 .. n -> Image(k, n)]
  BY DEF Image
<1>2. \A t \in Image(k, n) : \E i \in 1 .. n : f[i] = t
  BY DEF Image
<1>3. \A i, j \in 1 .. n : f[i] = f[j] => i = j
  BY DEF Distinct
<1> HIDE DEF f
<1>4. f \in Bijection(1 .. n, Image(k, n))
  BY ONLY <1>1, <1>2, <1>3 DEF Bijection, Injection, Surjection, IsInjective
<1>5. ExistsBijection(1 .. n, Image(k, n))
  BY <1>4 DEF ExistsBijection
<1> QED BY ONLY <1>5, n \in Nat, FS_CountingElements, FS_NatBijection

(* Two maps of one size, keys without repetitions: if every pair of the one is
   a pair of the other, the other has no more. *)
PairSet(k, v, n) == {<<k[i], v[i]>> : i \in 1 .. n}
PairsMatch(k, v, n, l, w, m) ==
  n = m /\ \A i \in 1 .. n : \E j \in 1 .. m : l[j] = k[i] /\ v[i] = w[j]

(* The sets of the pairs are equal exactly if every pair has its match. *)
LEMMA PairSets ==
  ASSUME NEW n \in Nat, NEW m \in Nat, NEW k, NEW v, NEW l, NEW w,
         Distinct(k, n), Distinct(l, m)
  PROVE  PairSet(k, v, n) = PairSet(l, w, m) <=> PairsMatch(k, v, n, l, w, m)
<1>1. ASSUME PairSet(k, v, n) = PairSet(l, w, m)
      PROVE  n = m /\ \A i \in 1 .. n : \E j \in 1 .. m : l[j] = k[i] /\ v[i] = w[j]
  <2>1. ASSUME NEW i \in 1 .. n
        PROVE  \E j \in 1 .. m : l[j] = k[i] /\ v[i] = w[j]
    <3>1. <<k[i], v[i]>> \in PairSet(l, w, m)
      BY <1>1 DEF PairSet
    <3>2. PICK j \in 1 .. m : <<k[i], v[i]>> = <<l[j], w[j]>>
      BY <3>1 DEF PairSet
    <3> QED BY <3>2
  <2>2. ASSUME NEW j \in 1 .. m
        PROVE  \E i \in 1 .. n : l[j] = k[i]
    <3>1. <<l[j], w[j]>> \in PairSet(k, v, n)
      BY <1>1 DEF PairSet
    <3>2. PICK i \in 1 .. n : <<k[i], v[i]>> = <<l[j], w[j]>>
      BY <3>1 DEF PairSet
    <3> QED BY <3>2
  <2>3. Image(k, n) = Image(l, m)
    BY <2>1, <2>2 DEF Image
  <2>4. n = m
    BY <2>3, ImageSize
  <2> QED BY <2>1, <2>4
<1>2. ASSUME n = m, \A i \in 1 .. n : \E j \in 1 .. m : l[j] = k[i] /\ v[i] = w[j]
      PROVE  PairSet(k, v, n) = PairSet(l, w, m)
  <2>1. Image(k, n) \subseteq Image(l, m)
    BY <1>2 DEF Image
  <2>2. Image(k, n) = Image(l, m)
    <3>1. Cardinality(Image(k, n)) = Cardinality(Image(l, m)) /\ IsFiniteSet(Image(l, m))
      BY <1>2, ImageSize
    <3> QED BY <2>1, <3>1, FS_Subset
  <2>3. PairSet(k, v, n) \subseteq PairSet(l, w, m)
    <3>1. ASSUME NEW i \in 1 .. n PROVE <<k[i], v[i]>> \in PairSet(l, w, m)
      <4>1. PICK j \in 1 .. m : l[j] = k[i] /\ v[i] = w[j]
        BY <1>2
      <4> QED BY <4>1 DEF PairSet
    <3> QED BY <3>1 DEF PairSet
  <2>4. ASSUME NEW j \in 1 .. m PROVE <<l[j], w[j]>> \in PairSet(k, v, n)
    <3>1. PICK i \in 1 .. n : k[i] = l[j]
      BY <2>2 DEF Image
    <3>2. PICK a \in 1 .. m : l[a] = k[i] /\ v[i] = w[a]
      BY <1>2
    <3>3. a = j
      BY <3>1, <3>2 DEF Distinct
    <3> QED BY <3>1, <3>2, <3>3 DEF PairSet
  <2> QED BY <2>3, <2>4 DEF PairSet
<1> QED BY ONLY <1>1, <1>2 DEF PairsMatch

(* A map's keys and values by the number of the pair. *)
KeysOf(h, m, q) == [i \in 1 .. q |-> KeyIn(h, m, 2 * i - 1)]
ValuesOf(h, m, q, S) == [i \in 1 .. q |-> S[h[m].kids[2 * i]]]

(* The pairs of a map as a set of keys and values. *)
LEMMA MapPairs ==
  ASSUME NEW h, NEW m, NEW q \in Nat, Len(h[m].kids) = 2 * q, KeysDiffer(h, m), NEW S
  PROVE  /\ Distinct(KeysOf(h, m, q), q)
         /\ {<<KeyIn(h, m, i), S[h[m].kids[i + 1]]>> : i \in PairsIn(h, m)}
              = PairSet(KeysOf(h, m, q), ValuesOf(h, m, q, S), q)
<1>1. PairsIn(h, m) = {2 * i - 1 : i \in 1 .. q}
  BY Pairs
<1>2. Distinct(KeysOf(h, m, q), q)
  <2>1. ASSUME NEW i \in 1 .. q, NEW j \in 1 .. q, KeysOf(h, m, q)[i] = KeysOf(h, m, q)[j]
        PROVE  i = j
    <3>1. KeyIn(h, m, 2 * i - 1) = KeyIn(h, m, 2 * j - 1)
      BY <2>1 DEF KeysOf
    <3>2. 2 * i - 1 = 2 * j - 1
      BY <1>1, <3>1 DEF KeysDiffer
    <3> QED BY <3>2
  <2> QED BY <2>1 DEF Distinct
<1>3. ASSUME NEW i \in 1 .. q
      PROVE  /\ <<KeyIn(h, m, 2 * i - 1), S[h[m].kids[(2 * i - 1) + 1]]>>
                  = <<KeysOf(h, m, q)[i], ValuesOf(h, m, q, S)[i]>>
  <2>1. (2 * i - 1) + 1 = 2 * i
    OBVIOUS
  <2>2. KeysOf(h, m, q)[i] = KeyIn(h, m, 2 * i - 1)
    BY DEF KeysOf
  <2>3. ValuesOf(h, m, q, S)[i] = S[h[m].kids[2 * i]]
    BY DEF ValuesOf
  <2> QED BY ONLY <2>1, <2>2, <2>3
<1> DEFINE X == {<<KeyIn(h, m, i), S[h[m].kids[i + 1]]>> : i \in PairsIn(h, m)}
<1>4. X = {<<KeyIn(h, m, 2 * i - 1), S[h[m].kids[(2 * i - 1) + 1]]>> : i \in 1 .. q}
  BY ONLY <1>1, Zenon
<1>5. X = PairSet(KeysOf(h, m, q), ValuesOf(h, m, q, S), q)
  <2> HIDE DEF X
  <2> QED BY ONLY ZenonT(60), <1>3, <1>4 DEF PairSet
<1> QED BY <1>2, <1>5

(* Two values of one kind: their shapes are equal if what they carry and what
   they hold is. *)
LEMMA ShapesDiffer ==
  ASSUME NEW h, NEW l, NEW r, NEW S
  PROVE  ShapeStep(h, l, S) = ShapeStep(h, r, S)
           <=> /\ h[l].kind = h[r].kind /\ Compared(h[l]) = Compared(h[r])
               /\ ShapeStep(h, l, S).items = ShapeStep(h, r, S).items
BY DEF ShapeStep

(* Containers carry nothing, so two of one kind carry the same. *)
LEMMA ContainersAlike ==
  ASSUME NEW h, Sound(h), NEW l \in DOMAIN h, NEW r \in DOMAIN h,
         h[l].kind = h[r].kind, h[l].kind \in {"array", "map"}
  PROVE  Compared(h[l]) = Compared(h[r])
<1>1. h \in Seq(ObjectType) /\ Contents(h)
  BY DEF Sound
<1>2. ASSUME NEW o \in DOMAIN h, h[o].kind \in {"array", "map"}
      PROVE  h[o].content.of = h[o].kind /\ h[o].content.val = "none"
             /\ h[o].content \in ContentType
  BY <1>1, <1>2, Fields DEF Contents, Carries
<1>3. PICK x : x = h[l].content
  OBVIOUS
<1>4. PICK y : y = h[r].content
  OBVIOUS
<1>5. /\ x \in ContentType /\ y \in ContentType
      /\ x.of = y.of /\ x.val = y.val
  BY <1>2, <1>3, <1>4
<1>6. x = y
  BY ONLY <1>5 DEF ContentType
<1> QED BY <1>3, <1>4, <1>6 DEF Compared

(* llsd_equal of two values whose items it compares right is right. *)
ComparesRight(h, l, E, S) ==
  \A k \in KidsIn(h, l) : \A j \in DOMAIN h : E[<<k, j>>] <=> S[k] = S[j]

(* Of two arrays. *)
LEMMA EqualArrays ==
  ASSUME NEW h, Sound(h), NEW l \in DOMAIN h, NEW r \in DOMAIN h,
         h[l].kind = "array", h[r].kind = "array", NEW E, NEW S,
         ComparesRight(h, l, E, S)
  PROVE  EqualStep(h, <<l, r>>, E) <=> ShapeStep(h, l, S) = ShapeStep(h, r, S)
<1>1. h \in Seq(ObjectType) /\ Formed(h) /\ Compared(h[l]) = Compared(h[r])
  BY ContainersAlike DEF Sound
<1>2. PICK n : n = Len(h[l].kids)
  OBVIOUS
<1>3. PICK m : m = Len(h[r].kids)
  OBVIOUS
<1>4. n \in Nat /\ m \in Nat /\ DOMAIN h[l].kids = 1 .. n /\ DOMAIN h[r].kids = 1 .. m
  BY <1>1, <1>2, <1>3, Fields
<1>5. PICK f : f = [i \in 1 .. n |-> S[h[l].kids[i]]]
  OBVIOUS
<1>6. PICK g : g = [i \in 1 .. m |-> S[h[r].kids[i]]]
  OBVIOUS
<1>7. \A i \in 1 .. n : f[i] = S[h[l].kids[i]]
  BY <1>5
<1>8. \A i \in 1 .. m : g[i] = S[h[r].kids[i]]
  BY <1>6
<1>9. ShapeStep(h, l, S).items = ShapeStep(h, r, S).items <=> OneList(f, n, g, m)
  <2>1. /\ ShapeStep(h, l, S).items = {<<i, S[h[l].kids[i]]>> : i \in 1 .. n}
        /\ ShapeStep(h, r, S).items = {<<i, S[h[r].kids[i]]>> : i \in 1 .. m}
    BY <1>4 DEF ShapeStep
  <2>2. ShapeStep(h, l, S).items = ItemSet(f, n)
    BY ONLY <2>1, <1>7 DEF ItemSet
  <2>3. ShapeStep(h, r, S).items = ItemSet(g, m)
    BY ONLY <2>1, <1>8 DEF ItemSet
  <2>4. ItemSet(f, n) = ItemSet(g, m) <=> OneList(f, n, g, m)
    BY ONLY <1>4, NumberedItems
  <2> QED BY ONLY <2>2, <2>3, <2>4
<1>10. EqualStep(h, <<l, r>>, E)
         <=> n = m /\ \A i \in 1 .. n : E[<<h[l].kids[i], h[r].kids[i]>>]
  BY <1>2, <1>3, <1>4 DEF EqualStep
<1>11. ASSUME n = m, NEW i \in 1 .. n
       PROVE  E[<<h[l].kids[i], h[r].kids[i]>>] <=> f[i] = g[i]
  <2>1. h[l].kids[i] \in KidsIn(h, l) /\ h[r].kids[i] \in DOMAIN h
    BY <1>1, <1>4, <1>11, FormedFacts
  <2>2. E[<<h[l].kids[i], h[r].kids[i]>>] <=> S[h[l].kids[i]] = S[h[r].kids[i]]
    BY <2>1 DEF ComparesRight
  <2> QED BY <1>7, <1>8, <1>11, <2>2
<1>12. EqualStep(h, <<l, r>>, E) <=> ShapeStep(h, l, S).items = ShapeStep(h, r, S).items
  BY ONLY <1>9, <1>10, <1>11 DEF OneList
<1>13. h[l].kind = h[r].kind
  OBVIOUS
<1> QED BY ONLY <1>1, <1>12, <1>13, ShapesDiffer

(* Of two maps: the right one has no key that the left one lacks. *)
LEMMA EqualMaps ==
  ASSUME NEW h, Sound(h), NEW l \in DOMAIN h, NEW r \in DOMAIN h,
         h[l].kind = "map", h[r].kind = "map", NEW E, NEW S,
         ComparesRight(h, l, E, S)
  PROVE  EqualStep(h, <<l, r>>, E) <=> ShapeStep(h, l, S) = ShapeStep(h, r, S)
<1>1. /\ h \in Seq(ObjectType) /\ Formed(h) /\ Compared(h[l]) = Compared(h[r])
      /\ KeysDiffer(h, l) /\ KeysDiffer(h, r)
  BY ContainersAlike DEF Sound, NoKeyTwice
<1>2. PICK n \in Nat : MapHalves(h, l, n)
  BY <1>1, FormedFacts
<1>3. PICK m \in Nat : MapHalves(h, r, m)
  BY <1>1, FormedFacts
<1>4. Len(h[l].kids) = 2 * n /\ Len(h[r].kids) = 2 * m
  BY <1>2, <1>3 DEF MapHalves
<1>5. /\ PairsIn(h, l) = {2 * i - 1 : i \in 1 .. n}
      /\ PairsIn(h, r) = {2 * i - 1 : i \in 1 .. m}
  BY ONLY <1>4, n \in Nat, m \in Nat, Pairs
<1>6. PICK k : k = KeysOf(h, l, n)
  OBVIOUS
<1>7. PICK v : v = ValuesOf(h, l, n, S)
  OBVIOUS
<1>8. PICK c : c = KeysOf(h, r, m)
  OBVIOUS
<1>9. PICK w : w = ValuesOf(h, r, m, S)
  OBVIOUS
<1>10. /\ Distinct(k, n) /\ Distinct(c, m)
       /\ ShapeStep(h, l, S).items = PairSet(k, v, n)
       /\ ShapeStep(h, r, S).items = PairSet(c, w, m)
  <2>1. /\ ShapeStep(h, l, S).items
             = {<<KeyIn(h, l, i), S[h[l].kids[i + 1]]>> : i \in PairsIn(h, l)}
        /\ ShapeStep(h, r, S).items
             = {<<KeyIn(h, r, i), S[h[r].kids[i + 1]]>> : i \in PairsIn(h, r)}
    BY DEF ShapeStep
  <2>2. /\ Distinct(k, n)
        /\ {<<KeyIn(h, l, i), S[h[l].kids[i + 1]]>> : i \in PairsIn(h, l)} = PairSet(k, v, n)
    BY ONLY <1>1, <1>4, <1>6, <1>7, n \in Nat, MapPairs
  <2>3. /\ Distinct(c, m)
        /\ {<<KeyIn(h, r, i), S[h[r].kids[i + 1]]>> : i \in PairsIn(h, r)} = PairSet(c, w, m)
    BY ONLY <1>1, <1>4, <1>8, <1>9, m \in Nat, MapPairs
  <2> QED BY ONLY <2>1, <2>2, <2>3
<1>11. ShapeStep(h, l, S).items = ShapeStep(h, r, S).items
         <=> n = m /\ \A i \in 1 .. n : \E j \in 1 .. m : c[j] = k[i] /\ v[i] = w[j]
  <2>1. PairSet(k, v, n) = PairSet(c, w, m) <=> PairsMatch(k, v, n, c, w, m)
    BY ONLY <1>10, n \in Nat, m \in Nat, PairSets
  <2> QED BY ONLY <1>10, <2>1 DEF PairsMatch
<1> DEFINE Value(i) == FindValue(h, r, KeyIn(h, l, i))
<1>12. EqualStep(h, <<l, r>>, E)
         <=> n = m /\ \A i \in PairsIn(h, l) : Value(i) # 0 /\ E[<<h[l].kids[i + 1], Value(i)>>]
  <2>1. 2 * n = 2 * m <=> n = m
    OBVIOUS
  <2>2. EqualStep(h, <<l, r>>, E)
          <=> /\ Len(h[l].kids) = Len(h[r].kids)
              /\ \A i \in PairsIn(h, l) : Value(i) # 0 /\ E[<<h[l].kids[i + 1], Value(i)>>]
    BY DEF EqualStep
  <2> QED BY ONLY <1>4, <2>1, <2>2
<1>13. \A i \in 1 .. n : k[i] = KeyIn(h, l, 2 * i - 1) /\ v[i] = S[h[l].kids[2 * i]]
  BY ONLY <1>6, <1>7 DEF KeysOf, ValuesOf
<1>14. \A i \in 1 .. m : c[i] = KeyIn(h, r, 2 * i - 1) /\ w[i] = S[h[r].kids[2 * i]]
  BY ONLY <1>8, <1>9 DEF KeysOf, ValuesOf
<1>15. ASSUME NEW i \in 1 .. n
       PROVE  Value(2 * i - 1) # 0 /\ E[<<h[l].kids[(2 * i - 1) + 1], Value(2 * i - 1)>>]
                <=> \E j \in 1 .. m : c[j] = k[i] /\ v[i] = w[j]
  <2>1. PICK a : a = 2 * i - 1
    OBVIOUS
  <2>2. a \in PairsIn(h, l) /\ a + 1 = 2 * i
    BY <1>5, <2>1
  <2>3. k[i] = KeyIn(h, l, a) /\ v[i] = S[h[l].kids[a + 1]]
    BY ONLY <1>13, <2>1, <2>2, i \in 1 .. n
  <2>4. h[l].kids[a + 1] \in KidsIn(h, l)
    BY <1>1, <2>2, Values
  <2>5. CASE FindIn(h, r, KeyIn(h, l, a)) = 0
    <3>1. Value(a) = 0
      BY <2>5 DEF FindValue
    <3>2. ASSUME NEW j \in 1 .. m PROVE c[j] # k[i]
      <4>1. 2 * j - 1 \in PairsIn(h, r)
        BY <1>5
      <4>2. KeyIn(h, r, 2 * j - 1) # KeyIn(h, l, a)
        BY ONLY <1>4, <2>5, <4>1, m \in Nat, FindFacts
      <4> QED BY <1>14, <2>3, <4>2
    <3> QED BY <2>1, <3>1, <3>2
  <2>6. CASE FindIn(h, r, KeyIn(h, l, a)) # 0
    <3>1. PICK b : b = FindIn(h, r, KeyIn(h, l, a))
      OBVIOUS
    <3>2. /\ b \in PairsIn(h, r) /\ KeyIn(h, r, b) = KeyIn(h, l, a)
          /\ Value(a) = h[r].kids[b + 1] /\ Value(a) \in DOMAIN h /\ Value(a) # 0
      BY <1>1, <2>6, <3>1, Found
    <3> HIDE DEF Value
    <3>3. PICK j \in 1 .. m : b = 2 * j - 1
      BY <1>5, <3>2
    <3>4. b + 1 = 2 * j
      BY <3>3
    <3>5. c[j] = k[i] /\ w[j] = S[Value(a)]
      BY ONLY <1>14, <2>3, <3>2, <3>3, <3>4, j \in 1 .. m
    <3>6. \A e \in 1 .. m : c[e] = k[i] => e = j
      BY ONLY <1>10, <3>5, j \in 1 .. m DEF Distinct
    <3>7. E[<<h[l].kids[a + 1], Value(a)>>] <=> S[h[l].kids[a + 1]] = S[Value(a)]
      BY <2>4, <3>2 DEF ComparesRight
    <3> QED BY ONLY <2>1, <2>3, <3>2, <3>5, <3>6, <3>7, j \in 1 .. m
  <2> QED BY <2>5, <2>6
<1> HIDE DEF Value
<1>16. (\A i \in PairsIn(h, l) : Value(i) # 0 /\ E[<<h[l].kids[i + 1], Value(i)>>])
         <=> \A i \in 1 .. n : \E j \in 1 .. m : c[j] = k[i] /\ v[i] = w[j]
  BY ONLY ZenonT(60), <1>5, <1>15
<1>17. EqualStep(h, <<l, r>>, E) <=> ShapeStep(h, l, S).items = ShapeStep(h, r, S).items
  BY ONLY <1>11, <1>12, <1>16
<1>18. h[l].kind = h[r].kind
  OBVIOUS
<1> QED BY ONLY <1>1, <1>17, <1>18, ShapesDiffer

(* Of two values of another kind, which hold nothing. *)
LEMMA EqualLeaves ==
  ASSUME NEW h, Sound(h), NEW l \in DOMAIN h, NEW r \in DOMAIN h,
         h[l].kind = h[r].kind, h[l].kind \notin {"array", "map"}, NEW E, NEW S
  PROVE  EqualStep(h, <<l, r>>, E) <=> ShapeStep(h, l, S) = ShapeStep(h, r, S)
<1>1. h[l].kids = << >> /\ h[r].kids = << >>
  BY FormedFacts DEF Sound
<1>2. DOMAIN h[l].kids = {} /\ DOMAIN h[r].kids = {}
  BY <1>1
<1>3. ShapeStep(h, l, S).items = {} /\ ShapeStep(h, r, S).items = {}
  BY <1>2 DEF ShapeStep
<1>4. EqualStep(h, <<l, r>>, E) <=> Compared(h[l]) = Compared(h[r])
  BY DEF EqualStep
<1>5. h[l].kind = h[r].kind
  OBVIOUS
<1>6. ShapeStep(h, l, S).items = ShapeStep(h, r, S).items
  BY <1>3
<1>7. ShapeStep(h, l, S) = ShapeStep(h, r, S)
        <=> /\ h[l].kind = h[r].kind /\ Compared(h[l]) = Compared(h[r])
            /\ ShapeStep(h, l, S).items = ShapeStep(h, r, S).items
  BY ONLY ShapesDiffer
<1> QED BY ONLY <1>4, <1>5, <1>6, <1>7

(* llsd_equal holds of two values exactly if they have one shape: there is no
   pair of values of the lowest rank on which the two differ. *)
LEMMA EqualShapes ==
  ASSUME NEW h, Sound(h), NEW l \in DOMAIN h, NEW r \in DOMAIN h
  PROVE  EqualIn(h)[<<l, r>>] <=> ShapeIn(h)[l] = ShapeIn(h)[r]
<1> DEFINE E == EqualIn(h)
           S == ShapeIn(h)
           Right(a) == \A b \in DOMAIN h : E[<<a, b>>] <=> S[a] = S[b]
           Bad == {a \in DOMAIN h : ~Right(a)}
<1>1. h \in Seq(ObjectType) /\ Formed(h) /\ Ranked(h)
  BY DEF Sound
<1>2. PICK n \in Nat : \E q \in [DOMAIN h -> 0 .. n] : Ranks(h, q, n)
  BY <1>1 DEF Ranked
<1>3. PICK q \in [DOMAIN h -> 0 .. n] : Ranks(h, q, n)
  BY <1>2
<1>4. \A a, b \in DOMAIN h : <<a, b>> \in (DOMAIN h) \X (DOMAIN h)
  OBVIOUS
<1>5. \A a, b \in DOMAIN h : E[<<a, b>>] = EqualStep(h, <<a, b>>, E)
  BY ONLY <1>1, <1>3, <1>4, n \in Nat, EqualEquation
<1>6. \A a \in DOMAIN h : S[a] = ShapeStep(h, a, S)
  BY ONLY <1>1, <1>3, n \in Nat, ShapeEquation
<1> HIDE DEF E, S
<1>7. Bad = {}
  <2> SUFFICES ASSUME Bad # {} PROVE FALSE
    OBVIOUS
  <2>1. PICK a \in Bad : \A b \in Bad : q[a] <= q[b]
    <3>1. Bad \subseteq DOMAIN h
      OBVIOUS
    <3> HIDE DEF Bad
    <3> QED BY <1>3, <3>1, LowestRank
  <2>2. a \in DOMAIN h
    OBVIOUS
  <2>3. PICK b \in DOMAIN h : ~(E[<<a, b>>] <=> S[a] = S[b])
    OBVIOUS
  <2>4. ComparesRight(h, a, E, S)
    <3>1. ASSUME NEW k \in KidsIn(h, a) PROVE Right(k)
      <4>1. k \in DOMAIN h /\ q[k] < q[a] /\ q[k] \in Nat /\ q[a] \in Nat
        BY <1>3, <2>2 DEF Ranks
      <4>2. k \notin Bad
        <5> HIDE DEF Bad
        <5> QED BY <2>1, <4>1
      <4> QED BY <4>1, <4>2
    <3> QED BY <3>1 DEF ComparesRight
  <2>5. E[<<a, b>>] = EqualStep(h, <<a, b>>, E) /\ S[a] = ShapeStep(h, a, S)
        /\ S[b] = ShapeStep(h, b, S)
    BY ONLY <1>5, <1>6, <2>2, b \in DOMAIN h
  <2>6. CASE h[a].kind # h[b].kind
    <3>1. ~EqualStep(h, <<a, b>>, E)
      BY <2>6 DEF EqualStep
    <3>2. ShapeStep(h, a, S) # ShapeStep(h, b, S)
      BY ONLY <2>6, ShapesDiffer
    <3> QED BY ONLY <2>3, <2>5, <3>1, <3>2
  <2>7. CASE h[a].kind = h[b].kind
    <3>1. EqualStep(h, <<a, b>>, E) <=> ShapeStep(h, a, S) = ShapeStep(h, b, S)
      <4>1. CASE h[a].kind = "array"
        <5>1. h[b].kind = "array"
          BY <2>7, <4>1
        <5> QED BY ONLY <2>2, <2>4, <4>1, <5>1, Sound(h), b \in DOMAIN h, EqualArrays
      <4>2. CASE h[a].kind = "map"
        <5>1. h[b].kind = "map"
          BY <2>7, <4>2
        <5> QED BY ONLY <2>2, <2>4, <4>2, <5>1, Sound(h), b \in DOMAIN h, EqualMaps
      <4>3. CASE h[a].kind \notin {"array", "map"}
        BY ONLY <2>2, <2>7, <4>3, Sound(h), b \in DOMAIN h, EqualLeaves
      <4> QED BY <4>1, <4>2, <4>3
    <3> QED BY ONLY <2>3, <2>5, <3>1
  <2> QED BY <2>6, <2>7
<1>8. Right(l)
  BY <1>7
<1> QED BY <1>8 DEF E, S

(* And so EqualIsStructural holds of every sound heap. *)
LEMMA SoundEqual ==
  ASSUME Sound(heap)
  PROVE  EqualIsStructural
<1>1. Shape = ShapeIn(heap)
  BY Zenon DEF Shape, ShapeIn, ShapeStep, KeyAt, KeyIn, PairsOf, PairsIn
<1>2. ASSUME NEW l, NEW r
      PROVE  llsd_equal(l, r) = EqualIn(heap)[<<l, r>>]
  BY Zenon DEF llsd_equal, EqualIn, EqualStep, FindValue, FindIn, llsd_map_find_llsd, ht_find,
               KeyAt, KeyIn, PairsOf, PairsIn
<1>3. Live \subseteq DOMAIN heap
  BY DEF Live
<1> QED BY ZenonT(60), <1>1, <1>2, <1>3, EqualShapes DEF EqualIsStructural


-----------------------------------------------------------------------------
(* What is known of the i-th of the results when there are n.  None of it
   changes with the objects' items, nor with objects and results that come
   later. *)
CallAt(h, cs, i) ==
  /\ cs[i].obj \in DOMAIN h
  /\ cs[i].at = PlaceOf(cs[i].call, h[cs[i].obj].kind)
  /\ cs[i].call = "as_binary" => h[cs[i].obj].kind \in HasBinary

(* The objects of h are in g, and hold there what they hold in h. *)
Extends(h, g) ==
  \A o \in DOMAIN h : o \in DOMAIN g /\ g[o].kind = h[o].kind /\ g[o].content = h[o].content

(* Results that are the same in g, after ds, as in h, after cs. *)
SameCalls(cs, ds, n) == \A i \in 1 .. n : ds[i] = cs[i]
CallsAt(h, cs, n) == \A i \in 1 .. n : CallAt(h, cs, i)
SameResult(h, cs, g, ds, i, n) ==
  /\ KindIn(g, ds[i]) = KindIn(h, cs[i])
  /\ FreshIn(g, ds, i, n) <=> FreshIn(h, cs, i, n)
  /\ g[ds[i].obj].content = h[cs[i].obj].content

(* Conversions as a sequence. *)
LEMMA CallsLength ==
  ASSUME NEW h, NEW cs, Calls(h, cs)
  PROVE  /\ Len(cs) \in Nat /\ DOMAIN cs = 1 .. Len(cs)
         /\ \A i \in 1 .. Len(cs) : CallAt(h, cs, i)
         /\ CallsAt(h, cs, Len(cs))
<1>1. cs \in Seq(CallType)
  BY DEF Calls
<1>2. Len(cs) \in Nat /\ DOMAIN cs = 1 .. Len(cs)
  BY <1>1
<1> QED BY <1>2 DEF Calls, CallAt, CallsAt

(* Whether a result is fresh depends on the calls up to it only. *)
LEMMA FreshKept ==
  ASSUME NEW h, NEW cs, NEW n \in Nat, CallsAt(h, cs, n),
         NEW g, Extends(h, g), NEW ds, SameCalls(cs, ds, n), NEW i \in 1 .. n
  PROVE  SameResult(h, cs, g, ds, i, n)
<1>1. \A j \in 1 .. n : ds[j] = cs[j] /\ KindIn(g, ds[j]) = KindIn(h, cs[j])
  BY DEF SameCalls, CallsAt, KindIn, CallAt, Extends
<1>2. \A j \in i + 1 .. n : j \in 1 .. n
  OBVIOUS
<1>3. \A j \in i + 1 .. n : OverwritesIn(g, ds[j], ds[i]) <=> OverwritesIn(h, cs[j], cs[i])
  BY <1>1, <1>2 DEF OverwritesIn
<1>4. g[ds[i].obj].content = h[cs[i].obj].content
  BY <1>1 DEF CallsAt, CallAt, Extends
<1> QED BY <1>1, <1>3, <1>4 DEF FreshIn, SameResult

(* What was made of results stays so. *)
LEMMA MadeKept ==
  ASSUME NEW h, NEW cs, Calls(h, cs), NEW g, Extends(h, g), NEW ds,
         Len(ds) \in Nat, Len(cs) <= Len(ds), SameCalls(cs, ds, Len(cs)),
         NEW content, NEW i, NEW n, MadeAt(h, cs, content, i, n)
  PROVE  MadeAt(g, ds, content, i, n)
<1>1. n \in 1 .. Len(cs) /\ i \in 1 .. n /\ n \in Nat /\ Len(cs) \in Nat
  BY CallsLength DEF MadeAt
<1>2. \A j \in 1 .. n : j \in 1 .. Len(cs)
  BY <1>1
<1>3. CallsAt(h, cs, n) /\ SameCalls(cs, ds, n)
  BY <1>2, CallsLength DEF SameCalls, CallsAt
<1>4. SameResult(h, cs, g, ds, i, n)
  BY ONLY <1>1, <1>3, Extends(h, g), FreshKept
<1>5. n \in 1 .. Len(ds)
  BY <1>1
<1> QED BY <1>1, <1>4, <1>5 DEF MadeAt, SameResult

(* The results in the heap g that has the objects of h, and those among them
   that were made of results: nothing else has been. *)
LEMMA ResultsKept ==
  ASSUME NEW h, NEW st, NEW cs, Calls(h, cs), Remembered(h, st, cs),
         NEW g, Extends(h, g)
  PROVE  Calls(g, cs) /\ Remembered(g, st, cs)
<1>1. /\ Len(cs) \in Nat /\ DOMAIN cs = 1 .. Len(cs)
      /\ \A i \in 1 .. Len(cs) : CallAt(h, cs, i)
      /\ CallsAt(h, cs, Len(cs))
  BY CallsLength
<1>2. SameCalls(cs, cs, Len(cs))
  BY DEF SameCalls
<1>3. Calls(g, cs)
  BY <1>1 DEF Calls, CallAt, Extends
<1>4. ASSUME NEW i \in 1 .. Len(cs), KindIn(g, cs[i]) \in Convertible, FreshIn(g, cs, i, Len(cs))
      PROVE  PointsIn(g, st, cs[i]) = g[cs[i].obj].content
  <2>1. SameResult(h, cs, g, cs, i, Len(cs))
    BY ONLY <1>1, <1>2, Extends(h, g), i \in 1 .. Len(cs), FreshKept
  <2>2. PointsIn(h, st, cs[i]) = h[cs[i].obj].content
    BY <1>1, <1>4, <2>1 DEF Remembered, SameResult
  <2> QED BY <2>1, <2>2 DEF PointsIn, SameResult, KindIn
<1> QED BY <1>1, <1>3, <1>4 DEF Remembered

(* So containers may be changed and values be released. *)
LEMMA ResultsSame ==
  ASSUME NEW h, NEW st, NEW cs, Calls(h, cs), Remembered(h, st, cs), MadeOf(h, cs),
         NEW g, SameObjects(h, g)
  PROVE  Calls(g, cs) /\ Remembered(g, st, cs) /\ MadeOf(g, cs)
<1>1. Extends(h, g)
  BY DEF SameObjects, Extends
<1>2. SameCalls(cs, cs, Len(cs)) /\ Len(cs) \in Nat /\ Len(cs) <= Len(cs)
  BY CallsLength DEF SameCalls
<1>3. ASSUME NEW o \in DOMAIN g, g[o].made # <<0, 0>>
      PROVE  MadeAt(g, cs, g[o].content, g[o].made[1], g[o].made[2])
  <2>1. o \in DOMAIN h /\ g[o].made = h[o].made /\ g[o].content = h[o].content
    BY DEF SameObjects
  <2>2. MadeAt(h, cs, h[o].content, h[o].made[1], h[o].made[2])
    BY <1>3, <2>1 DEF MadeOf
  <2>3. MadeAt(g, cs, h[o].content, h[o].made[1], h[o].made[2])
    BY ONLY <1>1, <1>2, <2>2, Calls(h, cs), MadeKept
  <2> QED BY ONLY <2>1, <2>3
<1> QED BY <1>1, <1>3, ResultsKept DEF MadeOf

(* So may values be made, of a result if what it points to was remembered. *)
LEMMA ResultsAppend ==
  ASSUME NEW h \in Seq(ObjectType), NEW st, NEW cs, Calls(h, cs), Remembered(h, st, cs),
         MadeOf(h, cs), NEW x \in ObjectType,
         x.made # <<0, 0>> => MadeAt(h, cs, x.content, x.made[1], x.made[2]),
         NEW g, g = Append(h, x)
  PROVE  Calls(g, cs) /\ Remembered(g, st, cs) /\ MadeOf(g, cs)
<1>1. PICK w : w = Len(h) + 1
  OBVIOUS
<1>2. g[w] = x /\ DOMAIN g = DOMAIN h \union {w} /\ \A o \in DOMAIN h : g[o] = h[o]
  BY <1>1, AppendFields
<1>3. Extends(h, g)
  BY <1>2 DEF Extends
<1>4. SameCalls(cs, cs, Len(cs)) /\ Len(cs) \in Nat /\ Len(cs) <= Len(cs)
  BY CallsLength DEF SameCalls
<1>5. ASSUME NEW o \in DOMAIN g, g[o].made # <<0, 0>>
      PROVE  MadeAt(g, cs, g[o].content, g[o].made[1], g[o].made[2])
  <2>1. MadeAt(h, cs, g[o].content, g[o].made[1], g[o].made[2])
    <3>1. CASE o \in DOMAIN h
      BY <1>2, <1>5, <3>1 DEF MadeOf
    <3>2. CASE o = w
      BY <1>2, <1>5, <3>2
    <3> QED BY <1>2, <3>1, <3>2
  <2> QED BY ONLY <1>3, <1>4, <2>1, Calls(h, cs), MadeKept
<1> QED BY <1>3, <1>5, ResultsKept DEF MadeOf

(* What a conversion does to storage: its result is there, and what it does
   not overwrite stays. *)
Stores(h, st, cs, c, after) ==
  /\ KindIn(h, c) \in Convertible => PointsIn(h, after, c) = h[c.obj].content
  /\ \A i \in 1 .. Len(cs) :
       KindIn(h, cs[i]) \in Convertible /\ ~OverwritesIn(h, c, cs[i])
         => PointsIn(h, after, cs[i]) = PointsIn(h, st, cs[i])
Lawful(h, c) ==
  /\ c \in CallType
  /\ c.obj \in DOMAIN h
  /\ c.at = PlaceOf(c.call, h[c.obj].kind)
  /\ c.call = "as_binary" => h[c.obj].kind \in HasBinary

(* A lawful conversion, stored so, keeps what is known of the earlier ones. *)
LEMMA ResultsConvert ==
  ASSUME NEW h, NEW st, NEW cs, Calls(h, cs), Remembered(h, st, cs), MadeOf(h, cs),
         NEW c, Lawful(h, c), NEW after, Stores(h, st, cs, c, after),
         NEW ds, ds = Append(cs, c)
  PROVE  Calls(h, ds) /\ Remembered(h, after, ds) /\ MadeOf(h, ds)
<1>1. PICK n : n = Len(cs)
  OBVIOUS
<1>2. /\ cs \in Seq(CallType)
      /\ c \in CallType
  BY DEF Calls, Lawful
<1>3. n \in Nat /\ DOMAIN cs = 1 .. n /\ \A i \in 1 .. n : CallAt(h, cs, i)
  BY <1>1, CallsLength
<1>4. /\ ds \in Seq(CallType)
      /\ Len(ds) = n + 1 /\ ds[n + 1] = c /\ \A i \in 1 .. n : ds[i] = cs[i]
  BY <1>1, <1>2, <1>3
<1>5. DOMAIN ds = 1 .. n + 1
  BY <1>3, <1>4
<1>6. \A i \in 1 .. n + 1 : i \in 1 .. n \/ i = n + 1
  BY <1>3
<1>7. Calls(h, ds)
  <2>1. \A i \in 1 .. n + 1 : CallAt(h, ds, i)
    BY <1>3, <1>4, <1>6 DEF CallAt, Lawful
  <2> QED BY ONLY <1>4, <1>5, <2>1 DEF Calls, CallAt
<1>8. Extends(h, h) /\ SameCalls(cs, ds, n) /\ CallsAt(h, cs, n)
  BY <1>3, <1>4 DEF CallsAt, Extends, SameCalls
<1>9. ASSUME NEW i \in 1 .. n, KindIn(h, ds[i]) \in Convertible, FreshIn(h, ds, i, n + 1)
      PROVE  PointsIn(h, after, ds[i]) = h[ds[i].obj].content
  <2>1. ds[i] = cs[i] /\ i \in DOMAIN cs
    BY <1>3, <1>4
  <2>2. FreshIn(h, ds, i, n)
    <3>1. \A j \in i + 1 .. n : j \in i + 1 .. n + 1
      BY <1>3
    <3> QED BY <1>9, <3>1 DEF FreshIn
  <2>3. FreshIn(h, cs, i, n)
    <3>1. SameResult(h, cs, h, ds, i, n)
      BY ONLY <1>3, <1>8, i \in 1 .. n, FreshKept
    <3> QED BY <2>2, <3>1 DEF SameResult
  <2>4. ~OverwritesIn(h, c, cs[i])
    <3>1. n + 1 \in i + 1 .. n + 1
      BY <1>3
    <3> QED BY <1>4, <1>9, <2>1, <3>1 DEF FreshIn
  <2>5. PointsIn(h, st, cs[i]) = h[cs[i].obj].content
    BY <1>1, <1>9, <2>1, <2>3 DEF Remembered
  <2>6. PointsIn(h, after, cs[i]) = PointsIn(h, st, cs[i])
    BY <1>1, <1>9, <2>1, <2>4 DEF Stores
  <2> QED BY ONLY <2>1, <2>5, <2>6
<1>10. KindIn(h, c) \in Convertible => PointsIn(h, after, c) = h[c.obj].content
  BY DEF Stores
<1>11. Remembered(h, after, ds)
  BY ONLY <1>4, <1>5, <1>6, <1>9, <1>10 DEF Remembered
<1>12. MadeOf(h, ds)
  <2>1. Len(ds) \in Nat /\ Len(cs) <= Len(ds) /\ SameCalls(cs, ds, Len(cs))
    BY <1>1, <1>3, <1>4, <1>8
  <2>2. ASSUME NEW o \in DOMAIN h, h[o].made # <<0, 0>>
        PROVE  MadeAt(h, ds, h[o].content, h[o].made[1], h[o].made[2])
    <3>1. MadeAt(h, cs, h[o].content, h[o].made[1], h[o].made[2])
      BY <2>2 DEF MadeOf
    <3> QED BY ONLY <1>8, <2>1, <3>1, Calls(h, cs), MadeKept
  <2> QED BY <2>2 DEF MadeOf
<1> QED BY <1>7, <1>11, <1>12

-----------------------------------------------------------------------------
(* What the actions of ValueApi are to the heap. *)
LEMMA OfHeap ==
  /\ Live = LiveIn(heap)
  /\ Owned = OwnedIn(heap)
  /\ Below = BelowIn(heap)
  /\ \A m, key : ht_find(m, key) = FindIn(heap, m, key)
  /\ \A roots : Released(heap, roots) = ReleasedIn(heap, roots)
  /\ \A g, a, s : g = WithKids(heap, a, s) <=> g = [heap EXCEPT ![a].kids = s]
<1>1. Live = LiveIn(heap)
  BY DEF Live, LiveIn
<1>2. Owned = OwnedIn(heap)
  BY <1>1, Zenon DEF Owned, OwnedIn, Kids, KidsIn
<1>3. Below = BelowIn(heap)
  BY Zenon DEF Below, BelowIn, BelowStep, Kids, KidsIn
<1>4. \A m, key : ht_find(m, key) = FindIn(heap, m, key)
  BY Zenon DEF ht_find, FindIn, PairsOf, PairsIn, KeyAt, KeyIn
<1>5. \A roots : Released(heap, roots) = ReleasedIn(heap, roots)
  BY <1>3, Zenon DEF Released, ReleasedIn
<1>6. \A g, a, s : g = WithKids(heap, a, s) <=> g = [heap EXCEPT ![a].kids = s]
  BY Zenon DEF WithKids
<1> QED BY <1>1, <1>2, <1>3, <1>4, <1>5, <1>6

(* The actions that create nothing and convert nothing. *)
LEMMA KeepStep ==
  ASSUME Inv, Keep, Sound(heap'), SameObjects(heap, heap')
  PROVE  Inv'
<1>1. static' = static /\ calls' = calls
  BY DEF Keep
<1>2. Calls(heap', calls) /\ Remembered(heap', static, calls) /\ MadeOf(heap', calls)
  <2>1. Calls(heap, calls) /\ Remembered(heap, static, calls) /\ MadeOf(heap, calls)
    BY DEF Inv
  <2> QED BY ONLY <2>1, SameObjects(heap, heap'), ResultsSame
<1>3. StaticType(static)
  BY DEF Inv
<1> QED BY <1>1, <1>2, <1>3 DEF Inv

(* llsd_delete of a value that the program owns. *)
LEMMA DeleteStep ==
  ASSUME Inv, NEW o \in Live, Delete(o)
  PROVE  Inv'
<1>1. Sound(heap) /\ o \in OwnedIn(heap) /\ heap' = ReleasedIn(heap, {o}) /\ Keep
  BY OfHeap, Zenon DEF Delete, Inv
<1>2. Sound(heap') /\ SameObjects(heap, heap')
  <2>1. Sound(ReleasedIn(heap, {o})) /\ SameObjects(heap, ReleasedIn(heap, {o}))
    BY ONLY <1>1, SoundDelete
  <2> QED BY ONLY <1>1, <2>1
<1> QED BY ONLY <1>1, <1>2, Inv, KeepStep

(* llsd_array_append. *)
LEMMA ArrayAppendStep ==
  ASSUME Inv, NEW a \in Live, NEW v \in Live, ArrayAppend(a, v)
  PROVE  Inv'
<1>1. /\ Sound(heap) /\ a \in LiveIn(heap) /\ heap[a].kind = "array"
      /\ v \in OwnedIn(heap) /\ a \notin BelowIn(heap)[v] /\ Keep
  BY OfHeap, Zenon DEF ArrayAppend, Inv
<1>2. PICK g : g = heap'
  OBVIOUS
<1>3. g = WithKids(heap, a, Append(heap[a].kids, v))
  BY ONLY <1>2, ArrayAppend(a, v) DEF ArrayAppend, WithKids
<1>4. Sound(g) /\ SameObjects(heap, g)
  BY ONLY <1>1, <1>3, SoundArrayAppend
<1>5. Sound(heap') /\ SameObjects(heap, heap')
  BY ONLY <1>2, <1>4
<1> QED BY ONLY <1>1, <1>5, Inv, KeepStep

(* llsd_array_unappend. *)
LEMMA ArrayUnappendStep ==
  ASSUME Inv, NEW a \in Live, ArrayUnappend(a)
  PROVE  Inv'
<1>1. /\ Sound(heap) /\ a \in LiveIn(heap) /\ heap[a].kind = "array"
      /\ heap[a].kids # << >> /\ Keep
  BY OfHeap, Zenon DEF ArrayUnappend, Inv
<1>2. PICK g : g = heap'
  OBVIOUS
<1>3. g = WithKids(heap, a, Front(heap[a].kids))
  BY ONLY <1>2, ArrayUnappend(a) DEF ArrayUnappend, WithKids
<1>4. Sound(g) /\ SameObjects(heap, g)
  BY ONLY <1>1, <1>3, SoundUnappend
<1>5. Sound(heap') /\ SameObjects(heap, heap')
  BY ONLY <1>2, <1>4
<1> QED BY ONLY <1>1, <1>5, Inv, KeepStep

(* llsd_map_insert, with a key that is not there. *)
LEMMA MapInsertStep ==
  ASSUME Inv, NEW m \in Live, NEW k \in Live, NEW v \in Live, MapInsert(m, k, v)
  PROVE  Inv'
<1>1. /\ Sound(heap) /\ m \in LiveIn(heap) /\ heap[m].kind = "map"
      /\ k \in OwnedIn(heap) /\ v \in OwnedIn(heap) /\ k # v /\ heap[k].kind = "string"
      /\ m \notin BelowIn(heap)[k] /\ m \notin BelowIn(heap)[v]
      /\ FindIn(heap, m, Text(heap[k].content)) = 0 /\ Keep
  <2>1. /\ Sound(heap) /\ m \in LiveIn(heap) /\ heap[m].kind = "map"
        /\ {k, v} \subseteq OwnedIn(heap) /\ k # v /\ heap[k].kind = "string"
        /\ m \notin BelowIn(heap)[k] \union BelowIn(heap)[v] /\ Keep
    BY OfHeap, Zenon DEF MapInsert, Inv
  <2>2. ht_find(m, Text(heap[k].content)) = 0
    BY DEF MapInsert
  <2>3. FindIn(heap, m, Text(heap[k].content)) = 0
    BY ONLY <2>2, OfHeap, Zenon
  <2> QED BY <2>1, <2>3, Zenon
<1>2. PICK g : g = heap'
  OBVIOUS
<1>3. g = WithKids(heap, m, heap[m].kids \o <<k, v>>)
  BY ONLY <1>2, MapInsert(m, k, v) DEF MapInsert, WithKids
<1>4. Sound(g) /\ SameObjects(heap, g)
  BY ONLY <1>1, <1>3, SoundMapInsert
<1>5. Sound(heap') /\ SameObjects(heap, heap')
  BY ONLY <1>2, <1>4
<1> QED BY ONLY <1>1, <1>5, Inv, KeepStep

(* llsd_map_remove, by the map's own key or by another one. *)
LEMMA MapRemoveStep ==
  ASSUME Inv, NEW m \in Live, NEW k \in Live, MapRemove(m, k)
  PROVE  Inv'
<1> DEFINE key == Text(heap[k].content)
<1>1. PICK p : p = ht_find(m, key)
  OBVIOUS
<1>2. Sound(heap) /\ m \in LiveIn(heap) /\ heap[m].kind = "map" /\ p # 0 /\ Keep
  BY <1>1, OfHeap, Zenon DEF MapRemove, Inv
<1>3. p = FindIn(heap, m, key)
  BY ONLY <1>1, OfHeap, Zenon
<1>4. p \in PairsIn(heap, m)
  <2>1. heap \in Seq(ObjectType) /\ Formed(heap) /\ m \in DOMAIN heap
    BY <1>2 DEF Sound, LiveIn
  <2> HIDE DEF key
  <2>2. IF FindIn(heap, m, key) = 0 THEN FindValue(heap, m, key) = 0
        ELSE /\ FindIn(heap, m, key) \in PairsIn(heap, m)
             /\ KeyIn(heap, m, FindIn(heap, m, key)) = key
             /\ FindValue(heap, m, key) = heap[m].kids[FindIn(heap, m, key) + 1]
             /\ FindValue(heap, m, key) \in DOMAIN heap /\ FindValue(heap, m, key) # 0
    BY ONLY <1>2, <2>1, Found
  <2> QED BY <1>2, <1>3, <2>2
<1>5. PICK g : g = heap'
  OBVIOUS
<1>6. RemovedAt(heap, m, p, g)
  <2>1. PICK f : f = Released(heap, {heap[m].kids[p], heap[m].kids[p + 1]})
    BY Zenon
  <2>2. g = [f EXCEPT ![m].kids = SubSeq(@, 1, p - 1) \o SubSeq(@, p + 2, Len(@))]
    BY ONLY Zenon, <1>1, <1>5, <2>1, MapRemove(m, k) DEF MapRemove
  <2>3. f = ReleasedIn(heap, {heap[m].kids[p], heap[m].kids[p + 1]})
    BY ONLY <2>1, OfHeap, Zenon
  <2>4. g = WithKids(f, m, Without(f[m].kids, p))
    BY ONLY <2>2 DEF WithKids, Without
  <2> QED BY ONLY <2>3, <2>4, Zenon DEF RemovedAt
<1>7. Sound(g) /\ SameObjects(heap, g)
  BY ONLY <1>2, <1>4, <1>6, SoundMapRemove
<1>8. Sound(heap') /\ SameObjects(heap, heap')
  BY ONLY <1>5, <1>7
<1> QED BY ONLY <1>2, <1>8, Inv, KeepStep

(* The actions that create a value. *)
LEMMA AppendStep ==
  ASSUME Inv, Keep, NEW x \in ObjectType, x.kids = << >>, x.freed = 0,
         IF x.made = <<0, 0>>
         THEN x.content.of = x.kind /\ Carries(x.kind, x.content.val)
         ELSE x.kind \in {"string", "binary"},
         x.made # <<0, 0>> => MadeAt(heap, calls, x.content, x.made[1], x.made[2]),
         heap' = Append(heap, x)
  PROVE  Inv'
<1>1. static' = static /\ calls' = calls
  BY DEF Keep
<1>2. /\ Sound(heap) /\ StaticType(static) /\ heap \in Seq(ObjectType)
      /\ Calls(heap, calls) /\ Remembered(heap, static, calls) /\ MadeOf(heap, calls)
  BY DEF Inv, Sound
<1>3. PICK g : g = heap'
  OBVIOUS
<1>4. g = Append(heap, x)
  BY <1>3
<1>5. Sound(g)
  BY ONLY <1>2, <1>4, x \in ObjectType, x.kids = << >>, x.freed = 0,
          IF x.made = <<0, 0>>
          THEN x.content.of = x.kind /\ Carries(x.kind, x.content.val)
          ELSE x.kind \in {"string", "binary"}, SoundAppend
<1>6. Calls(g, calls) /\ Remembered(g, static, calls) /\ MadeOf(g, calls)
  BY ONLY <1>2, <1>4, x \in ObjectType,
          x.made # <<0, 0>> => MadeAt(heap, calls, x.content, x.made[1], x.made[2]),
          ResultsAppend
<1> QED BY ONLY <1>1, <1>2, <1>3, <1>5, <1>6 DEF Inv

(* llsd_new of a value of its own. *)
LEMMA NewLeafStep ==
  ASSUME Inv, NEW u \in NewValues, NewLeaf(u.kind, u.val)
  PROVE  Inv'
<1>1. u.kind \in Kinds /\ u.val \in Vals /\ Carries(u.kind, u.val)
  BY NewValuesAssumption
<1>2. PICK x : x = Object(u.kind, Content(u.kind, u.val), << >>, <<0, 0>>)
  OBVIOUS
<1>3. /\ x \in ObjectType /\ x.kids = << >> /\ x.freed = 0 /\ x.made = <<0, 0>>
      /\ x.content.of = x.kind /\ Carries(x.kind, x.content.val)
  BY <1>1, <1>2 DEF Object, Content, ObjectType, ContentType
<1>4. heap' = Append(heap, x) /\ Keep
  BY <1>2 DEF NewLeaf
<1> QED BY ONLY <1>3, <1>4, Inv, AppendStep

(* llsd_new of what a conversion's result points to. *)
LEMMA NewFromStep ==
  ASSUME Inv, NEW i \in DOMAIN calls, NewFrom(i)
  PROVE  Inv'
<1> DEFINE c == calls[i]
           kind == IF c.call = "as_string" THEN "string" ELSE "binary"
<1>1. /\ Calls(heap, calls) /\ Remembered(heap, static, calls) /\ StaticType(static)
      /\ heap \in Seq(ObjectType)
  BY DEF Inv, Sound
<1>2. /\ Len(calls) \in Nat /\ DOMAIN calls = 1 .. Len(calls)
      /\ c.obj \in DOMAIN heap /\ c.at = PlaceOf(c.call, heap[c.obj].kind)
  BY <1>1, CallsLength DEF CallAt
<1>3. PICK content : content = PointsIn(heap, static, c)
  OBVIOUS
<1>4. content = Points(c)
  BY <1>3 DEF Points, PointsIn
<1>5. content \in ContentType
  <2>1. heap[c.obj].content \in ContentType
    BY <1>1, <1>2, Fields
  <2>2. c.at = Own \/ c.at \in {"buf", "dummy", "be32"}
    BY <1>2 DEF PlaceOf
  <2> QED BY <1>1, <1>3, <2>1, <2>2 DEF PointsIn, StaticType
<1>6. PICK x : x = Object(kind, content, << >>, <<i, Len(calls)>>)
  OBVIOUS
<1>7. /\ x \in ObjectType /\ x.kids = << >> /\ x.freed = 0 /\ x.made = <<i, Len(calls)>>
      /\ x.kind \in {"string", "binary"} /\ x.content = content
  <2>1. kind \in {"string", "binary"}
    OBVIOUS
  <2>2. i \in Nat /\ Len(calls) \in Nat
    BY <1>2
  <2> HIDE DEF kind
  <2>3. << >> \in Seq(Nat) /\ <<i, Len(calls)>> \in Nat \X Nat /\ kind \in Kinds
    BY ONLY <2>1, <2>2 DEF Kinds
  <2> QED BY ONLY <1>5, <1>6, <2>1, <2>3 DEF Object, ObjectType
<1>8. x.made # <<0, 0>>
  BY <1>2, <1>7
<1>9. MadeAt(heap, calls, x.content, x.made[1], x.made[2])
  BY <1>1, <1>2, <1>3, <1>7 DEF MadeAt, Remembered
<1>10. heap' = Append(heap, x) /\ Keep
  BY <1>4, <1>6 DEF NewFrom, Keep
<1> QED BY ONLY <1>7, <1>8, <1>9, <1>10, Inv, AppendStep

(* A text in buf, Empty included, is a text. *)
LEMMA EmptyContent ==
  Empty \in ContentType /\ Empty.of = "nothing"
<1>1. Empty = [of |-> "nothing", val |-> "none"]
  BY DEF Empty, Content
<1> QED BY ONLY <1>1, ValsAssumption DEF ContentType

(* A conversion whose result at is stored, and which leaves the rest of static
   alone. *)
LEMMA ConvertStep ==
  ASSUME Inv, NEW call \in {"as_string", "as_binary"}, NEW o \in DOMAIN heap,
         NEW at, NEW after, Convert(call, o, at, after), StaticType(after),
         at = PlaceOf(call, heap[o].kind),
         call = "as_binary" => heap[o].kind \in HasBinary,
         Stores(heap, static, calls, [call |-> call, obj |-> o, at |-> at], after)
  PROVE  Inv'
<1>1. PICK c : c = [call |-> call, obj |-> o, at |-> at]
  OBVIOUS
<1>2. /\ Sound(heap) /\ heap \in Seq(ObjectType)
      /\ Calls(heap, calls) /\ Remembered(heap, static, calls) /\ MadeOf(heap, calls)
  BY DEF Inv, Sound
<1>3. PICK ds : ds = Append(calls, c)
  OBVIOUS
<1>4. static' = after /\ calls' = ds /\ heap' = heap
  BY <1>1, <1>3 DEF Convert
<1>5. Lawful(heap, c)
  <2>1. o \in Nat
    BY <1>2, Fields
  <2>2. at \in Places
    BY DEF PlaceOf, Places
  <2> QED BY ONLY <1>1, <2>1, <2>2, call \in {"as_string", "as_binary"}, o \in DOMAIN heap,
                  at = PlaceOf(call, heap[o].kind),
                  call = "as_binary" => heap[o].kind \in HasBinary DEF Lawful, CallType
<1>6. Stores(heap, static, calls, c, after)
  BY ONLY <1>1, Stores(heap, static, calls, [call |-> call, obj |-> o, at |-> at], after)
<1>7. Calls(heap, ds) /\ Remembered(heap, after, ds) /\ MadeOf(heap, ds)
  BY ONLY <1>2, <1>3, <1>5, <1>6, ResultsConvert
<1> QED BY ONLY <1>2, <1>4, <1>7, StaticType(after) DEF Inv

(* Results are looked for where their calls put them. *)
LEMMA Where ==
  ASSUME Calls(heap, calls), NEW i \in 1 .. Len(calls)
  PROVE  /\ calls[i].call \in {"as_string", "as_binary"}
         /\ calls[i].at = PlaceOf(calls[i].call, KindIn(heap, calls[i]))
         /\ calls[i].call = "as_binary" => KindIn(heap, calls[i]) \in HasBinary
<1>1. CallAt(heap, calls, i)
  BY CallsLength
<1>2. calls \in Seq(CallType)
  BY DEF Calls
<1>3. calls[i] \in CallType
  BY ONLY <1>2, i \in 1 .. Len(calls)
<1> QED BY <1>1, <1>3 DEF CallAt, KindIn, CallType

(* llsd_as_string: whatever it converts, buf is not what it was. *)
LEMMA AsStringStep ==
  ASSUME Inv, NEW o \in Live, AsString(o)
  PROVE  Inv'
<1>1. o \in DOMAIN heap /\ Calls(heap, calls) /\ StaticType(static) /\ heap \in Seq(ObjectType)
  BY DEF Live, Inv, Sound
<1>2. PICK k : k = heap[o].kind
  OBVIOUS
<1>3. PICK x : x = heap[o].content
  OBVIOUS
<1>4. x \in ContentType
  BY <1>1, <1>3, Fields
<1>5. PICK at, text :
        /\ at = PlaceOf("as_string", k)
        /\ text \in ContentType
        /\ at # Own /\ k \in Convertible => text = x
        /\ Convert("as_string", o, at, [static EXCEPT !.buf = text])
  <2>1. CASE k \in {"string", "uri", "binary"}
    <3>1. Convert("as_string", o, Own, [static EXCEPT !.buf = Empty])
      BY <1>2, <2>1 DEF AsString
    <3>2. Own = PlaceOf("as_string", k)
      BY <2>1 DEF PlaceOf
    <3> QED BY ONLY <3>1, <3>2, EmptyContent
  <2>2. CASE k \in {"undef", "array", "map"}
    <3>1. Convert("as_string", o, "buf", [static EXCEPT !.buf = Empty])
      BY <1>2, <2>2 DEF AsString
    <3>2. "buf" = PlaceOf("as_string", k) /\ k \notin Convertible
      BY <2>2 DEF PlaceOf, Convertible
    <3> QED BY ONLY <3>1, <3>2, EmptyContent
  <2>3. CASE k \notin {"string", "uri", "binary", "undef", "array", "map"}
    <3>1. Convert("as_string", o, "buf", [static EXCEPT !.buf = x])
      BY <1>2, <1>3, <2>3 DEF AsString
    <3>2. "buf" = PlaceOf("as_string", k)
      BY <2>3 DEF PlaceOf
    <3> QED BY ONLY <1>4, <3>1, <3>2
  <2> QED BY <2>1, <2>2, <2>3
<1>6. PICK after : after = [static EXCEPT !.buf = text]
  OBVIOUS
<1>7. StaticType(after) /\ after["buf"] = text
      /\ \A p \in {"dummy", "be32"} : after[p] = static[p]
  BY <1>1, <1>5, <1>6 DEF StaticType
<1>8. PICK c : c = [call |-> "as_string", obj |-> o, at |-> at]
  OBVIOUS
<1>9. c.call = "as_string" /\ c.obj = o /\ c.at = at /\ KindIn(heap, c) = k
  BY <1>2, <1>8 DEF KindIn
<1>10. Stores(heap, static, calls, c, after)
  <2>1. k \in Convertible => PointsIn(heap, after, c) = heap[c.obj].content
    <3>1. at = Own \/ at = "buf"
      BY <1>5 DEF PlaceOf
    <3> QED BY <1>3, <1>5, <1>7, <1>9, <3>1 DEF PointsIn
  <2>2. ASSUME NEW i \in 1 .. Len(calls), ~OverwritesIn(heap, c, calls[i])
        PROVE  PointsIn(heap, after, calls[i]) = PointsIn(heap, static, calls[i])
    <3>1. /\ calls[i].call \in {"as_string", "as_binary"}
          /\ calls[i].at = PlaceOf(calls[i].call, KindIn(heap, calls[i]))
      BY <1>1, Where
    <3>2. calls[i].at = Own \/ calls[i].at \in {"dummy", "be32"}
      BY <1>9, <2>2, <3>1 DEF OverwritesIn, PlaceOf
    <3> QED BY <1>7, <3>2 DEF PointsIn
  <2> QED BY <1>9, <2>1, <2>2 DEF Stores
<1> QED BY ONLY <1>1, <1>2, <1>5, <1>6, <1>7, <1>8, <1>10, Inv, ConvertStep

(* llsd_as_binary: a boolean goes to dummy, an integer to be32. *)
LEMMA AsBinaryStep ==
  ASSUME Inv, NEW o \in Live, heap[o].kind \in HasBinary, AsBinary(o)
  PROVE  Inv'
<1>1. o \in DOMAIN heap /\ Calls(heap, calls) /\ StaticType(static) /\ heap \in Seq(ObjectType)
  BY DEF Live, Inv, Sound
<1>2. PICK k : k = heap[o].kind
  OBVIOUS
<1>3. PICK x : x = heap[o].content
  OBVIOUS
<1>4. x \in ContentType /\ k \in HasBinary
  BY <1>1, <1>2, <1>3, Fields
<1>5. PICK at, after :
        /\ at = PlaceOf("as_binary", k)
        /\ StaticType(after)
        /\ at # Own => after[at] = x
        /\ \A p \in {"buf", "dummy", "be32"} : p # at => after[p] = static[p]
        /\ Convert("as_binary", o, at, after)
  <2>1. CASE k = "boolean"
    <3>1. Convert("as_binary", o, "dummy", [static EXCEPT !.dummy = x])
      BY <1>2, <1>3, <2>1 DEF AsBinary
    <3>2. "dummy" = PlaceOf("as_binary", k)
      BY <2>1 DEF PlaceOf
    <3>3. PICK after : after = [static EXCEPT !.dummy = x]
      OBVIOUS
    <3>4. StaticType(after) /\ after["dummy"] = x
          /\ \A p \in {"buf", "dummy", "be32"} : p # "dummy" => after[p] = static[p]
      BY <1>1, <1>4, <3>3 DEF StaticType
    <3> QED BY ONLY <3>1, <3>2, <3>3, <3>4
  <2>2. CASE k = "integer"
    <3>1. Convert("as_binary", o, "be32", [static EXCEPT !.be32 = x])
      BY <1>2, <1>3, <2>2 DEF AsBinary
    <3>2. "be32" = PlaceOf("as_binary", k)
      BY <2>2 DEF PlaceOf
    <3>3. PICK after : after = [static EXCEPT !.be32 = x]
      OBVIOUS
    <3>4. StaticType(after) /\ after["be32"] = x
          /\ \A p \in {"buf", "dummy", "be32"} : p # "be32" => after[p] = static[p]
      BY <1>1, <1>4, <3>3 DEF StaticType
    <3> QED BY ONLY <3>1, <3>2, <3>3, <3>4
  <2>3. CASE k \in {"string", "uri", "binary"}
    <3>1. Convert("as_binary", o, Own, static)
      BY <1>2, <2>3 DEF AsBinary
    <3>2. Own = PlaceOf("as_binary", k)
      BY <2>3 DEF PlaceOf
    <3> QED BY ONLY <1>1, <3>1, <3>2
  <2> QED BY <1>4, <2>1, <2>2, <2>3 DEF HasBinary
<1>6. PICK c : c = [call |-> "as_binary", obj |-> o, at |-> at]
  OBVIOUS
<1>7. c.call = "as_binary" /\ c.obj = o /\ c.at = at /\ KindIn(heap, c) = k
  BY <1>2, <1>6 DEF KindIn
<1>8. Stores(heap, static, calls, c, after)
  <2>1. PointsIn(heap, after, c) = heap[c.obj].content
    BY <1>3, <1>5, <1>7 DEF PointsIn
  <2>2. ASSUME NEW i \in 1 .. Len(calls), ~OverwritesIn(heap, c, calls[i])
        PROVE  PointsIn(heap, after, calls[i]) = PointsIn(heap, static, calls[i])
    <3>1. /\ calls[i].call \in {"as_string", "as_binary"}
          /\ calls[i].at = PlaceOf(calls[i].call, KindIn(heap, calls[i]))
          /\ calls[i].call = "as_binary" => KindIn(heap, calls[i]) \in HasBinary
      BY <1>1, Where
    <3>2. calls[i].at = Own \/ (calls[i].at \in {"buf", "dummy", "be32"} /\ calls[i].at # at)
      BY <1>4, <1>5, <1>7, <2>2, <3>1 DEF OverwritesIn, PlaceOf, HasBinary, Own
    <3> QED BY <1>5, <3>2 DEF PointsIn
  <2> QED BY <1>7, <2>1, <2>2 DEF Stores
<1>9. heap[o].kind \in HasBinary
  OBVIOUS
<1> QED BY ONLY <1>1, <1>2, <1>5, <1>6, <1>8, <1>9, Inv, ConvertStep

-----------------------------------------------------------------------------
(* Every heap to start from is sound, and nothing has been converted. *)
LEMMA InitInv ==
  ASSUME Init
  PROVE  Inv
<1>1. AsParsed(heap)
  BY StartAssumption DEF Init
<1>2. Sound(heap)
  BY <1>1, SoundParsed
<1>3. calls = << >> /\ DOMAIN calls = {} /\ Len(calls) = 0
  BY DEF Init
<1>4. Calls(heap, calls) /\ Remembered(heap, static, calls)
  BY <1>3 DEF Calls, Remembered
<1>5. MadeOf(heap, calls)
  BY <1>1 DEF MadeOf, AsParsed
<1>6. StaticType(static)
  BY EmptyContent DEF Init, StaticType
<1> QED BY <1>2, <1>4, <1>5, <1>6 DEF Inv

(* One step per action. *)
LEMMA NextInv ==
  ASSUME Inv, [Next]_vars
  PROVE  Inv'
<1>1. ASSUME NEW u \in NewValues, NewLeaf(u.kind, u.val) PROVE Inv'
  BY ONLY <1>1, Inv, NewLeafStep
<1>2. ASSUME NEW o \in Live, Delete(o) PROVE Inv'
  BY ONLY <1>2, Inv, DeleteStep
<1>3. ASSUME NEW o \in Live, ArrayUnappend(o) PROVE Inv'
  BY ONLY <1>3, Inv, ArrayUnappendStep
<1>4. ASSUME NEW o \in Live, AsString(o) PROVE Inv'
  BY ONLY <1>4, Inv, AsStringStep
<1>5. ASSUME NEW o \in Live, heap[o].kind \in HasBinary, AsBinary(o) PROVE Inv'
  BY ONLY <1>5, Inv, AsBinaryStep
<1>6. ASSUME NEW o \in Live, NEW v \in Live, ArrayAppend(o, v) PROVE Inv'
  BY ONLY <1>6, Inv, ArrayAppendStep
<1>7. ASSUME NEW o \in Live, NEW v \in Live, MapRemove(o, v) PROVE Inv'
  BY ONLY <1>7, Inv, MapRemoveStep
<1>8. ASSUME NEW o \in Live, NEW k \in Live, NEW v \in Live, MapInsert(o, k, v) PROVE Inv'
  BY ONLY <1>8, Inv, MapInsertStep
<1>9. ASSUME NEW i \in DOMAIN calls, NewFrom(i) PROVE Inv'
  BY ONLY <1>9, Inv, NewFromStep
<1>10. CASE UNCHANGED vars
  BY <1>10 DEF vars, Inv
<1>11. CASE Next
  BY ONLY ZenonT(60), <1>1, <1>2, <1>3, <1>4, <1>5, <1>6, <1>7, <1>8, <1>9, <1>11 DEF Next
<1> QED BY <1>10, <1>11

(* What a string or binary made of a fresh result converts back to. *)
LEMMA ComeBack ==
  ASSUME Inv
  PROVE  ConversionsComeBack
<1> SUFFICES ASSUME NEW o \in DOMAIN heap, heap[o].made # <<0, 0>>, Fresh(heap[o].made),
                    NEW src, src = heap[calls[heap[o].made[1]].obj], Lossless(src)
             PROVE  Restores(o, src)
  BY Zenon DEF ConversionsComeBack
<1>1. PICK i : i = heap[o].made[1]
  OBVIOUS
<1>2. PICK n : n = heap[o].made[2]
  OBVIOUS
<1>3. MadeAt(heap, calls, heap[o].content, i, n)
  BY <1>1, <1>2 DEF Inv, MadeOf
<1>4. FreshIn(heap, calls, i, n)
  BY <1>1, <1>2, Zenon
     DEF Fresh, Overwrites, KindOf, FreshIn, OverwritesIn, KindIn
<1>5. KindIn(heap, calls[i]) \in Convertible
  BY <1>1 DEF KindIn, Lossless
<1>6. heap[o].content = src.content
  BY <1>1, <1>3, <1>4, <1>5 DEF MadeAt
<1>7. src.kind \in {"boolean", "integer", "uuid"} =>
        src.content.of = src.kind /\ Carries(src.kind, src.content.val)
  <2>1. Calls(heap, calls) /\ Contents(heap)
    BY DEF Inv, Sound
  <2>2. i \in 1 .. Len(calls)
    <3>1. Len(calls) \in Nat
      BY <2>1, CallsLength
    <3> QED BY <1>3, <3>1 DEF MadeAt
  <2>3. calls[i].obj \in DOMAIN heap
    BY <2>1, <2>2, CallsLength DEF CallAt
  <2> QED BY <1>1, <2>1, <2>3 DEF Contents
<1>8. CASE src.kind = "boolean"
  <2>1. heap[o].content # Empty
    BY ONLY SMTT(30), <1>6, <1>7, <1>8, EmptyContent
  <2>2. src.content.val \in {"true", "false"}
    BY <1>7, <1>8 DEF Carries
  <2>3. llsd_as_boolean(heap[o].content) = "true"
    BY <2>1 DEF llsd_as_boolean
  <2>4. Restores(o, src) <=> "true" = src.content.val
    BY ONLY <1>8, <2>3, Zenon DEF Restores
  <2> QED BY <1>8, <2>2, <2>4 DEF Lossless
<1>9. CASE src.kind = "integer"
  BY ONLY <1>6, <1>7, <1>9 DEF Restores, llsd_as_integer
<1>10. src.kind # "uuid"
  BY DEF Lossless
<1>11. CASE src.kind \notin {"boolean", "integer", "uuid"}
  BY ONLY <1>6, <1>11 DEF Restores
<1> QED BY <1>8, <1>9, <1>10, <1>11

(* The type of the state is part of the invariant. *)
LEMMA InvTypeOK ==
  ASSUME Inv
  PROVE  TypeOK
<1>1. heap \in Seq(ObjectType) /\ Formed(heap) /\ StaticType(static) /\ Calls(heap, calls)
  BY DEF Inv, Sound
<1>2. DOMAIN static = {"buf", "dummy", "be32"}
  BY <1>1 DEF StaticType
<1>3. ASSUME NEW i \in DOMAIN calls PROVE calls[i].at \in DOMAIN static \union {Own}
  <2>1. calls \in Seq(CallType)
    BY <1>1 DEF Calls
  <2>2. calls[i] \in CallType
    BY ONLY <2>1, i \in DOMAIN calls
  <2> QED BY ONLY <1>2, <2>2 DEF Places, CallType
<1> QED BY <1>1, <1>2, <1>3 DEF TypeOK

(***************************************************************************)
(* The inductive invariant of every lawful program on values.              *)
(***************************************************************************)
THEOREM ValuesInv == Spec => []Inv
<1>1. Init => Inv
  BY InitInv
<1>2. Inv /\ [Next]_vars => Inv'
  BY NextInv
<1> QED BY <1>1, <1>2, PTL DEF Spec

(***************************************************************************)
(* Whatever a lawful program appends, inserts, removes, deletes and makes  *)
(* of conversions, containers hold values, maps pairs under strings, and   *)
(* every result points to storage there is.                                *)
(***************************************************************************)
THEOREM ValuesTypeOK == Spec => []TypeOK
<1>1. Inv => TypeOK
  BY InvTypeOK
<1> QED BY <1>1, ValuesInv, PTL

(***************************************************************************)
(* llsd_delete and llsd_map_remove release no value twice, and leave none  *)
(* in use that holds a released one; no value is held at two places.       *)
(***************************************************************************)
THEOREM ValuesOwnedOnce == Spec => []OwnedOnce
<1>1. Inv => OwnedOnce
  BY SoundOwned DEF Inv
<1> QED BY <1>1, ValuesInv, PTL

(***************************************************************************)
(* llsd_equal finds two values equal exactly when they have one shape,     *)
(* whatever their depth.                                                   *)
(***************************************************************************)
THEOREM EqualStructural == Spec => []EqualIsStructural
<1>1. Inv => EqualIsStructural
  BY SoundEqual DEF Inv
<1> QED BY <1>1, ValuesInv, PTL

(***************************************************************************)
(* What llsd_as_string and llsd_as_binary return is good until a call that *)
(* needs the same static storage, and what is made of it by then converts  *)
(* back, but for FALSE; of uuids nothing is said.                          *)
(***************************************************************************)
THEOREM ComesBack == Spec => []ConversionsComeBack
<1>1. Inv => ConversionsComeBack
  BY ComeBack
<1> QED BY <1>1, ValuesInv, PTL
=============================================================================
