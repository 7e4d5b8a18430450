--------------------------- MODULE TextParserProofs ---------------------------
(***************************************************************************)
(* The notation and the JSON parser and the builder behind them, for any   *)
(* payloads, any luck and documents of any length.                         *)
(***************************************************************************)
EXTENDS TextParser, CallbackProofs

Records == [state_stack : Seq(States), count_stack : Seq(Nat)]

-----------------------------------------------------------------------------
(* What the object at o counts as: its values, or its pairs. *)
CountOf(x, o) == IF x.heap[o].kind = "map" THEN Len(x.heap[o].kids) \div 2
                                           ELSE Len(x.heap[o].kids)

(* The counts are those of x's open containers; a value that another open
   container is, is not counted yet. *)
Counts(counts, x) ==
  /\ Len(counts) = Len(x.container_stack)
  /\ \A i \in 1 .. Len(counts) :
       counts[i] + (IF i < Len(counts) THEN 1 ELSE 0) = CountOf(x, x.container_stack[i])

(* The innermost container too holds a value that is not counted yet. *)
Uncounted(counts, x) ==
  /\ Len(counts) = Len(x.container_stack)
  /\ \A i \in 1 .. Len(counts) : counts[i] + 1 = CountOf(x, x.container_stack[i])

(* Outside of all containers the builder's state is TOP_LEVEL, and only there. *)
LEMMA DepthAt ==
  ASSUME NEW V, NEW x, Ind(V, x)
  PROVE  /\ Top(x.state_stack) = "TOP_LEVEL" <=> Len(x.container_stack) = 0
         /\ Len(x.container_stack) > 0 =>
              /\ TopObj(x.container_stack) = x.container_stack[Len(x.container_stack)]
              /\ TopObj(x.container_stack) \in 1 .. Len(x.heap)
              /\ Suits(x.heap[TopObj(x.container_stack)].kind, Top(x.state_stack))
<1> DEFINE ss == x.state_stack
           cs == x.container_stack
<1>1. /\ ss \in Seq(States) /\ Len(ss) > 0 /\ Len(ss) = Len(cs) + 1
      /\ cs \in Seq(Nat)
      /\ \A i \in 1 .. Len(cs) : cs[i] \in 1 .. Len(x.heap)
  BY IndParts
<1>2. /\ ss[1] = "TOP_LEVEL"
      /\ \A i \in 1 .. Len(cs) : Suits(x.heap[cs[i]].kind, ss[i + 1])
  BY DEF Ind, Frames
<1>3. Top(ss) = ss[Len(cs) + 1]
  BY <1>1, TopFacts
<1> HIDE DEF ss, cs
<1>4. CASE Len(cs) = 0
  BY <1>1, <1>2, <1>3, <1>4 DEF ss, cs
<1>5. CASE Len(cs) > 0
  <2>1. Len(cs) \in 1 .. Len(cs)
    BY <1>1, <1>5
  <2>2. TopObj(cs) = cs[Len(cs)] /\ cs[Len(cs)] \in 1 .. Len(x.heap)
    BY <1>1, <1>5, <2>1, TopFacts
  <2>3. Suits(x.heap[cs[Len(cs)]].kind, Top(ss))
    BY <1>2, <1>3, <2>1
  <2>4. Top(ss) # "TOP_LEVEL"
    BY <2>3 DEF Suits, ArrayStates, MapStates
  <2> QED BY <1>5, <2>2, <2>3, <2>4 DEF ss, cs
<1> QED BY <1>1, <1>4, <1>5

(* A pair more. *)
LEMMA OnePairMore == \A k \in Nat : (k + 2) \div 2 = (k \div 2) + 1
  OBVIOUS

(* What the innermost container counts as after it has been given a value,
   or the parser a key. *)
LEMMA GivenCount ==
  ASSUME NEW V, NEW x, Ind(V, x), NEW y, NEW kind, NEW val, Taken(x, y, kind, val),
         Len(x.container_stack) > 0, NEW c, c = TopObj(x.container_stack)
  PROVE  /\ Top(x.state_stack) \in VALUE_STATES => CountOf(y, c) = CountOf(x, c) + 1
         /\ Top(x.state_stack) = "MAP_KEY_BEGIN" => CountOf(y, c) = CountOf(x, c)
<1> DEFINE st == Top(x.state_stack)
           v == Len(x.heap) + 1
           g == Given(x, v)
           k == x.heap[c].kids
<1>1. c \in 1 .. Len(x.heap) /\ Suits(x.heap[c].kind, st) /\ st # "TOP_LEVEL"
  BY DepthAt
<1>2. k \in Seq(Nat) /\ x.heap[c] \in Object(V) /\ x.key \in Nat /\ v \in Nat
  <2>1. /\ x.heap \in Seq(Object(V)) /\ x.key \in Nat /\ Len(x.heap) \in Nat
        /\ \A o \in 1 .. Len(x.heap) : x.heap[o].kids \in Seq(Nat)
    BY IndParts
  <2> QED BY <1>1, <2>1
<1>3. y.heap[c] = [x.heap[c] EXCEPT !.kids = k \o g]
  BY <1>1 DEF Taken
<1>4. y.heap[c].kind = x.heap[c].kind /\ y.heap[c].kids = k \o g
  BY <1>2, <1>3 DEF Object
<1>5. CASE st = "ARRAY_VALUE_BEGIN"
  <2>1. x.heap[c].kind # "map" /\ st # "MAP_KEY_BEGIN"
    BY <1>1, <1>5 DEF Suits, MapStates
  <2>2. g = <<v>>
    BY <1>5 DEF Given
  <2>3. Len(k \o <<v>>) = Len(k) + 1
    BY <1>2
  <2> QED BY <1>4, <1>5, <2>1, <2>2, <2>3 DEF CountOf
<1>6. CASE st = "MAP_VALUE_BEGIN"
  <2>1. x.heap[c].kind = "map" /\ st # "MAP_KEY_BEGIN"
    BY <1>1, <1>6 DEF Suits, ArrayStates
  <2>2. g = <<x.key, v>>
    BY <1>6 DEF Given
  <2>3. Len(k \o <<x.key, v>>) = Len(k) + 2 /\ Len(k) \in Nat
    BY SMTT(30), <1>2
  <2>4. CountOf(y, c) = (Len(k) + 2) \div 2 /\ CountOf(x, c) = Len(k) \div 2
    BY <1>4, <2>1, <2>2, <2>3 DEF CountOf
  <2> QED BY <1>6, <2>1, <2>3, <2>4, OnePairMore
<1>7. CASE st = "MAP_KEY_BEGIN"
  <2>1. g = << >> /\ st \notin VALUE_STATES
    BY <1>7 DEF Given, VALUE_STATES
  <2>2. k \o << >> = k
    BY <1>2
  <2> QED BY <1>4, <1>7, <2>1, <2>2 DEF CountOf
<1> QED BY <1>1, <1>5, <1>6, <1>7 DEF VALUE_STATES

(* A value that is given leaves the counts one behind at the top; a key does
   not change what is counted. *)
LEMMA TakenCounts ==
  ASSUME NEW V, NEW x, Ind(V, x), NEW y, NEW kind, NEW val, Taken(x, y, kind, val),
         NEW counts \in Seq(Nat), Counts(counts, x)
  PROVE  /\ Top(x.state_stack) \in VALUE_STATES => Uncounted(counts, y)
         /\ Top(x.state_stack) = "MAP_KEY_BEGIN" => Counts(counts, y)
<1> DEFINE cs == x.container_stack
           n == Len(counts)
<1>1. /\ Len(cs) = n /\ n \in Nat /\ y.container_stack = cs
      /\ \A i \in 1 .. n : cs[i] \in 1 .. Len(x.heap)
      /\ \A i \in 1 .. n : counts[i] \in Nat
  <2>1. \A i \in 1 .. Len(cs) : cs[i] \in 1 .. Len(x.heap)
    BY IndParts
  <2>2. y.container_stack = cs
    BY DEF Taken
  <2>3. Len(counts) = Len(cs)
    BY DEF Counts
  <2> QED BY ONLY <2>1, <2>2, <2>3, counts \in Seq(Nat)
<1>2. ASSUME NEW i \in 1 .. n, i < n
      PROVE  CountOf(y, cs[i]) = counts[i] + 1
  <2>1. n \in 1 .. Len(cs) /\ i \in 1 .. Len(cs) /\ n > 0
    BY <1>1, <1>2
  <2>2. cs[i] < cs[n]
    BY <1>2, <2>1 DEF Ind, Path
  <2>3. TopObj(cs) = cs[n]
    BY <1>1, <2>1, DepthAt
  <2>4. cs[i] \in Nat /\ cs[n] \in Nat
    BY <1>1, <2>1
  <2>5. cs[i] # TopObj(x.container_stack) /\ cs[i] \in 1 .. Len(x.heap)
    BY <1>1, <2>1, <2>2, <2>3, <2>4
  <2>6. y.heap[cs[i]] = x.heap[cs[i]]
    BY <2>5 DEF Taken
  <2> QED BY <1>2, <2>6 DEF Counts, CountOf
<1>3. ASSUME n > 0
      PROVE  /\ Top(x.state_stack) \in VALUE_STATES => CountOf(y, cs[n]) = counts[n] + 1
             /\ Top(x.state_stack) = "MAP_KEY_BEGIN" => CountOf(y, cs[n]) = counts[n]
  <2>1. TopObj(cs) = cs[n]
    BY <1>1, <1>3, DepthAt
  <2>2. n \in 1 .. n /\ counts[n] \in Nat
    BY <1>1, <1>3
  <2>3. CountOf(x, cs[n]) = counts[n]
    <3>1. counts[n] + 0 = CountOf(x, cs[n])
      BY <2>2 DEF Counts
    <3> QED BY <2>2, <3>1
  <2>4. /\ Top(x.state_stack) \in VALUE_STATES => CountOf(y, cs[n]) = CountOf(x, cs[n]) + 1
        /\ Top(x.state_stack) = "MAP_KEY_BEGIN" => CountOf(y, cs[n]) = CountOf(x, cs[n])
    BY <1>1, <1>3, <2>1, GivenCount
  <2> QED BY <2>3, <2>4
<1> HIDE DEF cs
<1>4. ASSUME Top(x.state_stack) \in VALUE_STATES PROVE Uncounted(counts, y)
  <2>1. ASSUME NEW i \in 1 .. n PROVE counts[i] + 1 = CountOf(y, cs[i])
    <3>1. CASE i < n
      BY <1>2, <3>1
    <3>2. CASE ~(i < n)
      <4>1. i = n /\ n > 0
        BY <1>1, <3>2
      <4> QED BY <1>3, <1>4, <4>1
    <3> QED BY <3>1, <3>2
  <2> QED BY <1>1, <2>1 DEF Uncounted
<1>5. ASSUME Top(x.state_stack) = "MAP_KEY_BEGIN" PROVE Counts(counts, y)
  <2>1. ASSUME NEW i \in 1 .. n
        PROVE  counts[i] + (IF i < n THEN 1 ELSE 0) = CountOf(y, cs[i])
    <3>1. CASE i < n
      BY <1>2, <3>1
    <3>2. CASE ~(i < n)
      <4>1. i = n /\ n > 0 /\ counts[i] \in Nat
        BY <1>1, <3>2
      <4> QED BY <1>3, <1>5, <3>2, <4>1
    <3> QED BY <3>1, <3>2
  <2> QED BY <1>1, <2>1 DEF Counts
<1> QED BY <1>4, <1>5

(* incc, when the innermost container has a value not counted. *)
LEMMA CountOne ==
  ASSUME NEW x, NEW counts \in Seq(Nat), Uncounted(counts, x), Len(counts) > 0,
         NEW after, after = Replace(counts, TopObj(counts) + 1)
  PROVE  after \in Seq(Nat) /\ Counts(after, x)
<1> DEFINE n == Len(counts)
<1>1. n \in Nat /\ n \in 1 .. n /\ counts # << >>
  OBVIOUS
<1>2. TopObj(counts) = counts[n] /\ counts[n] \in Nat
  BY TopFacts
<1>3. after = [counts EXCEPT ![n] = counts[n] + 1]
  BY <1>1, <1>2 DEF Replace
<1>4. /\ after \in Seq(Nat) /\ Len(after) = n /\ after[n] = counts[n] + 1
      /\ \A i \in 1 .. n : i # n => after[i] = counts[i]
  <2>1. counts[n] + 1 \in Nat
    BY <1>2
  <2> QED BY <1>1, <1>3, <2>1
<1>5. ASSUME NEW i \in 1 .. n
      PROVE  after[i] + (IF i < n THEN 1 ELSE 0) = CountOf(x, x.container_stack[i])
  <2>0. counts[i] + 1 = CountOf(x, x.container_stack[i]) /\ counts[i] \in Nat
    BY DEF Uncounted
  <2>1. CASE i < n
    BY <1>4, <2>0, <2>1
  <2>2. CASE ~(i < n)
    BY <1>1, <1>4, <2>0, <2>2
  <2> QED BY <2>1, <2>2
<1> QED BY <1>4, <1>5 DEF Counts, Uncounted

(* A container that has begun is counted from 0. *)
LEMMA OpenCounts ==
  ASSUME NEW V, NEW x, Ind(V, x), NEW y, NEW kind, NEW first,
         Opened(V, x, y, kind, first), NEW counts \in Seq(Nat), Counts(counts, x)
  PROVE  Counts(Push(counts, 0), y)
<1> DEFINE n == Len(counts)
           v == Len(x.heap) + 1
           after == Push(counts, 0)
<1>1. PICK d : /\ Ind(V, d)
               /\ Taken(x, d, kind, "none")
               /\ Top(x.state_stack) \in VALUE_STATES
               /\ y.heap = d.heap
               /\ y.container_stack = Push(x.container_stack, v)
  BY DEF Opened
<1>2. Uncounted(counts, d) /\ d.container_stack = x.container_stack /\ d.heap[v] = New(kind, "none")
  <2>1. Uncounted(counts, d)
    BY <1>1, TakenCounts
  <2>2. d.container_stack = x.container_stack /\ d.heap[v] = New(kind, "none")
    BY <1>1 DEF Taken
  <2> QED BY <2>1, <2>2
<1>3. /\ x.container_stack \in Seq(Nat) /\ v \in Nat /\ n \in Nat
      /\ Len(x.container_stack) = n
  BY <1>2, IndParts DEF Uncounted
<1>4. /\ Len(after) = n + 1 /\ after[n + 1] = 0
      /\ \A i \in 1 .. n : after[i] = counts[i]
  BY DEF Push
<1>5. /\ Len(y.container_stack) = n + 1 /\ y.container_stack[n + 1] = v
      /\ \A i \in 1 .. n : y.container_stack[i] = x.container_stack[i]
  BY <1>1, <1>3 DEF Push
<1> HIDE DEF after
<1>6. ASSUME NEW i \in 1 .. n + 1
      PROVE  after[i] + (IF i < n + 1 THEN 1 ELSE 0) = CountOf(y, y.container_stack[i])
  <2>1. CASE i = n + 1
    <3>1. y.heap[v].kids = << >> /\ Len(y.heap[v].kids) = 0
      BY <1>1, <1>2 DEF New
    <3>2. CountOf(y, v) = 0
      BY <3>1 DEF CountOf
    <3> QED BY <1>3, <1>4, <1>5, <2>1, <3>2
  <2>2. CASE i # n + 1
    <3>1. i \in 1 .. n /\ i < n + 1
      BY <1>3, <2>2
    <3>2. counts[i] + 1 = CountOf(d, x.container_stack[i])
      BY <1>2, <3>1 DEF Uncounted
    <3>3. CountOf(y, y.container_stack[i]) = CountOf(d, x.container_stack[i])
      BY <1>1, <1>5, <3>1 DEF CountOf
    <3> QED BY <1>4, <3>1, <3>2, <3>3
  <2> QED BY <2>1, <2>2
<1> QED BY <1>4, <1>5, <1>6 DEF Counts, after

(* A container that has ended is a value its parent has not counted. *)
LEMMA CloseCounts ==
  ASSUME NEW x, NEW y, x.container_stack \in Seq(Nat), SameTree(x, y),
         Len(x.container_stack) > 0, y.container_stack = Pop(x.container_stack),
         NEW counts \in Seq(Nat), Counts(counts, x)
  PROVE  Uncounted(Pop(counts), y)
<1> DEFINE n == Len(counts)
           after == Pop(counts)
<1>1. n \in Nat /\ n > 0 /\ Len(x.container_stack) = n
  BY DEF Counts
<1>2. Len(after) = n - 1 /\ \A i \in 1 .. n - 1 : after[i] = counts[i]
  BY <1>1, PopFacts
<1>3. /\ Len(y.container_stack) = n - 1
      /\ \A i \in 1 .. n - 1 : y.container_stack[i] = x.container_stack[i]
  BY ZenonT(60), <1>1, PopFacts
<1> HIDE DEF after
<1>4. ASSUME NEW i \in 1 .. n - 1
      PROVE  after[i] + 1 = CountOf(y, y.container_stack[i])
  <2>1. i \in 1 .. n /\ i < n
    BY <1>1
  <2>2. counts[i] + 1 = CountOf(x, x.container_stack[i])
    BY <2>1 DEF Counts
  <2> QED BY <1>2, <1>3, <2>2 DEF SameTree, CountOf
<1> QED BY <1>2, <1>3, <1>4 DEF Uncounted, after

(* Moves of the innermost frame count nothing. *)
LEMMA MoveCounts ==
  ASSUME NEW x, NEW y, SameTree(x, y), y.container_stack = x.container_stack,
         NEW counts, Counts(counts, x)
  PROVE  Counts(counts, y)
  BY DEF Counts, CountOf, SameTree

-----------------------------------------------------------------------------
(* The parser's record has a state stack, and a count stack that is another. *)
LEMMA RecordsHaveStack == HasStack(Records)
  BY DEF HasStack, Records

(* The two stacks of a text parser are assigned independently of each other. *)
LEMMA CountIsApart ==
  ASSUME NEW q \in Records
  PROVE  /\ \A t : [q EXCEPT !.state_stack = t].count_stack = q.count_stack
         /\ \A t \in Seq(Nat) : LET r == [q EXCEPT !.count_stack = t]
                                IN  /\ r \in Records
                                    /\ r.count_stack = t
                                    /\ r.state_stack = q.state_stack
  BY DEF Records

(* y is s but for the count stack, which is t if all is well. *)
Recounted(V, s, y, t) ==
  /\ Run(Records, V, y)
  /\ y.ok = s.ok
  /\ y.b = s.b
  /\ s.ok => y.p.count_stack = t /\ y.p.state_stack = s.p.state_stack

(* Assigning the count stack of a run changes that field alone, and only while
   the run goes on. *)
LEMMA SetCount ==
  ASSUME NEW V, NEW s, Run(Records, V, s), NEW t, s.ok => t \in Seq(Nat), NEW y,
         y = IF s.ok THEN [s EXCEPT !.p = [s.p EXCEPT !.count_stack = t]] ELSE s
  PROVE  Recounted(V, s, y, t)
<1>1. CASE s.ok
  <2> DEFINE q == [s.p EXCEPT !.count_stack = t]
  <2>0. s.p \in Records /\ t \in Seq(Nat)
    BY <1>1, RunFields
  <2>1. q \in Records /\ q.count_stack = t /\ q.state_stack = s.p.state_stack
    BY <2>0, CountIsApart
  <2> HIDE DEF q
  <2>3. y = [s EXCEPT !.p = q]
    BY <1>1 DEF q
  <2>4. Run(Records, V, y) /\ y.ok = s.ok /\ y.p = q /\ y.b = s.b
    BY <2>1, <2>3 DEF Run
  <2> QED BY <1>1, <2>1, <2>4 DEF Recounted
<1>2. CASE ~s.ok
  BY <1>2 DEF Recounted
<1> QED BY <1>1, <1>2

(* PUSHC, POPC and incc. *)
LEMMA CountRuns ==
  ASSUME NEW V, NEW s, Run(Records, V, s)
  PROVE  LET cc == s.p.count_stack
             counted == s.ok /\ Top(s.p.state_stack) \in {"ARRAY_VALUE", "MAP_VALUE"}
         IN  /\ \A luck \in Luck : Recounted(V, s, PushCount(s, luck), Push(cc, 0))
             /\ Recounted(V, s, PopCount(s), Pop(cc))
             /\ counted => Recounted(V, s, incc(s), Replace(cc, TopObj(cc) + 1))
             /\ ~counted => incc(s) = s
<1> DEFINE cc == s.p.count_stack
           counted == s.ok /\ Top(s.p.state_stack) \in {"ARRAY_VALUE", "MAP_VALUE"}
<1>1. cc \in Seq(Nat)
  <2>1. s.p \in Records
    BY RunFields
  <2> QED BY <2>1 DEF Records
<1>2. Push(cc, 0) \in Seq(Nat)
  BY <1>1 DEF Push
<1>3. Pop(cc) \in Seq(Nat)
  <2>1. CASE Len(cc) > 0
    BY <1>1, <2>1, PopFacts
  <2>2. CASE ~(Len(cc) > 0)
    <3>1. Len(cc) = 0
      BY <1>1, <2>2
    <3>2. Len(cc) - 1 \in Int /\ \A i \in 1 .. Len(cc) - 1 : cc[i] \in Nat
      BY <3>1
    <3>3. SubSeq(cc, 1, Len(cc) - 1) \in Seq(Nat)
      BY <3>2, SubSeqProperties
    <3> QED BY <3>3 DEF Pop
  <2> QED BY <2>1, <2>2
<1>4. Replace(cc, TopObj(cc) + 1) \in Seq(Nat)
  <2>1. TopObj(cc) \in Nat
    BY <1>1 DEF TopObj
  <2>2. TopObj(cc) + 1 \in Nat
    BY <2>1
  <2> QED BY <1>1, <2>2 DEF Replace
<1>5. \A luck \in Luck :
        PushCount(s, luck) = IF s.ok THEN [s EXCEPT !.p = [s.p EXCEPT !.count_stack = Push(cc, 0)]] ELSE s
  BY LuckGrows DEF PushCount
<1>6. PopCount(s) = IF s.ok THEN [s EXCEPT !.p = [s.p EXCEPT !.count_stack = Pop(cc)]] ELSE s
  BY DEF PopCount
<1>7. counted => incc(s) = [s EXCEPT !.p = [s.p EXCEPT !.count_stack = Replace(cc, TopObj(cc) + 1)]]
  BY DEF incc
<1>8. ~counted => incc(s) = s
  BY DEF incc
<1> HIDE DEF cc
<1>9. \A luck \in Luck : Recounted(V, s, PushCount(s, luck), Push(cc, 0))
  BY <1>2, <1>5, SetCount
<1>10. Recounted(V, s, PopCount(s), Pop(cc))
  BY <1>3, <1>6, SetCount
<1>11. counted => Recounted(V, s, incc(s), Replace(cc, TopObj(cc) + 1))
  BY <1>4, <1>7, SetCount
<1> QED BY <1>8, <1>9, <1>10, <1>11 DEF cc

(* A run whose stacks agree, and whose counts are right, unless it failed. *)
Agreed(V, s) ==
  /\ Locked(Records, V, s)
  /\ s.ok => Counts(s.p.count_stack, s.b)

(* begin_value and end_value. *)
LEMMA StepAgreed ==
  ASSUME NEW V, NEW s, Agreed(V, s),
         NEW table \in {BeginOf, EndOf}, NEW valid_states \in SUBSET (DOMAIN table),
         NEW y, y = Step(s, valid_states, table)
  PROVE  Agreed(V, y)
<1>1. Locked(Records, V, y)
  BY RecordsHaveStack, StepLocked DEF Agreed
<1>2. ASSUME y.ok PROVE Counts(y.p.count_stack, y.b)
  <2>1. Run(Records, V, s) /\ s.p \in Records
    BY RunFields DEF Agreed, Locked
  <2>2. Stepped(s, y, valid_states, table)
    BY <1>2, <2>1, RecordsHaveStack, StepRun
  <2>3. /\ s.ok
        /\ SameTree(s.b, y.b) /\ y.b.container_stack = s.b.container_stack
        /\ y.p = [s.p EXCEPT !.state_stack = Replace(s.p.state_stack, table[Top(s.p.state_stack)])]
    BY <2>2 DEF Stepped
  <2>4. y.p.count_stack = s.p.count_stack
    BY <2>1, <2>3, CountIsApart
  <2> QED BY <2>3, <2>4, MoveCounts DEF Agreed
<1> QED BY <1>1, <1>2 DEF Agreed

(* A value that the parser has noted, and counts if its frame says so. *)
LEMMA CountAgreed ==
  ASSUME NEW V, NEW s, Locked(Records, V, s),
         s.ok => /\ Top(s.p.state_stack) \in {"ARRAY_VALUE", "MAP_VALUE"} =>
                      Uncounted(s.p.count_stack, s.b)
                 /\ Top(s.p.state_stack) \notin {"ARRAY_VALUE", "MAP_VALUE"} =>
                      Counts(s.p.count_stack, s.b)
  PROVE  Agreed(V, incc(s))
<1> DEFINE cc == s.p.count_stack
           y == incc(s)
           counted == s.ok /\ Top(s.p.state_stack) \in {"ARRAY_VALUE", "MAP_VALUE"}
<1>1. /\ Run(Records, V, s) /\ s.p \in Records /\ Ind(V, s.b)
      /\ cc \in Seq(Nat) /\ s.p.state_stack \in Seq(States)
      /\ s.b.state_stack \in Seq(States)
  <2>1. Run(Records, V, s) /\ s.p \in Records /\ Ind(V, s.b)
    BY RunFields DEF Locked
  <2> QED BY <2>1, IndParts DEF Records
<1>2. /\ counted => Recounted(V, s, y, Replace(cc, TopObj(cc) + 1))
      /\ ~counted => y = s
  BY <1>1, CountRuns
<1> HIDE DEF y
<1>3. CASE ~counted
  BY <1>2, <1>3 DEF Agreed, y
<1>4. CASE counted
  <2>1. Top(s.p.state_stack) # "TOP_LEVEL"
    BY <1>4
  <2>2. Top(s.b.state_stack) = Top(s.p.state_stack)
    BY <1>1, <1>4, LockTop DEF Locked
  <2>3. Len(s.b.container_stack) # 0 /\ Len(s.b.container_stack) \in Nat
    BY <1>1, <2>1, <2>2, DepthAt, IndParts
  <2>4. Uncounted(cc, s.b)
    BY <1>4
  <2>5. Len(cc) > 0
    BY <2>3, <2>4 DEF Uncounted
  <2>6. Counts(Replace(cc, TopObj(cc) + 1), s.b)
    BY <1>1, <2>4, <2>5, CountOne
  <2> QED BY <1>2, <1>4, <2>6 DEF Recounted, Agreed, Locked, y
<1> QED BY <1>3, <1>4

(* What a frame that value has moved on is in. *)
LEMMA ValueStates ==
  /\ \A st \in VALUE_STATES : ValueOf[st] \in {"ARRAY_VALUE", "MAP_VALUE", "TOP_LEVEL"}
  /\ ValueOf["MAP_KEY_BEGIN"] = "MAP_KEY"
  /\ \A st \in STRING_STATES : st \in VALUE_STATES \/ st = "MAP_KEY_BEGIN"
  /\ \A st \in STRING_STATES : ValueOf[st] = "TOP_LEVEL" <=> st = "TOP_LEVEL"
  BY DEF ValueOf, VALUE_STATES, STRING_STATES

(* A scalar or a string: given to the builder, noted and counted. *)
LEMMA ValueAgreed ==
  ASSUME NEW V, NEW s, Agreed(V, s),
         NEW kind \in Kinds, NEW val \in V \union {"none"},
         NEW valid_states \in {VALUE_STATES, STRING_STATES},
         valid_states = STRING_STATES => kind = "string",
         NEW luck \in Luck,
         NEW y, y = counted_value(Call(s, Deliver(s.b, kind, val, valid_states, luck)), valid_states)
  PROVE  Agreed(V, y)
<1> DEFINE q == value(Call(s, Deliver(s.b, kind, val, valid_states, luck)), valid_states)
           st == Top(s.p.state_stack)
           cc == s.p.count_stack
<1>1. y = incc(q)
  BY DEF counted_value
<1>2. Locked(Records, V, q)
  BY RecordsHaveStack, ValueLocked DEF Agreed
<1>3. Run(Records, V, s) /\ s.p \in Records /\ Ind(V, s.b) /\ cc \in Seq(Nat)
      /\ s.p.state_stack \in Seq(States) /\ s.b.state_stack \in Seq(States)
  <2>1. Run(Records, V, s) /\ s.p \in Records /\ Ind(V, s.b)
    BY RunFields DEF Agreed, Locked
  <2> QED BY <2>1, IndParts DEF Records
<1>4. q.ok => Valued(s, q, kind, val, valid_states)
  BY <1>3, RecordsHaveStack, ValueRun
<1> HIDE DEF q
<1>5. ASSUME q.ok
      PROVE  /\ Top(q.p.state_stack) \in {"ARRAY_VALUE", "MAP_VALUE"} =>
                  Uncounted(q.p.count_stack, q.b)
             /\ Top(q.p.state_stack) \notin {"ARRAY_VALUE", "MAP_VALUE"} =>
                  Counts(q.p.count_stack, q.b)
  <2>1. /\ s.ok /\ st \in valid_states
        /\ Taken(s.b, q.b, kind, val)
        /\ q.p = [s.p EXCEPT !.state_stack = Replace(s.p.state_stack, ValueOf[st])]
        /\ q.p.state_stack = Replace(s.p.state_stack, ValueOf[st])
    BY <1>4, <1>5 DEF Valued
  <2>2. q.p.count_stack = cc
    BY <1>3, <2>1, CountIsApart
  <2>3. Len(s.p.state_stack) > 0 /\ Top(s.b.state_stack) = st
    BY <1>3, <2>1, LockTop DEF Agreed, Locked
  <2>4. st \in STRING_STATES /\ ValueOf[st] \in States
    BY <2>1, CoveredStates
  <2>5. Top(q.p.state_stack) = ValueOf[st]
    BY <1>3, <2>1, <2>4 DEF Replace, Top
  <2>6. Counts(cc, s.b)
    BY <2>1 DEF Agreed
  <2>7. /\ st \in VALUE_STATES => Uncounted(cc, q.b)
        /\ st = "MAP_KEY_BEGIN" => Counts(cc, q.b)
    BY <1>3, <2>1, <2>3, <2>6, TakenCounts
  <2>8. CASE st = "TOP_LEVEL"
    <3>1. Len(cc) = 0
      BY <1>3, <2>3, <2>6, <2>8, DepthAt DEF Counts
    <3>2. Uncounted(cc, q.b)
      BY <2>7, <2>8 DEF VALUE_STATES
    <3>3. Counts(cc, q.b)
      BY <3>1, <3>2 DEF Counts, Uncounted
    <3> QED BY <2>2, <3>2, <3>3
  <2>9. CASE st # "TOP_LEVEL" /\ st \in VALUE_STATES
    <3>1. Top(q.p.state_stack) \in {"ARRAY_VALUE", "MAP_VALUE"}
      BY <2>4, <2>5, <2>9, ValueStates
    <3> QED BY <2>2, <2>7, <2>9, <3>1
  <2>10. CASE st = "MAP_KEY_BEGIN"
    <3>1. Top(q.p.state_stack) = "MAP_KEY"
      BY <2>5, <2>10, ValueStates
    <3> QED BY <2>2, <2>7, <2>10, <3>1
  <2> QED BY <2>4, <2>8, <2>9, <2>10, ValueStates
<1> QED BY <1>1, <1>2, <1>5, CountAgreed

(* A container that begins, with a count of its own. *)
LEMMA BeginAgreed ==
  ASSUME NEW V, NEW s, Agreed(V, s), NEW luck \in Luck
  PROVE  /\ Agreed(V, PushCount(PushState(Call(s, llsd_array_begin_fn(s.b, luck)), "ARRAY_BEGIN", luck), luck))
         /\ Agreed(V, PushCount(PushState(Call(s, llsd_map_begin_fn(s.b, luck)), "MAP_BEGIN", luck), luck))
<1>1. ASSUME NEW q, Locked(Records, V, q), NEW kind, NEW first,
             q.ok => Begun(V, s, q, kind, first)
      PROVE  Agreed(V, PushCount(q, luck))
  <2> DEFINE y  == PushCount(q, luck)
             cc == s.p.count_stack
  <2>1. Run(Records, V, q) /\ Run(Records, V, s)
    BY <1>1 DEF Agreed, Locked
  <2>2. s.p \in Records /\ Ind(V, s.b)
    BY <2>1, RunFields
  <2>3. cc \in Seq(Nat)
    BY <2>2 DEF Records
  <2>4. Recounted(V, q, y, Push(q.p.count_stack, 0))
    BY <2>1, CountRuns
  <2> HIDE DEF y
  <2>5. ASSUME y.ok PROVE Counts(y.p.count_stack, y.b)
    <3>1. /\ q.ok /\ y.b = q.b /\ y.p.count_stack = Push(q.p.count_stack, 0)
      BY <2>4, <2>5 DEF Recounted
    <3>2. /\ s.ok /\ Opened(V, s.b, q.b, kind, first)
          /\ q.p = [s.p EXCEPT !.state_stack = Push(s.p.state_stack, first)]
      BY <1>1, <3>1 DEF Begun
    <3>3. q.p.count_stack = cc
      BY <2>2, <3>2, CountIsApart
    <3>4. Counts(cc, s.b)
      BY <3>2 DEF Agreed
    <3>5. Counts(Push(cc, 0), q.b)
      BY <2>2, <2>3, <3>2, <3>4, OpenCounts
    <3> QED BY <3>1, <3>3, <3>5
  <2>6. Locked(Records, V, y)
    BY <1>1, <2>4 DEF Recounted, Locked
  <2> QED BY <2>5, <2>6 DEF Agreed, y
<1> DEFINE a == PushState(Call(s, llsd_array_begin_fn(s.b, luck)), "ARRAY_BEGIN", luck)
           m == PushState(Call(s, llsd_map_begin_fn(s.b, luck)), "MAP_BEGIN", luck)
<1>2. /\ Locked(Records, V, a) /\ (a.ok => Begun(V, s, a, "array", "ARRAY_BEGIN"))
      /\ Locked(Records, V, m) /\ (m.ok => Begun(V, s, m, "map", "MAP_BEGIN"))
  BY RecordsHaveStack, BeginLocked DEF Agreed
<1> HIDE DEF a, m
<1>3. Agreed(V, PushCount(a, luck)) /\ Agreed(V, PushCount(m, luck))
  BY <1>1, <1>2
<1> QED BY <1>3 DEF a, m

(* A container that ends.  The parser's stacks are popped first, which may
   empty them; then the builder refuses. *)
LEMMA CloseAgreed ==
  ASSUME NEW V, NEW s, Agreed(V, s), NEW valid_states, ClosingStates(valid_states),
         NEW q, q = PopCount(PopState(s)),
         NEW y, y = counted_value(Call(q, CloseContainer(q.b, valid_states)), VALUE_STATES)
  PROVE  Agreed(V, y)
<1> DEFINE ss == s.p.state_stack
           cc == s.p.count_stack
           o  == PopState(s)
           c  == Call(q, CloseContainer(q.b, valid_states))
           n  == value(c, VALUE_STATES)
<1>1. Run(Records, V, s) /\ s.p \in Records /\ Ind(V, s.b)
  BY RunFields DEF Agreed, Locked
<1>2. /\ ss \in Seq(States) /\ cc \in Seq(Nat)
      /\ s.b.state_stack \in Seq(States) /\ s.b.container_stack \in Seq(Nat)
      /\ Len(s.b.state_stack) = Len(s.b.container_stack) + 1
  BY <1>1, IndParts DEF Records
<1>3. Restacked(Records, V, s, o, Pop(ss))
  <2>1. "TOP_LEVEL" \in States
    BY DEF States
  <2> QED BY <1>1, <2>1, RecordsHaveStack, StackRuns
<1> HIDE DEF o
<1>4. Recounted(V, o, q, Pop(o.p.count_stack))
  BY <1>3, CountRuns DEF Restacked, o
<1>5. /\ Run(Records, V, q) /\ q.ok = s.ok /\ q.b = s.b
      /\ q.ok => q.p.state_stack = Pop(ss) /\ q.p.count_stack = Pop(cc)
  <2>1. ASSUME s.ok PROVE o.p.count_stack = cc
    <3>1. o.p = [s.p EXCEPT !.state_stack = Pop(ss)]
      BY <1>3, <2>1 DEF Restacked
    <3> QED BY <1>1, <3>1, CountIsApart
  <2> QED BY <1>3, <1>4, <2>1 DEF Restacked, Recounted
<1>6. /\ Run(Records, V, c)
      /\ c.p = q.p
      /\ c.ok => /\ q.ok
                 /\ Len(s.b.state_stack) > 1
                 /\ SameTree(s.b, c.b)
                 /\ c.b.container_stack = Pop(s.b.container_stack)
                 /\ c.b.state_stack = Pop(s.b.state_stack)
  BY <1>5, CloseRun
<1> HIDE DEF c
<1>7. /\ Run(Records, V, n)
      /\ n.ok => /\ c.ok
                 /\ Top(c.p.state_stack) \in VALUE_STATES
                 /\ n.b = c.b
                 /\ n.p = [c.p EXCEPT !.state_stack =
                              Replace(c.p.state_stack, ValueOf[Top(c.p.state_stack)])]
                 /\ n.p.state_stack = Replace(c.p.state_stack, ValueOf[Top(c.p.state_stack)])
  <2>1. VALUE_STATES \in {VALUE_STATES, STRING_STATES} /\ n = value(c, VALUE_STATES)
    OBVIOUS
  <2> HIDE DEF n
  <2>2. \A st : st = Top(c.p.state_stack) =>
          /\ Run(Records, V, n)
          /\ n.ok => /\ c.ok
                     /\ st \in VALUE_STATES
                     /\ n.b = c.b
                     /\ n.p = [c.p EXCEPT !.state_stack = Replace(c.p.state_stack, ValueOf[st])]
                     /\ n.p.state_stack = Replace(c.p.state_stack, ValueOf[st])
    <3>1. Run(Records, V, c)
      BY <1>6
    <3> QED BY ONLY <2>1, <3>1, RecordsHaveStack, NoteRun
  <2> QED BY <2>2
<1>8. y = incc(n)
  BY DEF counted_value, c
<1> HIDE DEF n
<1>9. ASSUME n.ok
      PROVE  InLockStep(n.p.state_stack, n.b.state_stack) /\ Uncounted(n.p.count_stack, n.b)
  <2>1. /\ InLockStep(ss, s.b.state_stack) /\ Counts(cc, s.b)
        /\ Len(s.b.state_stack) > 1
        /\ SameTree(s.b, n.b)
        /\ n.b.container_stack = Pop(s.b.container_stack)
        /\ n.b.state_stack = Pop(s.b.state_stack)
        /\ n.p.state_stack = Replace(Pop(ss), ValueOf[Top(Pop(ss))])
    BY <1>5, <1>6, <1>7, <1>9 DEF Agreed, Locked
  <2>2. Len(ss) > 1 /\ Len(ss) > 0 /\ Len(s.b.state_stack) > 0
    BY <1>2, <2>1 DEF InLockStep
  <2>3. AllCovered(Pop(ss), Pop(s.b.state_stack))
    BY <1>2, <2>1, <2>2, LockPop
  <2>4. Pop(ss) \in Seq(States) /\ Pop(s.b.state_stack) \in Seq(States)
    BY <1>2, <2>2, PopFacts
  <2>5. InLockStep(Replace(Pop(ss), ValueOf[Top(Pop(ss))]), Pop(s.b.state_stack))
    BY <2>3, <2>4, CoverValue
  <2>6. Len(s.b.container_stack) > 0
    BY <1>2, <2>1
  <2>7. Uncounted(Pop(cc), n.b)
    BY <1>2, <2>1, <2>6, CloseCounts
  <2>8. n.p.count_stack = Pop(cc)
    <3>1. c.p \in Records /\ c.p.count_stack = Pop(cc)
      BY <1>5, <1>6, <1>7, <1>9, RunFields
    <3>2. PICK t : n.p = [c.p EXCEPT !.state_stack = t]
      BY <1>7, <1>9
    <3> QED BY <3>1, <3>2, CountIsApart
  <2> QED BY <2>1, <2>5, <2>7, <2>8
<1>10. ASSUME n.ok, Top(n.p.state_stack) \notin {"ARRAY_VALUE", "MAP_VALUE"}
       PROVE  Counts(n.p.count_stack, n.b)
  <2>1. n.p \in Records /\ Ind(V, n.b) /\ c.p \in Records
    BY <1>6, <1>7, RunFields
  <2>2. n.p.state_stack \in Seq(States) /\ n.b.state_stack \in Seq(States) /\ c.p.state_stack \in Seq(States)
    BY <2>1, IndParts DEF Records
  <2>3. Top(c.p.state_stack) \in VALUE_STATES /\ ValueOf[Top(c.p.state_stack)] \in States
    BY <1>7, <1>10, CoveredStates
  <2>4. Top(n.p.state_stack) = ValueOf[Top(c.p.state_stack)]
    BY <1>7, <1>10, <2>2, <2>3 DEF Replace, Top
  <2>5. Top(n.p.state_stack) = "TOP_LEVEL"
    BY <1>10, <2>3, <2>4, ValueStates
  <2>6. Top(n.b.state_stack) = "TOP_LEVEL"
    BY <1>9, <1>10, <2>2, <2>5, LockTop
  <2>7. Len(n.b.container_stack) = 0
    BY <2>1, <2>6, DepthAt
  <2> QED BY <1>9, <1>10, <2>7 DEF Counts, Uncounted
<1>11. Locked(Records, V, n)
  BY <1>7, <1>9 DEF Locked
<1> QED BY <1>8, <1>9, <1>10, <1>11, CountAgreed

-----------------------------------------------------------------------------
(***************************************************************************)
(* The inductive invariant: the stacks agree, the counts are right, and    *)
(* the builder is as it should be, without which a closing bracket might   *)
(* pop the last frame.  Once the parse has ended nothing is left to say.   *)
(***************************************************************************)
IInv ==
  /\ TypeOK
  /\ status = "parsing" =>
       /\ Ind(Values, b)
       /\ InLockStep(p.state_stack, b.state_stack)
       /\ Counts(p.count_stack, b)

(* The state llsd_parse_from_file sets up has the invariant. *)
LEMMA IInvInit == Init => IInv
<1> SUFFICES ASSUME Init PROVE IInv
  OBVIOUS
<1>1. Ind(Values, b)
  BY EmptyInd DEF Init
<1>2. /\ p.state_stack = <<"TOP_LEVEL">> /\ b.state_stack = <<"TOP_LEVEL">>
      /\ p.count_stack = << >> /\ b.container_stack = << >>
  BY DEF Init, EmptyBuilder
<1>3. InLockStep(p.state_stack, b.state_stack) /\ Counts(p.count_stack, b)
  BY <1>2 DEF InLockStep, Counts
<1>4. TypeOK
  BY DEF Init, TypeOK, States
<1> QED BY <1>1, <1>3, <1>4 DEF IInv

(* The tokens of the parser's loop. *)
LEMMA TokenFacts ==
  /\ \A val \in Values : Token("scalar", val) \in Tokens /\ Token("string", val) \in Tokens
  /\ \A sym \in Punctuation : Token(sym, "none") \in Tokens
  BY DEF Tokens, Token

(* The run a handler starts with. *)
LEMMA StartAgreed ==
  ASSUME IInv, status = "parsing"
  PROVE  Agreed(Values, S0) /\ S0.ok
<1>1. b \in BuilderType(Values)
  BY IndParts DEF IInv
<1>2. Run(Records, Values, S0)
  BY <1>1 DEF IInv, TypeOK, Records, Run, S0, Start
<1> QED BY <1>2 DEF Agreed, Locked, IInv, S0, Start

(* One turn of the loop, whatever the token. *)
LEMMA TurnKeeps ==
  ASSUME IInv, NEW token \in Tokens, NEW luck, NEW s, Turn(token, luck, s),
         Run(Records, Values, s), s.ok => Agreed(Values, s)
  PROVE  IInv'
<1>1. s.ok \in BOOLEAN /\ s.p \in Records /\ Ind(Values, s.b)
  BY RunFields
<1>2. read' \in Seq(Tokens) /\ p' \in Records /\ lucky' \in BOOLEAN
  BY <1>1 DEF Turn, IInv, TypeOK
<1>3. CASE s.ok
  BY <1>1, <1>2, <1>3 DEF Turn, IInv, TypeOK, Records, Agreed, Locked
<1>4. CASE ~s.ok
  BY <1>1, <1>2, <1>4 DEF Turn, IInv, TypeOK, Records, Outcome
<1> QED BY <1>1, <1>3, <1>4

(* begin_value and end_value, with the states the handlers pass them. *)
LEMMA StepsAgreed ==
  ASSUME NEW s, Agreed(Values, s)
  PROVE  /\ \A valid_states \in {BEGIN_VALUE_STATES, BEGIN_STRING_STATES} :
              Agreed(Values, begin_value(s, valid_states))
         /\ \A valid_states \in {{"ARRAY_VALUE"}, {"MAP_VALUE"}, {"ARRAY_VALUE", "MAP_VALUE"},
                                 {"MAP_KEY"}} :
              Agreed(Values, end_value(s, valid_states))
<1>1. ASSUME NEW valid_states \in {BEGIN_VALUE_STATES, BEGIN_STRING_STATES}
      PROVE  Agreed(Values, begin_value(s, valid_states))
  <2>1. BeginOf \in {BeginOf, EndOf} /\ valid_states \in SUBSET (DOMAIN BeginOf)
    BY <1>1 DEF BeginOf, BEGIN_VALUE_STATES, BEGIN_STRING_STATES
  <2>2. ASSUME NEW y, y = Step(s, valid_states, BeginOf) PROVE Agreed(Values, y)
    BY <2>1, <2>2, StepAgreed
  <2> QED BY <2>2 DEF begin_value
<1>2. ASSUME NEW valid_states \in {{"ARRAY_VALUE"}, {"MAP_VALUE"}, {"ARRAY_VALUE", "MAP_VALUE"},
                                   {"MAP_KEY"}}
      PROVE  Agreed(Values, end_value(s, valid_states))
  <2>1. EndOf \in {BeginOf, EndOf} /\ valid_states \in SUBSET (DOMAIN EndOf)
    BY <1>2 DEF EndOf
  <2>2. ASSUME NEW y, y = Step(s, valid_states, EndOf) PROVE Agreed(Values, y)
    BY <2>1, <2>2, StepAgreed
  <2> QED BY <2>2 DEF end_value
<1> QED BY <1>1, <1>2

(* Every step keeps the invariant. *)
LEMMA IInvNext ==
  ASSUME StacksGrow
  PROVE  IInv /\ [Next]_vars => IInv'
<1> SUFFICES ASSUME IInv, [Next]_vars PROVE IInv'
  OBVIOUS
<1>0. Lucks \subseteq Luck
  BY LucksAssumption DEF StacksGrow
<1>1. CASE UNCHANGED vars
  BY <1>1 DEF vars, IInv, TypeOK, Counts, CountOf
<1>2. ASSUME NEW token \in Tokens, NEW luck, NEW s, Turn(token, luck, s), Agreed(Values, s)
      PROVE  IInv'
  BY <1>2, TurnKeeps DEF Agreed, Locked
<1>3. ASSUME NEW val \in Values, NEW luck \in Lucks, Scalar(val, luck)
      PROVE  IInv'
  <2> DEFINE s1 == begin_value(S0, BEGIN_VALUE_STATES)
             s2 == counted_value(Call(s1, scalar_fn(s1.b, val, luck)), VALUE_STATES)
  <2>1. Turn(Token("scalar", val), luck, s2) /\ Token("scalar", val) \in Tokens
        /\ status = "parsing" /\ luck \in Luck
    BY <1>3, <1>0, TokenFacts DEF Scalar, Turn
  <2>2. Agreed(Values, s1)
    BY <2>1, StartAgreed, StepsAgreed
  <2> HIDE DEF s1
  <2>3. Agreed(Values, s2)
    <3>1. s2 = counted_value(Call(s1, Deliver(s1.b, "scalar", val, VALUE_STATES, luck)), VALUE_STATES)
      BY DEF scalar_fn
    <3>2. "scalar" \in Kinds /\ VALUE_STATES # STRING_STATES
      BY DEF Kinds, VALUE_STATES, STRING_STATES
    <3> HIDE DEF s2
    <3> QED BY <2>1, <2>2, <3>1, <3>2, ValueAgreed
  <2> HIDE DEF s2
  <2> QED BY <1>2, <2>1, <2>3
<1>4. ASSUME NEW val \in Values, NEW luck \in Lucks, String(val, luck)
      PROVE  IInv'
  <2> DEFINE s1 == begin_value(S0, BEGIN_STRING_STATES)
             s2 == counted_value(Call(s1, llsd_string_fn(s1.b, val, luck)), STRING_STATES)
  <2>1. Turn(Token("string", val), luck, s2) /\ Token("string", val) \in Tokens
        /\ status = "parsing" /\ luck \in Luck
    BY <1>4, <1>0, TokenFacts DEF String, Turn
  <2>2. Agreed(Values, s1)
    BY <2>1, StartAgreed, StepsAgreed
  <2> HIDE DEF s1
  <2>3. Agreed(Values, s2)
    <3>1. s2 = counted_value(Call(s1, Deliver(s1.b, "string", val, STRING_STATES, luck)), STRING_STATES)
      BY DEF llsd_string_fn
    <3>2. "string" \in Kinds
      BY DEF Kinds
    <3> HIDE DEF s2
    <3> QED BY <2>1, <2>2, <3>1, <3>2, ValueAgreed
  <2> HIDE DEF s2
  <2> QED BY <1>2, <2>1, <2>3
<1>5. ASSUME NEW luck \in Lucks, OpenArray(luck) \/ OpenMap(luck)
      PROVE  IInv'
  <2> DEFINE s1 == begin_value(S0, BEGIN_VALUE_STATES)
             a  == PushCount(PushState(Call(s1, llsd_array_begin_fn(s1.b, luck)), "ARRAY_BEGIN", luck), luck)
             m  == PushCount(PushState(Call(s1, llsd_map_begin_fn(s1.b, luck)), "MAP_BEGIN", luck), luck)
  <2>1. /\ status = "parsing" /\ luck \in Luck
        /\ Turn(Token("[", "none"), luck, a) \/ Turn(Token("{", "none"), luck, m)
    BY <1>5, <1>0 DEF OpenArray, OpenMap, Turn
  <2>2. Token("[", "none") \in Tokens /\ Token("{", "none") \in Tokens
    BY TokenFacts DEF Punctuation
  <2>3. Agreed(Values, s1)
    BY <2>1, StartAgreed, StepsAgreed
  <2> HIDE DEF s1
  <2>4. Agreed(Values, a) /\ Agreed(Values, m)
    BY <2>1, <2>3, BeginAgreed
  <2> HIDE DEF a, m
  <2> QED BY <1>2, <2>1, <2>2, <2>4
<1>6. ASSUME CloseArray \/ CloseMap
      PROVE  IInv'
  <2>1. status = "parsing"
    BY <1>6 DEF CloseArray, CloseMap, Turn
  <2>2. Token("]", "none") \in Tokens /\ Token("}", "none") \in Tokens
    BY TokenFacts DEF Punctuation
  <2>3. ASSUME NEW state \in {"ARRAY_VALUE", "MAP_VALUE"}
        PROVE  Agreed(Values, EndLastValue(state))
    <3>1. Agreed(Values, S0) /\ Agreed(Values, end_value(S0, {state}))
      BY <2>1, <2>3, StartAgreed, StepsAgreed
    <3> QED BY <3>1 DEF EndLastValue
  <2>4. ASSUME NEW valid_states, ClosingStates(valid_states), NEW state \in {"ARRAY_VALUE", "MAP_VALUE"},
               NEW s1, s1 = PopCount(PopState(EndLastValue(state))),
               NEW y, y = counted_value(Call(s1, CloseContainer(s1.b, valid_states)), VALUE_STATES)
        PROVE  Agreed(Values, y)
    <3>1. ASSUME NEW s, s = EndLastValue(state) PROVE Agreed(Values, y)
      <4>1. Agreed(Values, s) /\ s1 = PopCount(PopState(s))
        BY <2>3, <2>4, <3>1
      <4> QED BY <2>4, <4>1, CloseAgreed
    <3> QED BY <3>1
  <2>5. CASE CloseArray
    <3> DEFINE s1 == PopCount(PopState(EndLastValue("ARRAY_VALUE")))
               s2 == counted_value(Call(s1, llsd_array_end_fn(s1.b)), VALUE_STATES)
    <3>1. Turn(Token("]", "none"), "ok", s2)
      BY <2>5 DEF CloseArray
    <3>2. Agreed(Values, s2)
      BY <2>4 DEF llsd_array_end_fn, ClosingStates
    <3> QED BY <1>2, <2>2, <3>1, <3>2
  <2>6. CASE CloseMap
    <3> DEFINE s1 == PopCount(PopState(EndLastValue("MAP_VALUE")))
               s2 == counted_value(Call(s1, llsd_map_end_fn(s1.b)), VALUE_STATES)
    <3>1. Turn(Token("}", "none"), "ok", s2)
      BY <2>6 DEF CloseMap
    <3>2. Agreed(Values, s2)
      BY <2>4 DEF llsd_map_end_fn, ClosingStates
    <3> QED BY <1>2, <2>2, <3>1, <3>2
  <2> QED BY <1>6, <2>5, <2>6
<1>7. CASE Comma \/ Colon
  <2>1. Token(",", "none") \in Tokens /\ Token(":", "none") \in Tokens /\ status = "parsing"
    BY <1>7, TokenFacts DEF Punctuation, Comma, Colon, Turn
  <2>2. /\ Agreed(Values, end_value(S0, {"ARRAY_VALUE", "MAP_VALUE"}))
        /\ Agreed(Values, end_value(S0, {"MAP_KEY"}))
    BY <2>1, StartAgreed, StepsAgreed
  <2>3. CASE Comma
    BY <1>2, <2>1, <2>2, <2>3 DEF Comma
  <2>4. CASE Colon
    BY <1>2, <2>1, <2>2, <2>4 DEF Colon
  <2> QED BY <1>7, <2>3, <2>4
<1>8. CASE Garbage
  <2>1. Token("garbage", "none") \in Tokens /\ status = "parsing"
    BY <1>8, TokenFacts DEF Punctuation, Garbage, Turn
  <2>2. Run(Records, Values, Stop(S0)) /\ ~Stop(S0).ok
    BY <2>1, StartAgreed, StopRun DEF Agreed, Locked
  <2> QED BY <1>8, <2>1, <2>2, TurnKeeps DEF Garbage
<1>9. CASE EndOfFile
  BY <1>9 DEF EndOfFile, IInv, TypeOK, Outcome
<1> QED BY <1>1, <1>3, <1>4, <1>5, <1>6, <1>7, <1>8, <1>9 DEF Next

(* The invariant holds always. *)
LEMMA IInvAlways ==
  ASSUME StacksGrow
  PROVE  Spec => []IInv
  BY IInvInit, IInvNext, PTL DEF Spec

(* TypeOK of the text parsers: their stacks hold states of the protocol and
   counts only, whatever they read, also in the turn that gives up. *)
THEOREM TypeCorrect ==
  ASSUME StacksGrow
  PROVE  Spec => []TypeOK
<1>1. IInv => TypeOK
  BY DEF IInv
<1> QED BY <1>1, IInvAlways, PTL

(* Between any two tokens llsd_notation_parser.c or llsd_json_parser.c and
   llsd_parser.c are at the same place of the document, as long as the stacks
   grow. *)
THEOREM AlwaysInLockStep ==
  ASSUME StacksGrow
  PROVE  Spec => []LockStep
<1>1. IInv => LockStep
  BY DEF IInv, LockStep
<1> QED BY <1>1, IInvAlways, PTL

(* The count stack counts what the builder's containers hold: the test for an
   empty container at a closing bracket is never wrong, as long as the stacks
   grow. *)
THEOREM CountsAlwaysValues ==
  ASSUME StacksGrow
  PROVE  Spec => []CountsAreValues
<1>1. IInv => CountsAreValues
  BY DEF IInv, CountsAreValues, Counts, CountOf, ValuesIn
<1> QED BY <1>1, IInvAlways, PTL
====
