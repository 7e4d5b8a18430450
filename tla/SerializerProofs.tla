-------------------------- MODULE SerializerProofs --------------------------
(***************************************************************************)
(* The walk of llsd_serialize over values of any size, with any of the     *)
(* four serializers and any number of writes that fail.                    *)
(***************************************************************************)
EXTENDS Serializer, FiniteSetTheorems, SequenceTheorems, TLAPS

FaultRecords == [left : 0 .. MaxWrites, noticed : BOOLEAN]

(* A serializer's state; nothing is said of what is in the file. *)
IsState(x) ==
  x \in [out : {x.out}, count_stack : Seq(Nat), multiline_stack : Seq(BOOLEAN),
         indent : Int, key : BOOLEAN, map_value : BOOLEAN, pretty : BOOLEAN,
         lost : BOOLEAN]

(* A run of a callback. *)
IsRun(s) ==
  s \in [ok : BOOLEAN, st : {s.st}, fault : FaultRecords] /\ IsState(s.st)

(* Two states with the same stacks. *)
SameStacks(x, y) ==
  /\ y.count_stack = x.count_stack /\ y.multiline_stack = x.multiline_stack
  /\ y.indent = x.indent /\ y.pretty = x.pretty

(* What is never struck by a fault does not fail. *)
Calm(s, t) == s.fault.left = 0 => t.fault.left = 0 /\ (s.ok => t.ok)

(* A run that only writes: one that may fail, and one that does not. *)
Wrote(s, t) == IsRun(t) /\ (t.ok => s.ok) /\ SameStacks(s.st, t.st) /\ Calm(s, t)
WroteOn(s, t) == Wrote(s, t) /\ t.ok = s.ok

(* A write that fails, and one that reaches the file. *)
LEMMA OneWrite ==
  ASSUME NEW s, IsRun(s), NEW token
  PROVE  WroteOn(s, Lost(s)) /\ WroteOn(s, Written(s, token))
<1>1. IsState(s.st) /\ s.fault \in FaultRecords /\ s.ok \in BOOLEAN
  BY DEF IsRun
<1>2. s.fault.left \in 0 .. MaxWrites /\ s.fault.noticed \in BOOLEAN
  BY <1>1 DEF FaultRecords
<1>3. \A n \in 0 .. MaxWrites : [s.fault EXCEPT !.left = n] \in FaultRecords
  BY <1>1 DEF FaultRecords
<1>4. WroteOn(s, Lost(s))
  <2> DEFINE x == [s.st EXCEPT !.lost = TRUE]
             f == [s.fault EXCEPT !.left = 0]
  <2>1. Lost(s) \in [ok : {s.ok}, st : {x}, fault : {f}]
    BY DEF Lost, IsRun
  <2>2. IsState(x) /\ SameStacks(s.st, x)
    BY <1>1 DEF IsState, SameStacks
  <2>3. f \in FaultRecords /\ f.left = 0
    BY <1>2, <1>3 DEF MaxWrites, FaultRecords
  <2> HIDE DEF x, f
  <2> QED BY <1>1, <2>1, <2>2, <2>3 DEF WroteOn, Wrote, IsRun, Calm
<1>5. WroteOn(s, Written(s, token))
  <2> DEFINE x == [s.st EXCEPT !.out = Append(@, token)]
             n == IF s.fault.left > 0 THEN s.fault.left - 1 ELSE 0
             f == [s.fault EXCEPT !.left = n]
  <2>1. Written(s, token) \in [ok : {s.ok}, st : {x}, fault : {f}]
    BY DEF Written, IsRun
  <2>2. IsState(x) /\ SameStacks(s.st, x)
    BY <1>1 DEF IsState, SameStacks
  <2>3. n \in 0 .. MaxWrites
    BY <1>2 DEF MaxWrites
  <2>4. f \in FaultRecords /\ (s.fault.left = 0 => f.left = 0)
    BY <1>1, <1>3, <2>3 DEF FaultRecords
  <2> HIDE DEF x, n, f
  <2> QED BY <1>1, <2>1, <2>2, <2>4 DEF WroteOn, Wrote, IsRun, Calm
<1> QED BY <1>4, <1>5

(* An unchecked write never fails, whatever becomes of the token. *)
LEMMA WriteOn ==
  ASSUME NEW s, IsRun(s), NEW token
  PROVE  WroteOn(s, Write(s, token))
<1>1. WroteOn(s, s)
  BY DEF WroteOn, Wrote, SameStacks, Calm
<1> QED BY <1>1, OneWrite DEF Write

(* A checked write fails when it does not reach the file. *)
LEMMA CheckedWriteOn ==
  ASSUME NEW s, IsRun(s), NEW token
  PROVE  /\ Wrote(s, CheckedWrite(s, token))
         /\ CheckedWrite(s, token).ok => CheckedWrite(s, token).st.lost = s.st.lost
<1>1. WroteOn(s, Lost(s)) /\ WroteOn(s, Written(s, token)) /\ WroteOn(s, Write(s, token))
  BY OneWrite, WriteOn
<1>2. Written(s, token).st.lost = s.st.lost
  <2>1. IsState(s.st) /\ s = [ok |-> s.ok, st |-> s.st, fault |-> s.fault]
    BY DEF IsRun
  <2>2. s.fault = [left |-> s.fault.left, noticed |-> s.fault.noticed]
    BY DEF IsRun, FaultRecords
  <2>3. Written(s, token).st = [s.st EXCEPT !.out = Append(@, token)]
    BY <2>1, <2>2 DEF Written
  <2> QED BY <2>1, <2>3 DEF IsState
<1>3. CASE s.ok /\ Breaks(s)
  <2> DEFINE t == Lost(s)
             u == [t EXCEPT !.ok = FALSE]
  <2>1. CheckedWrite(s, token) = u /\ s.fault.left # 0
    BY <1>3 DEF CheckedWrite, Breaks
  <2>2. IsRun(t) /\ SameStacks(s.st, t.st)
    BY <1>1 DEF WroteOn, Wrote
  <2> HIDE DEF t
  <2>3. u \in [ok : {FALSE}, st : {t.st}, fault : {t.fault}]
    BY <2>2 DEF IsRun
  <2>4. IsRun(u) /\ SameStacks(s.st, u.st) /\ u.ok = FALSE
    BY <2>2, <2>3 DEF IsRun
  <2> HIDE DEF u
  <2> QED BY <2>1, <2>4 DEF Wrote, Calm
<1>4. CASE ~(s.ok /\ Breaks(s))
  <2>1. CheckedWrite(s, token) = Write(s, token)
    BY <1>4 DEF CheckedWrite
  <2>2. Write(s, token).ok => Write(s, token).st.lost = s.st.lost
    BY <1>2, <1>4 DEF Write
  <2> QED BY <1>1, <2>1, <2>2 DEF WroteOn
<1> QED BY <1>3, <1>4

(* Writes one after the other. *)
LEMMA WroteTwice ==
  ASSUME NEW s, NEW t, NEW u
  PROVE  /\ Wrote(s, t) /\ Wrote(t, u) => Wrote(s, u)
         /\ WroteOn(s, t) /\ WroteOn(t, u) => WroteOn(s, u)
  BY DEF Wrote, WroteOn, SameStacks, Calm

(* Two runs one after the other, neither of them struck by a fault. *)
LEMMA CalmTwice ==
  ASSUME NEW s, NEW t, NEW u, Calm(s, t), Calm(t, u)
  PROVE  Calm(s, u)
  BY DEF Calm

(* A scalar's write, and the writes that depend on the stacks. *)
LEMMA OtherWrites ==
  ASSUME NEW s, IsRun(s), NEW token
  PROVE  /\ Wrote(s, ScalarWrite(s, token))
         /\ WroteOn(s, NL(s)) /\ WroteOn(s, INDENT(s)) /\ WroteOn(s, NewLine(s))
<1>1. WroteOn(s, s)
  BY DEF WroteOn, Wrote, SameStacks, Calm
<1>2. Wrote(s, ScalarWrite(s, token))
  BY WriteOn, CheckedWriteOn DEF ScalarWrite, WroteOn
<1>3. \A t : IsRun(t) => WroteOn(t, t) /\ WroteOn(t, Write(t, Space))
  BY WriteOn DEF WroteOn, Wrote, SameStacks, Calm
<1>4. \A t : IsRun(t) => WroteOn(t, NL(t)) /\ WroteOn(t, INDENT(t))
  BY <1>3 DEF NL, INDENT
<1>5. IsRun(NL(s))
  BY <1>4 DEF WroteOn, Wrote
<1>6. WroteOn(s, NewLine(s))
  BY <1>4, <1>5, WroteTwice DEF NewLine
<1> QED BY <1>2, <1>4, <1>6

(***************************************************************************)
(* What the callbacks around a container, and the one after a value, make  *)
(* of the stacks.  Only the text serializers count.                        *)
(***************************************************************************)
Begun(s, t, counts) ==
  /\ IsRun(t) /\ Calm(s, t) /\ t.st.pretty = s.st.pretty
  /\ t.st.indent = s.st.indent + (IF t.ok /\ s.st.pretty THEN 1 ELSE 0)
  /\ t.ok => /\ \E x \in BOOLEAN : t.st.multiline_stack = Push(s.st.multiline_stack, x)
             /\ counts => t.st.count_stack = Push(s.st.count_stack, 0)
Ended(s, t, counts) ==
  /\ IsRun(t) /\ Calm(s, t) /\ t.st.pretty = s.st.pretty
  /\ t.st.indent = s.st.indent - (IF s.st.pretty THEN 1 ELSE 0)
  /\ t.ok => /\ t.st.multiline_stack = Pop(s.st.multiline_stack)
             /\ counts => t.st.count_stack = Pop(s.st.count_stack)
Counted(s, t) ==
  /\ IsRun(t) /\ Calm(s, t) /\ t.st.pretty = s.st.pretty /\ t.st.indent = s.st.indent
  /\ t.st.multiline_stack = s.st.multiline_stack
  /\ t.st.count_stack = Replace(s.st.count_stack, TopObj(s.st.count_stack) + 1)

(* Runs with one of the stacks changed. *)
WithMultiline(s, v) == [s EXCEPT !.st.multiline_stack = v]
WithCounts(s, v)    == [s EXCEPT !.st.count_stack = v]
WithIndent(s, v)    == [s EXCEPT !.st.indent = v]

(* A run with a state that differs in one field. *)
LEMMA SetState ==
  ASSUME NEW s, IsRun(s), NEW x, IsState(x),
         NEW t, t \in [ok : {s.ok}, st : {x}, fault : {s.fault}]
  PROVE  IsRun(t) /\ t.ok = s.ok /\ t.st = x /\ Calm(s, t)
<1>1. s \in [ok : BOOLEAN, st : {s.st}, fault : FaultRecords]
  BY DEF IsRun
<1> QED BY <1>1 DEF IsRun, Calm

(* Another stack of line breaks. *)
LEMMA SetMultiline ==
  ASSUME NEW s, IsRun(s), NEW v \in Seq(BOOLEAN),
         NEW t, t = WithMultiline(s, v)
  PROVE  /\ IsRun(t) /\ Calm(s, t) /\ t.ok = s.ok /\ t.st.multiline_stack = v
         /\ t.st.count_stack = s.st.count_stack /\ t.st.indent = s.st.indent /\ t.st.pretty = s.st.pretty
<1> DEFINE x == [s.st EXCEPT !.multiline_stack = v]
<1>1. IsState(s.st) /\ s \in [ok : BOOLEAN, st : {s.st}, fault : FaultRecords]
  BY DEF IsRun
<1>2. /\ IsState(x) /\ x.multiline_stack = v
      /\ x.count_stack = s.st.count_stack /\ x.indent = s.st.indent /\ x.pretty = s.st.pretty
  BY <1>1 DEF IsState
<1>3. t \in [ok : {s.ok}, st : {x}, fault : {s.fault}]
  BY <1>1 DEF WithMultiline
<1> HIDE DEF x
<1>4. IsRun(t) /\ Calm(s, t) /\ t.ok = s.ok /\ t.st = x
  BY <1>2, <1>3, SetState
<1> QED BY <1>2, <1>4

(* Another stack of counts. *)
LEMMA SetCounts ==
  ASSUME NEW s, IsRun(s), NEW v \in Seq(Nat),
         NEW t, t = WithCounts(s, v)
  PROVE  /\ IsRun(t) /\ Calm(s, t) /\ t.ok = s.ok /\ t.st.count_stack = v
         /\ t.st.multiline_stack = s.st.multiline_stack /\ t.st.indent = s.st.indent /\ t.st.pretty = s.st.pretty
<1> DEFINE x == [s.st EXCEPT !.count_stack = v]
<1>1. IsState(s.st) /\ s \in [ok : BOOLEAN, st : {s.st}, fault : FaultRecords]
  BY DEF IsRun
<1>2. /\ IsState(x) /\ x.count_stack = v
      /\ x.multiline_stack = s.st.multiline_stack /\ x.indent = s.st.indent /\ x.pretty = s.st.pretty
  BY <1>1 DEF IsState
<1>3. t \in [ok : {s.ok}, st : {x}, fault : {s.fault}]
  BY <1>1 DEF WithCounts
<1> HIDE DEF x
<1>4. IsRun(t) /\ Calm(s, t) /\ t.ok = s.ok /\ t.st = x
  BY <1>2, <1>3, SetState
<1> QED BY <1>2, <1>4

(* Another indentation. *)
LEMMA SetIndent ==
  ASSUME NEW s, IsRun(s), NEW v \in Int,
         NEW t, t = WithIndent(s, v)
  PROVE  /\ IsRun(t) /\ Calm(s, t) /\ t.ok = s.ok /\ t.st.indent = v
         /\ t.st.multiline_stack = s.st.multiline_stack /\ t.st.count_stack = s.st.count_stack /\ t.st.pretty = s.st.pretty
<1> DEFINE x == [s.st EXCEPT !.indent = v]
<1>1. IsState(s.st) /\ s \in [ok : BOOLEAN, st : {s.st}, fault : FaultRecords]
  BY DEF IsRun
<1>2. /\ IsState(x) /\ x.indent = v
      /\ x.multiline_stack = s.st.multiline_stack /\ x.count_stack = s.st.count_stack /\ x.pretty = s.st.pretty
  BY <1>1 DEF IsState
<1>3. t \in [ok : {s.ok}, st : {x}, fault : {s.fault}]
  BY <1>1 DEF WithIndent
<1> HIDE DEF x
<1>4. IsRun(t) /\ Calm(s, t) /\ t.ok = s.ok /\ t.st = x
  BY <1>2, <1>3, SetState
<1> QED BY <1>2, <1>4

(* The two flags are no part of the stacks. *)
LEMMA SetFlags ==
  ASSUME NEW s, IsRun(s), NEW v \in BOOLEAN
  PROVE  /\ WroteOn(s, [s EXCEPT !.st.map_value = v])
         /\ WroteOn(s, [s EXCEPT !.st.key = v])
<1>1. IsState(s.st) /\ s \in [ok : BOOLEAN, st : {s.st}, fault : FaultRecords]
  BY DEF IsRun
<1>2. WroteOn(s, [s EXCEPT !.st.map_value = v])
  <2> DEFINE x == [s.st EXCEPT !.map_value = v]
             t == [s EXCEPT !.st.map_value = v]
  <2>1. IsState(x) /\ SameStacks(s.st, x)
    BY <1>1 DEF IsState, SameStacks
  <2>2. t \in [ok : {s.ok}, st : {x}, fault : {s.fault}]
    BY <1>1
  <2> HIDE DEF x, t
  <2>3. IsRun(t) /\ Calm(s, t) /\ t.ok = s.ok /\ t.st = x
    BY <2>1, <2>2, SetState
  <2> QED BY <2>1, <2>3 DEF t, WroteOn, Wrote
<1>3. WroteOn(s, [s EXCEPT !.st.key = v])
  <2> DEFINE x == [s.st EXCEPT !.key = v]
             t == [s EXCEPT !.st.key = v]
  <2>1. IsState(x) /\ SameStacks(s.st, x)
    BY SMTT(30), <1>1 DEF IsState, SameStacks
  <2>2. t \in [ok : {s.ok}, st : {x}, fault : {s.fault}]
    BY <1>1
  <2> HIDE DEF x, t
  <2>3. IsRun(t) /\ Calm(s, t) /\ t.ok = s.ok /\ t.st = x
    BY <2>1, <2>2, SetState
  <2> QED BY <2>1, <2>3 DEF t, WroteOn, Wrote
<1> QED BY <1>2, <1>3

(* PUSH puts the new head on top and leaves the rest of the stack alone. *)
LEMMA PushFacts ==
  ASSUME NEW S, NEW s \in Seq(S), NEW x \in S
  PROVE  /\ Push(s, x) \in Seq(S)
         /\ Len(Push(s, x)) = Len(s) + 1
         /\ Push(s, x)[Len(s) + 1] = x
         /\ \A i \in 1 .. Len(s) : Push(s, x)[i] = s[i]
  BY DEF Push

(* POP of a stack that is not empty takes its head off and nothing else. *)
LEMMA PopFacts ==
  ASSUME NEW S, NEW s \in Seq(S), Len(s) > 0
  PROVE  /\ Pop(s) \in Seq(S)
         /\ Len(Pop(s)) = Len(s) - 1
         /\ \A i \in 1 .. Len(s) - 1 : Pop(s)[i] = s[i]
<1>1. PICK n \in Nat : Len(s) = n + 1
  <2>1. Len(s) - 1 \in Nat /\ Len(s) = (Len(s) - 1) + 1
    OBVIOUS
  <2> QED BY <2>1
<1>2. \A i \in 1 .. n : s[i] \in S
  BY <1>1
<1>3. Pop(s) = SubSeq(s, 1, n)
  BY <1>1 DEF Pop
<1>8. /\ SubSeq(s, 1, n) \in Seq(S)
      /\ Len(SubSeq(s, 1, n)) = IF 1 <= n THEN n - 1 + 1 ELSE 0
      /\ \A i \in 1 .. n - 1 + 1 : SubSeq(s, 1, n)[i] = s[1 + i - 1]
  BY <1>2, SubSeqProperties
<1>4. PICK t : t = SubSeq(s, 1, n)
  OBVIOUS
<1>5. /\ t \in Seq(S)
      /\ Len(t) = IF 1 <= n THEN n - 1 + 1 ELSE 0
      /\ \A i \in 1 .. n - 1 + 1 : t[i] = s[1 + i - 1]
  BY <1>8, <1>4, Zenon
<1>6. Len(t) = n
  BY <1>5
<1>7. ASSUME NEW i \in 1 .. n PROVE t[i] = s[i]
  <2>1. i \in 1 .. n - 1 + 1 /\ 1 + i - 1 = i
    OBVIOUS
  <2> QED BY <1>5, <2>1
<1> QED BY <1>1, <1>3, <1>4, <1>5, <1>6, <1>7

(* POP and PUSH together change the head only. *)
LEMMA ReplaceFacts ==
  ASSUME NEW S, NEW s \in Seq(S), NEW x \in S, Len(s) > 0
  PROVE  /\ Replace(s, x) \in Seq(S)
         /\ Len(Replace(s, x)) = Len(s)
         /\ Replace(s, x)[Len(s)] = x
         /\ \A i \in 1 .. Len(s) - 1 : Replace(s, x)[i] = s[i]
  BY DEF Replace

(* The same for stacks of which only the elements matter; POP of an empty
   stack does nothing and REPLACE pushes. *)
LEMMA StackTypes ==
  ASSUME NEW S, NEW q \in Seq(S)
  PROVE  /\ \A x \in S : Push(q, x) \in Seq(S) /\ Replace(q, x) \in Seq(S)
         /\ Pop(q) \in Seq(S)
<1>1. \A x \in S : Push(q, x) \in Seq(S)
  BY PushFacts
<1>2. CASE q = << >>
  <2>1. \A x \in S : Replace(q, x) = <<x>> /\ <<x>> \in Seq(S)
    BY <1>2 DEF Replace
  <2>2. Pop(q) = << >>
    BY <1>2 DEF Pop
  <2>3. << >> \in Seq(S)
    OBVIOUS
  <2>4. Pop(q) \in Seq(S)
    BY ONLY <2>2, <2>3
  <2> QED BY <1>1, <2>1, <2>4
<1>3. CASE q # << >>
  <2>1. Len(q) > 0
    BY <1>3
  <2> QED BY <1>1, <2>1, PopFacts, ReplaceFacts
<1> QED BY <1>2, <1>3

(* INC_INDENT and DEC_INDENT. *)
LEMMA Indented ==
  ASSUME NEW s, IsRun(s), NEW n \in Int, NEW t, t = AddIndent(s, n)
  PROVE  /\ IsRun(t) /\ Calm(s, t) /\ (t.ok <=> s.ok)
         /\ t.st.multiline_stack = s.st.multiline_stack
         /\ t.st.count_stack = s.st.count_stack /\ t.st.pretty = s.st.pretty
         /\ t.st.indent = s.st.indent + (IF s.ok /\ s.st.pretty THEN n ELSE 0)
<1>1. s.st.indent \in Int
  BY DEF IsRun, IsState
<1>2. PICK v \in Int : v = s.st.indent + n
  BY <1>1
<1>3. CASE s.ok /\ s.st.pretty
  <2>1. t = WithIndent(s, v)
    BY <1>2, <1>3 DEF AddIndent, WithIndent
  <2>2. /\ IsRun(t) /\ Calm(s, t) /\ (t.ok <=> s.ok) /\ t.st.indent = v
        /\ t.st.multiline_stack = s.st.multiline_stack
        /\ t.st.count_stack = s.st.count_stack /\ t.st.pretty = s.st.pretty
    BY <2>1, SetIndent
  <2> QED BY <1>2, <1>3, <2>2
<1>4. CASE ~(s.ok /\ s.st.pretty)
  <2>1. t = s
    BY <1>4 DEF AddIndent
  <2>2. s.st.indent + 0 = s.st.indent
    BY <1>1
  <2> QED BY <1>4, <2>1, <2>2 DEF Calm
<1> QED BY <1>3, <1>4

(* PUSHML, PUSHC, POPML and POPC of a run in which nothing has failed. *)
LEMMA Stacked ==
  ASSUME NEW s, IsRun(s), s.ok
  PROVE  /\ \A x \in BOOLEAN :
              /\ IsRun(PUSHML(s, x)) /\ Calm(s, PUSHML(s, x)) /\ PUSHML(s, x).ok
              /\ PUSHML(s, x).st.multiline_stack = Push(s.st.multiline_stack, x)
              /\ PUSHML(s, x).st.count_stack = s.st.count_stack
              /\ PUSHML(s, x).st.indent = s.st.indent
              /\ PUSHML(s, x).st.pretty = s.st.pretty
         /\ /\ IsRun(POPML(s)) /\ Calm(s, POPML(s)) /\ POPML(s).ok
            /\ POPML(s).st.multiline_stack = Pop(s.st.multiline_stack)
            /\ POPML(s).st.count_stack = s.st.count_stack
            /\ POPML(s).st.indent = s.st.indent /\ POPML(s).st.pretty = s.st.pretty
         /\ /\ IsRun(PUSHC(s)) /\ Calm(s, PUSHC(s)) /\ PUSHC(s).ok
            /\ PUSHC(s).st.count_stack = Push(s.st.count_stack, 0)
            /\ PUSHC(s).st.multiline_stack = s.st.multiline_stack
            /\ PUSHC(s).st.indent = s.st.indent /\ PUSHC(s).st.pretty = s.st.pretty
         /\ /\ IsRun(POPC(s)) /\ Calm(s, POPC(s)) /\ POPC(s).ok
            /\ POPC(s).st.count_stack = Pop(s.st.count_stack)
            /\ POPC(s).st.multiline_stack = s.st.multiline_stack
            /\ POPC(s).st.indent = s.st.indent /\ POPC(s).st.pretty = s.st.pretty
<1>1. s.st.multiline_stack \in Seq(BOOLEAN) /\ s.st.count_stack \in Seq(Nat)
  BY DEF IsRun, IsState
<1>2. ASSUME NEW x \in BOOLEAN
      PROVE  /\ IsRun(PUSHML(s, x)) /\ Calm(s, PUSHML(s, x)) /\ PUSHML(s, x).ok
             /\ PUSHML(s, x).st.multiline_stack = Push(s.st.multiline_stack, x)
             /\ PUSHML(s, x).st.count_stack = s.st.count_stack
             /\ PUSHML(s, x).st.indent = s.st.indent
             /\ PUSHML(s, x).st.pretty = s.st.pretty
  <2>1. Push(s.st.multiline_stack, x) \in Seq(BOOLEAN)
    BY <1>1, StackTypes
  <2>2. PUSHML(s, x) = WithMultiline(s, Push(s.st.multiline_stack, x))
    BY DEF PUSHML, WithMultiline
  <2> QED BY <2>1, <2>2, SetMultiline
<1>3. /\ IsRun(POPML(s)) /\ Calm(s, POPML(s)) /\ POPML(s).ok
      /\ POPML(s).st.multiline_stack = Pop(s.st.multiline_stack)
      /\ POPML(s).st.count_stack = s.st.count_stack
      /\ POPML(s).st.indent = s.st.indent /\ POPML(s).st.pretty = s.st.pretty
  <2>1. Pop(s.st.multiline_stack) \in Seq(BOOLEAN)
    BY <1>1, StackTypes
  <2>2. POPML(s) = WithMultiline(s, Pop(s.st.multiline_stack))
    BY DEF POPML, WithMultiline
  <2> QED BY <2>1, <2>2, SetMultiline
<1>4. /\ IsRun(PUSHC(s)) /\ Calm(s, PUSHC(s)) /\ PUSHC(s).ok
      /\ PUSHC(s).st.count_stack = Push(s.st.count_stack, 0)
      /\ PUSHC(s).st.multiline_stack = s.st.multiline_stack
      /\ PUSHC(s).st.indent = s.st.indent /\ PUSHC(s).st.pretty = s.st.pretty
  <2>1. Push(s.st.count_stack, 0) \in Seq(Nat)
    BY <1>1, StackTypes
  <2>2. PUSHC(s) = WithCounts(s, Push(s.st.count_stack, 0))
    BY DEF PUSHC, WithCounts
  <2> QED BY <2>1, <2>2, SetCounts
<1>5. /\ IsRun(POPC(s)) /\ Calm(s, POPC(s)) /\ POPC(s).ok
      /\ POPC(s).st.count_stack = Pop(s.st.count_stack)
      /\ POPC(s).st.multiline_stack = s.st.multiline_stack
      /\ POPC(s).st.indent = s.st.indent /\ POPC(s).st.pretty = s.st.pretty
  <2>1. Pop(s.st.count_stack) \in Seq(Nat)
    BY <1>1, StackTypes
  <2>2. POPC(s) = WithCounts(s, Pop(s.st.count_stack))
    BY DEF POPC, WithCounts
  <2> QED BY <2>1, <2>2, SetCounts
<1> QED BY <1>2, <1>3, <1>4, <1>5

(* The callbacks of the text serializers that begin a container. *)
LEMMA TextBegins ==
  ASSUME NEW s, IsRun(s), s.ok, NEW node, NEW bracket
  PROVE  Begun(s, text_begin(s, node, bracket), TRUE)
<1> DEFINE many == size(node) > 1
           c  == PUSHC(s)
           s1 == PUSHML(c, many)
           s2 == IF s.st.map_value /\ many THEN NewLine(s1) ELSE s1
           s3 == CheckedWrite(s2, Punct(bracket))
           t  == INC_INDENT(s3)
<1>1. /\ IsRun(c) /\ Calm(s, c) /\ c.ok /\ c.st.count_stack = Push(s.st.count_stack, 0)
      /\ c.st.multiline_stack = s.st.multiline_stack
      /\ c.st.indent = s.st.indent /\ c.st.pretty = s.st.pretty
  BY Stacked
<1> HIDE DEF c
<1>0. many \in BOOLEAN
  OBVIOUS
<1> HIDE DEF many
<1>2. /\ IsRun(s1) /\ Calm(c, s1) /\ s1.st.count_stack = c.st.count_stack
      /\ s1.st.multiline_stack = Push(s.st.multiline_stack, many)
      /\ s1.st.indent = s.st.indent /\ s1.st.pretty = s.st.pretty
  BY <1>0, <1>1, Stacked
<1> HIDE DEF s1
<1>3. WroteOn(s1, s2)
  <2>1. WroteOn(s1, NewLine(s1)) /\ WroteOn(s1, s1)
    BY <1>2, OtherWrites DEF WroteOn, Wrote, SameStacks, Calm
  <2> QED BY <2>1
<1> HIDE DEF s2
<1>4. IsRun(s3) /\ Calm(s1, s3) /\ SameStacks(s1.st, s3.st)
  <2>1. IsRun(s2)
    BY <1>3 DEF WroteOn, Wrote
  <2>2. Wrote(s1, s3)
    BY <1>3, <2>1, CheckedWriteOn, WroteTwice DEF WroteOn
  <2> QED BY <2>2 DEF Wrote
<1> HIDE DEF s3
<1>5. t = AddIndent(s3, 1)
  BY DEF INC_INDENT
<1>6. text_begin(s, node, bracket) = t
  BY DEF text_begin, t, s3, s2, s1, c, many
<1> HIDE DEF t
<1>7. /\ IsRun(t) /\ Calm(s3, t) /\ (t.ok <=> s3.ok)
      /\ t.st.multiline_stack = s3.st.multiline_stack
      /\ t.st.count_stack = s3.st.count_stack /\ t.st.pretty = s3.st.pretty
      /\ t.st.indent = s3.st.indent + (IF s3.ok /\ s3.st.pretty THEN 1 ELSE 0)
  BY <1>4, <1>5, Indented
<1>8. t.st.multiline_stack = Push(s.st.multiline_stack, many)
      /\ t.st.count_stack = Push(s.st.count_stack, 0)
  BY <1>1, <1>2, <1>4, <1>7 DEF SameStacks
<1>9. t.st.pretty = s.st.pretty
      /\ t.st.indent = s.st.indent + (IF t.ok /\ s.st.pretty THEN 1 ELSE 0)
  BY <1>2, <1>4, <1>7 DEF SameStacks
<1>10. Calm(s, t)
  BY <1>1, <1>2, <1>4, <1>7, CalmTwice
<1> QED BY <1>0, <1>6, <1>7, <1>8, <1>9, <1>10 DEF Begun

(* The callbacks of the text serializers that end a container. *)
LEMMA TextEnds ==
  ASSUME NEW s, IsRun(s), s.ok, NEW bracket
  PROVE  Ended(s, text_end(s, bracket), TRUE)
<1> DEFINE n  == NL(s)
           d  == DEC_INDENT(n)
           i  == INDENT(d)
           w  == CheckedWrite(i, Punct(bracket))
           m  == POPML(w)
           t  == POPC(m)
<1>1. IsRun(n) /\ Calm(s, n) /\ n.ok /\ SameStacks(s.st, n.st)
  BY OtherWrites DEF WroteOn, Wrote
<1> HIDE DEF n
<1>2. d = AddIndent(n, -1)
  BY DEF DEC_INDENT
<1> HIDE DEF d
<1>3. /\ IsRun(d) /\ Calm(n, d) /\ d.st.multiline_stack = n.st.multiline_stack
      /\ d.st.count_stack = n.st.count_stack /\ d.st.pretty = n.st.pretty
      /\ d.st.indent = n.st.indent + (IF n.ok /\ n.st.pretty THEN -1 ELSE 0)
  BY <1>1, <1>2, Indented
<1>4. WroteOn(d, i)
  BY <1>3, OtherWrites
<1> HIDE DEF i
<1>5. IsRun(w) /\ Calm(d, w) /\ SameStacks(d.st, w.st)
  <2>1. IsRun(i)
    BY <1>4 DEF WroteOn, Wrote
  <2>2. Wrote(d, w)
    BY <1>4, <2>1, CheckedWriteOn, WroteTwice DEF WroteOn
  <2> QED BY <2>2 DEF Wrote
<1> HIDE DEF w
<1>6. /\ w.st.multiline_stack = s.st.multiline_stack /\ w.st.count_stack = s.st.count_stack
      /\ w.st.pretty = s.st.pretty
      /\ w.st.indent = s.st.indent - (IF s.st.pretty THEN 1 ELSE 0)
  <2>1. s.st.indent \in Int
    BY DEF IsRun, IsState
  <2> QED BY <1>1, <1>3, <1>5, <2>1 DEF SameStacks
<1>10. Calm(s, w)
  BY <1>1, <1>3, <1>5, CalmTwice
<1>7. text_end(s, bracket) = t
  BY DEF text_end, t, m, w, i, d, n
<1>8. CASE ~w.ok
  <2>1. t = w
    BY <1>8 DEF POPML, POPC
  <2> HIDE DEF t
  <2> QED BY <1>5, <1>6, <1>7, <1>8, <1>10, <2>1 DEF Ended
<1>9. CASE w.ok
  <2>1. /\ IsRun(m) /\ Calm(w, m) /\ m.ok /\ m.st.multiline_stack = Pop(w.st.multiline_stack)
        /\ m.st.count_stack = w.st.count_stack
        /\ m.st.indent = w.st.indent /\ m.st.pretty = w.st.pretty
    BY <1>5, <1>9, Stacked
  <2> HIDE DEF m
  <2>2. /\ IsRun(t) /\ Calm(m, t) /\ t.ok /\ t.st.count_stack = Pop(m.st.count_stack)
        /\ t.st.multiline_stack = m.st.multiline_stack
        /\ t.st.indent = m.st.indent /\ t.st.pretty = m.st.pretty
    BY <2>1, Stacked
  <2> HIDE DEF t
  <2>3. Calm(s, t)
    BY <1>10, <2>1, <2>2, CalmTwice
  <2> QED BY <1>6, <1>7, <2>1, <2>2, <2>3 DEF Ended
<1> QED BY <1>8, <1>9

(* The other callbacks of the text serializers. *)
LEMMA TextOthers ==
  ASSUME NEW s, IsRun(s), NEW node
  PROVE  /\ Wrote(s, text_value(s, node))
         /\ WroteOn(s, text_array_value_begin(s)) /\ WroteOn(s, text_map_key_begin(s))
         /\ WroteOn(s, text_map_key_end(s)) /\ WroteOn(s, text_map_value_begin(s))
         /\ Counted(s, text_array_value_end(s)) /\ Counted(s, text_map_value_end(s))
<1>1. WroteOn(s, s)
  BY DEF WroteOn, Wrote, SameStacks, Calm
<1>2. Wrote(s, text_value(s, node))
  BY WriteOn, OtherWrites DEF text_value, text_string, text_scalar, WroteOn
<1>3. WroteOn(s, NewLine(COMMA(s)))
  <2>1. WroteOn(s, COMMA(s))
    BY <1>1, WriteOn DEF COMMA
  <2>2. IsRun(COMMA(s))
    BY <2>1 DEF WroteOn, Wrote
  <2> QED BY <2>1, <2>2, OtherWrites, WroteTwice
<1>4. WroteOn(s, text_map_key_end(s))
  BY WriteOn DEF text_map_key_end
<1>5. WroteOn(s, text_map_value_begin(s))
  BY SetFlags DEF text_map_value_begin
<1> DEFINE c == CountValue(s)
           n == Replace(s.st.count_stack, TopObj(s.st.count_stack) + 1)
<1>6. n \in Seq(Nat)
  <2>1. s.st.count_stack \in Seq(Nat)
    BY DEF IsRun, IsState
  <2>2. TopObj(s.st.count_stack) \in Nat
    BY <2>1 DEF TopObj
  <2>3. TopObj(s.st.count_stack) + 1 \in Nat
    BY <2>2
  <2> QED BY <2>1, <2>3, StackTypes
<1>7. c = WithCounts(s, n)
  BY DEF CountValue, WithCounts
<1> HIDE DEF n, c
<1>8. /\ IsRun(c) /\ Calm(s, c) /\ c.st.count_stack = n
      /\ c.st.multiline_stack = s.st.multiline_stack
      /\ c.st.indent = s.st.indent /\ c.st.pretty = s.st.pretty
  BY <1>6, <1>7, SetCounts
<1>9. Counted(s, c)
  BY <1>8 DEF Counted, n
<1>10. WroteOn(c, [c EXCEPT !.st.map_value = FALSE])
  BY <1>8, SetFlags
<1>11. text_map_value_end(s) = [c EXCEPT !.st.map_value = FALSE]
  BY DEF text_map_value_end, c
<1>14. Calm(s, text_map_value_end(s))
  BY <1>8, <1>10, <1>11, CalmTwice DEF WroteOn, Wrote
<1>12. Counted(s, text_map_value_end(s))
  BY <1>14, <1>8, <1>9, <1>10, <1>11 DEF Counted, WroteOn, Wrote, SameStacks
<1>13. Counted(s, text_array_value_end(s))
  BY <1>9 DEF text_array_value_end, c
<1> QED BY <1>2, <1>3, <1>4, <1>5, <1>12, <1>13 DEF text_array_value_begin, text_map_key_begin

(* An empty element is one write. *)
LEMMA EmptyElementOn ==
  ASSUME NEW s, IsRun(s), NEW tag
  PROVE  WroteOn(s, EmptyElement(s, tag))
<1> DEFINE s1 == Write(s, Open(tag))
           t  == [s1 EXCEPT !.st.out = Append(@, Close(tag))]
<1>1. WroteOn(s, s1)
  BY WriteOn
<1> HIDE DEF s1
<1>2. IsRun(s1) /\ IsState(s1.st)
  BY <1>1 DEF WroteOn, Wrote, IsRun
<1>3. WroteOn(s1, t)
  <2> DEFINE x == [s1.st EXCEPT !.out = Append(@, Close(tag))]
  <2>1. IsState(x) /\ SameStacks(s1.st, x)
    BY <1>2 DEF IsState, SameStacks
  <2>2. t \in [ok : {s1.ok}, st : {x}, fault : {s1.fault}]
    BY <1>2 DEF IsRun
  <2> HIDE DEF x, t
  <2>3. IsRun(t) /\ Calm(s1, t) /\ t.ok = s1.ok /\ t.st = x
    BY <1>2, <2>1, <2>2, SetState
  <2> QED BY <2>1, <2>3 DEF WroteOn, Wrote
<1>4. EmptyElement(s, tag) \in {t, s1}
  BY DEF EmptyElement, s1
<1> HIDE DEF t
<1> QED BY <1>1, <1>3, <1>4, WroteTwice

(* The XML serializer's callback for a value, and those around keys. *)
LEMMA XmlOthers ==
  ASSUME NEW s, IsRun(s), NEW node
  PROVE  /\ Wrote(s, xml_value(s, node))
         /\ WroteOn(s, xml_array_value_begin(s))
         /\ WroteOn(s, xml_map_key_begin(s)) /\ WroteOn(s, xml_map_key_end(s))
<1>1. \A t, token : IsRun(t) => /\ WroteOn(t, t) /\ WroteOn(t, Write(t, token))
                                /\ Wrote(t, t) /\ Wrote(t, Write(t, token))
                                /\ Wrote(t, ScalarWrite(t, token))
  BY WriteOn, OtherWrites DEF WroteOn, Wrote, SameStacks, Calm
<1>2. \A t, u : Wrote(t, u) => IsRun(u)
  BY DEF Wrote
<1>3. \A tag : Wrote(s, EmptyElement(s, tag))
  BY EmptyElementOn DEF WroteOn
<1>4. Wrote(s, xml_string(s, node))
  <2>1. \A t, val : IsRun(t) => Wrote(t, WriteString(t, val))
    BY <1>1 DEF WriteString
  <2> DEFINE w == Write(s, Open("string"))
             v == WriteString(w, node.val)
             u == Write(v, Close("string"))
  <2>2. Wrote(s, w) /\ IsRun(w)
    BY <1>1, <1>2
  <2> HIDE DEF w
  <2>3. Wrote(s, v) /\ IsRun(v)
    BY <1>2, <2>1, <2>2, WroteTwice
  <2> HIDE DEF v
  <2>4. Wrote(s, u)
    BY <1>1, <2>3, WroteTwice
  <2>5. xml_string(s, node) \in {WriteString(s, node.val), EmptyElement(s, "string"), u}
    BY DEF xml_string, u, v, w
  <2> HIDE DEF u
  <2> QED BY <1>3, <2>1, <2>4, <2>5
<1>5. Wrote(s, xml_scalar(s, node))
  <2> DEFINE w == Write(s, Open("scalar"))
             v == ScalarWrite(w, Text(node.val))
             u == Write(v, Close("scalar"))
  <2>2. Wrote(s, w) /\ IsRun(w)
    BY <1>1, <1>2
  <2> HIDE DEF w
  <2>3. Wrote(s, v) /\ IsRun(v)
    BY <1>1, <1>2, <2>2, WroteTwice
  <2> HIDE DEF v
  <2>4. Wrote(s, u)
    BY <1>1, <2>3, WroteTwice
  <2>5. xml_scalar(s, node) \in {EmptyElement(s, "scalar"), u}
    BY DEF xml_scalar, u, v, w
  <2> HIDE DEF u
  <2> QED BY <1>3, <2>4, <2>5
<1>6. WroteOn(s, NewLine(s)) /\ IsRun(NewLine(s))
  BY OtherWrites DEF WroteOn, Wrote
<1>7. WroteOn(s, xml_map_key_begin(s))
  <2> DEFINE w == Write(NewLine(s), Open("string"))
  <2>1. WroteOn(s, w) /\ IsRun(w)
    BY <1>1, <1>6, WroteTwice DEF WroteOn, Wrote
  <2>2. xml_map_key_begin(s) = [w EXCEPT !.st.key = TRUE]
    BY DEF xml_map_key_begin
  <2> HIDE DEF w
  <2>3. WroteOn(w, [w EXCEPT !.st.key = TRUE])
    BY <2>1, SetFlags
  <2> QED BY <2>1, <2>2, <2>3, WroteTwice
<1>8. WroteOn(s, xml_map_key_end(s))
  <2> DEFINE w == Write(s, Close("string"))
  <2>1. WroteOn(s, w) /\ IsRun(w)
    BY <1>1, <1>2 DEF WroteOn
  <2>2. xml_map_key_end(s) = [w EXCEPT !.st.key = FALSE]
    BY DEF xml_map_key_end
  <2> HIDE DEF w
  <2>3. WroteOn(w, [w EXCEPT !.st.key = FALSE])
    BY <2>1, SetFlags
  <2> QED BY <2>1, <2>2, <2>3, WroteTwice
<1> QED BY <1>4, <1>5, <1>6, <1>7, <1>8 DEF xml_value, xml_array_value_begin

(* The callbacks of the XML serializer that begin a container. *)
LEMMA XmlBegins ==
  ASSUME NEW s, IsRun(s), s.ok, NEW node
  PROVE  Begun(s, xml_begin(s, node), FALSE)
<1> DEFINE many == size(node) > 1
           l  == NewLine(s)
           s1 == PUSHML(l, many)
           s2 == IF size(node) = 0 THEN EmptyElement(s1, node.kind)
                                   ELSE Write(s1, Open(node.kind))
           t  == INC_INDENT(s2)
<1>1. IsRun(l) /\ Calm(s, l) /\ l.ok /\ SameStacks(s.st, l.st)
  BY OtherWrites DEF WroteOn, Wrote
<1> HIDE DEF l
<1>2. many \in BOOLEAN
  OBVIOUS
<1> HIDE DEF many
<1>3. /\ IsRun(s1) /\ Calm(l, s1) /\ s1.st.multiline_stack = Push(l.st.multiline_stack, many)
      /\ s1.st.indent = l.st.indent /\ s1.st.pretty = l.st.pretty
  BY <1>1, <1>2, Stacked
<1> HIDE DEF s1
<1>4. IsRun(s2) /\ Calm(s1, s2) /\ SameStacks(s1.st, s2.st)
  BY <1>3, EmptyElementOn, WriteOn DEF WroteOn, Wrote
<1>5. t = AddIndent(s2, 1)
  BY DEF INC_INDENT
<1>6. xml_begin(s, node) = t
  BY DEF xml_begin, t, s2, s1, l, many
<1> HIDE DEF s2, t
<1>7. /\ IsRun(t) /\ Calm(s2, t) /\ (t.ok <=> s2.ok)
      /\ t.st.multiline_stack = s2.st.multiline_stack /\ t.st.pretty = s2.st.pretty
      /\ t.st.indent = s2.st.indent + (IF s2.ok /\ s2.st.pretty THEN 1 ELSE 0)
  BY <1>4, <1>5, Indented
<1>8. t.st.multiline_stack = Push(s.st.multiline_stack, many)
  BY <1>1, <1>3, <1>4, <1>7 DEF SameStacks
<1>9. t.st.pretty = s.st.pretty
      /\ t.st.indent = s.st.indent + (IF t.ok /\ s.st.pretty THEN 1 ELSE 0)
  BY <1>1, <1>3, <1>4, <1>7 DEF SameStacks
<1>10. Calm(s, t)
  BY <1>1, <1>3, <1>4, <1>7, CalmTwice
<1> QED BY <1>2, <1>6, <1>7, <1>8, <1>9, <1>10 DEF Begun

(* The callbacks of the XML serializer that end a container. *)
LEMMA XmlEnds ==
  ASSUME NEW s, IsRun(s), s.ok, NEW node
  PROVE  Ended(s, xml_end(s, node), FALSE)
<1> DEFINE n  == NL(s)
           d  == DEC_INDENT(n)
           i  == INDENT(d)
           w  == IF size(node) > 0 THEN Write(i, Close(node.kind)) ELSE i
           t  == POPML(w)
<1>1. IsRun(n) /\ Calm(s, n) /\ n.ok /\ SameStacks(s.st, n.st)
  BY OtherWrites DEF WroteOn, Wrote
<1> HIDE DEF n
<1>2. d = AddIndent(n, -1)
  BY DEF DEC_INDENT
<1> HIDE DEF d
<1>3. /\ IsRun(d) /\ Calm(n, d) /\ (d.ok <=> n.ok) /\ d.st.multiline_stack = n.st.multiline_stack
      /\ d.st.count_stack = n.st.count_stack /\ d.st.pretty = n.st.pretty
      /\ d.st.indent = n.st.indent + (IF n.ok /\ n.st.pretty THEN -1 ELSE 0)
  BY <1>1, <1>2, Indented
<1>4. WroteOn(d, i)
  BY <1>3, OtherWrites
<1> HIDE DEF i
<1>5. WroteOn(d, w)
  <2>1. IsRun(i)
    BY <1>4 DEF WroteOn, Wrote
  <2>2. WroteOn(i, Write(i, Close(node.kind)))
    BY <2>1, WriteOn
  <2>3. WroteOn(d, Write(i, Close(node.kind)))
    BY <1>4, <2>2, WroteTwice
  <2> QED BY <1>4, <2>3
<1>6. xml_end(s, node) = t
  BY DEF xml_end, t, w, i, d, n
<1> HIDE DEF w
<1>7. IsRun(w) /\ Calm(d, w) /\ w.ok = d.ok /\ SameStacks(d.st, w.st)
  BY <1>5 DEF WroteOn, Wrote
<1>8. w.ok
  BY <1>1, <1>3, <1>7
<1>9. /\ w.st.multiline_stack = s.st.multiline_stack /\ w.st.pretty = s.st.pretty
      /\ w.st.indent = s.st.indent - (IF s.st.pretty THEN 1 ELSE 0)
  <2>1. s.st.indent \in Int
    BY DEF IsRun, IsState
  <2> QED BY <1>1, <1>3, <1>7, <2>1 DEF SameStacks
<1>10. /\ IsRun(t) /\ Calm(w, t) /\ t.st.multiline_stack = Pop(w.st.multiline_stack)
       /\ t.st.indent = w.st.indent /\ t.st.pretty = w.st.pretty
  BY <1>7, <1>8, Stacked
<1> HIDE DEF t
<1>11. Calm(s, t)
  BY <1>1, <1>3, <1>7, <1>10, CalmTwice
<1> QED BY <1>6, <1>9, <1>10, <1>11 DEF Ended

(* The binary serializer only writes, and checks every write. *)
LEMMA BinaryWrites ==
  ASSUME NEW s, IsRun(s), NEW call, NEW node
  PROVE  LET t == binary_callback(s, call, node)
         IN  call \in {"value", "array_begin", "array_value_begin", "array_value_end",
                       "array_end", "map_begin", "map_key_begin", "map_key_end",
                       "map_value_begin", "map_value_end", "map_end"}
             => Wrote(s, t) /\ (t.ok => t.st.lost = s.st.lost)
<1>1. Wrote(s, s)
  BY DEF Wrote, SameStacks, Calm
<1> QED BY <1>1, CheckedWriteOn DEF binary_callback

(* The functions that begin and end a serialization. *)
LEMMA InitsAndDeinits ==
  ASSUME NEW s, IsRun(s), s.ok, fmt \in {"notation", "json", "xml", "binary"}
  PROVE  /\ Wrote(s, init_fn(s))
         /\ fmt = "binary" /\ init_fn(s).ok => init_fn(s).st.lost = s.st.lost
         /\ IsRun(deinit_fn(s)) /\ SameStacks(s.st, deinit_fn(s).st)
         /\ fmt \in {"notation", "json"} => (deinit_fn(s).ok <=> ~TOPML(s.st))
         /\ fmt = "xml" => (deinit_fn(s).ok <=> TOPML(s.st))
         /\ fmt = "binary" => deinit_fn(s) = s
<1>1. Wrote(s, s)
  BY DEF Wrote, SameStacks, Calm
<1>2. \A token : /\ Wrote(s, CheckedWrite(s, token))
                 /\ CheckedWrite(s, token).ok => CheckedWrite(s, token).st.lost = s.st.lost
  BY CheckedWriteOn
<1>3. Wrote(s, xml_init(s))
  <2> DEFINE w == CheckedWrite(s, Signature)
  <2>1. Wrote(s, w) /\ IsRun(w)
    BY <1>2 DEF Wrote
  <2>2. xml_init(s) = Write(w, Open("llsd"))
    BY DEF xml_init
  <2> HIDE DEF w
  <2>3. Wrote(w, Write(w, Open("llsd")))
    BY <2>1, WriteOn DEF WroteOn
  <2> QED BY <2>1, <2>2, <2>3, WroteTwice
<1>4. ASSUME NEW t, IsRun(t)
      PROVE  LET u == [t EXCEPT !.ok = FALSE] IN IsRun(u) /\ ~u.ok /\ u.st = t.st
  <2> DEFINE u == [t EXCEPT !.ok = FALSE]
  <2>1. u \in [ok : {FALSE}, st : {t.st}, fault : {t.fault}] /\ t.fault \in FaultRecords /\ IsState(t.st)
    BY <1>4 DEF IsRun
  <2> HIDE DEF u
  <2>2. IsRun(u) /\ ~u.ok /\ u.st = t.st
    BY <2>1 DEF IsRun
  <2> QED BY <2>2 DEF u
<1>5. /\ IsRun(text_deinit(s)) /\ SameStacks(s.st, text_deinit(s).st)
      /\ text_deinit(s).ok <=> ~TOPML(s.st)
  BY <1>4 DEF text_deinit, SameStacks
<1>6. /\ IsRun(xml_deinit(s)) /\ SameStacks(s.st, xml_deinit(s).st)
      /\ xml_deinit(s).ok <=> TOPML(s.st)
  <2> DEFINE n == NL(s)
             w == Write(n, Close("llsd"))
  <2>1. WroteOn(s, n) /\ IsRun(n)
    BY OtherWrites DEF WroteOn, Wrote
  <2> HIDE DEF n
  <2>2. WroteOn(n, w)
    BY <2>1, WriteOn
  <2>3. WroteOn(s, w)
    BY <2>1, <2>2, WroteTwice
  <2>4. xml_deinit(s) = IF TOPML(s.st) THEN w ELSE [w EXCEPT !.ok = FALSE]
    BY DEF xml_deinit, w, n
  <2> HIDE DEF w
  <2>5. IsRun(w) /\ w.ok /\ SameStacks(s.st, w.st)
    BY <2>3 DEF WroteOn, Wrote
  <2>6. LET u == [w EXCEPT !.ok = FALSE] IN IsRun(u) /\ ~u.ok /\ u.st = w.st
    BY <1>4, <2>5
  <2> QED BY <2>4, <2>5, <2>6
<1>7. CASE fmt = "notation"
  <2>1. init_fn(s) = CheckedWrite(s, Signature) /\ deinit_fn(s) = text_deinit(s)
    BY <1>7 DEF init_fn, deinit_fn, notation_init
  <2> QED BY <1>2, <1>5, <1>7, <2>1
<1>8. CASE fmt = "json"
  <2>1. init_fn(s) = s /\ deinit_fn(s) = text_deinit(s)
    BY <1>8 DEF init_fn, deinit_fn, json_init
  <2> QED BY <1>1, <1>5, <1>8, <2>1
<1>9. CASE fmt = "xml"
  <2>1. init_fn(s) = xml_init(s) /\ deinit_fn(s) = xml_deinit(s)
    BY <1>9 DEF init_fn, deinit_fn
  <2> QED BY <1>3, <1>6, <1>9, <2>1
<1>10. CASE fmt = "binary"
  <2>1. init_fn(s) = CheckedWrite(s, Signature) /\ deinit_fn(s) = s
    BY <1>10 DEF init_fn, deinit_fn, binary_init
  <2>2. SameStacks(s.st, s.st)
    BY DEF SameStacks
  <2> QED BY <1>2, <1>10, <2>1, <2>2
<1> QED BY <1>7, <1>8, <1>9, <1>10

(***************************************************************************)
(* What a callback does to the stacks, whatever the format.  The binary    *)
(* serializer has none.                                                    *)
(***************************************************************************)
Begins == {"array_begin", "map_begin"}
Ends   == {"array_end", "map_end"}
Counts == {"array_value_end", "map_value_end"}
Others == {"value", "array_value_begin", "map_key_begin", "map_key_end",
           "map_value_begin"}

(* The callbacks of all formats but the binary one. *)
LEMMA CallbackFacts ==
  ASSUME NEW s, IsRun(s), s.ok, NEW call, NEW node,
         fmt \in {"notation", "json", "xml"}
  PROVE  /\ call \in Begins => Begun(s, callback(s, call, node), fmt # "xml")
         /\ call \in Ends => Ended(s, callback(s, call, node), fmt # "xml")
         /\ call \in Others => Wrote(s, callback(s, call, node))
         /\ call \in Counts /\ fmt # "xml" => Counted(s, callback(s, call, node))
         /\ call \in Counts /\ fmt = "xml" => Wrote(s, callback(s, call, node))
<1>1. CASE fmt = "xml"
  <2>1. callback(s, call, node) = xml_callback(s, call, node)
    BY <1>1 DEF callback
  <2>2. Wrote(s, s)
    BY DEF Wrote, SameStacks, Calm
  <2>3. CASE call \in Begins
    <3>1. callback(s, call, node) = xml_begin(s, node)
      BY <2>1, <2>3 DEF xml_callback, Begins
    <3> QED BY <1>1, <2>3, <3>1, XmlBegins DEF Begins, Ends, Counts, Others
  <2>4. CASE call \in Ends
    <3>1. callback(s, call, node) = xml_end(s, node)
      BY <2>1, <2>4 DEF xml_callback, Ends
    <3> QED BY <1>1, <2>4, <3>1, XmlEnds DEF Begins, Ends, Counts, Others
  <2>5. CASE call \in Others \union Counts
    <3>1. callback(s, call, node) \in {s, xml_value(s, node), xml_array_value_begin(s),
                                       xml_map_key_begin(s), xml_map_key_end(s)}
      BY <2>1, <2>5 DEF xml_callback, Others, Counts
    <3>2. Wrote(s, callback(s, call, node))
      BY <2>2, <3>1, XmlOthers DEF WroteOn
    <3> QED BY <1>1, <2>5, <3>2 DEF Begins, Ends, Counts, Others
  <2> QED BY <2>3, <2>4, <2>5
<1>2. CASE fmt # "xml"
  <2>1. callback(s, call, node) = text_callback(s, call, node)
    BY <1>2 DEF callback
  <2>3. CASE call \in Begins
    <3>1. callback(s, call, node) \in {text_begin(s, node, "["), text_begin(s, node, "{")}
      BY <2>1, <2>3 DEF text_callback, Begins
    <3>2. Begun(s, callback(s, call, node), TRUE)
      BY <3>1, TextBegins
    <3> QED BY <1>2, <2>3, <3>2 DEF Begins, Ends, Counts, Others
  <2>4. CASE call \in Ends
    <3>1. callback(s, call, node) \in {text_end(s, "]"), text_end(s, "}")}
      BY <2>1, <2>4 DEF text_callback, Ends
    <3>2. Ended(s, callback(s, call, node), TRUE)
      BY <3>1, TextEnds
    <3> QED BY <1>2, <2>4, <3>2 DEF Begins, Ends, Counts, Others
  <2>5. CASE call \in Others
    <3>1. callback(s, call, node) \in {text_value(s, node), text_array_value_begin(s),
             text_map_key_begin(s), text_map_key_end(s), text_map_value_begin(s)}
      BY <2>1, <2>5 DEF text_callback, Others
    <3>2. Wrote(s, callback(s, call, node))
      BY <3>1, TextOthers DEF WroteOn
    <3> QED BY <1>2, <2>5, <3>2 DEF Begins, Ends, Counts, Others
  <2>6. CASE call \in Counts
    <3>1. callback(s, call, node) \in {text_array_value_end(s), text_map_value_end(s)}
      BY <2>1, <2>6 DEF text_callback, Counts
    <3>2. Counted(s, callback(s, call, node))
      BY <3>1, TextOthers
    <3> QED BY <1>2, <2>6, <3>2 DEF Begins, Ends, Counts, Others
  <2> QED BY <2>3, <2>4, <2>5, <2>6
<1> QED BY <1>1, <1>2

(* A call of llsd_serialize for a value of N: it is at one of its steps, or
   behind the last one. *)
CallsOf(N) == {c \in [node : N, at : Nat, failed : BOOLEAN] :
                 c.at \in 1 .. LastStep(c.node) + 1}
StepOf(c) == StepAt(c.node, c.at)

(* The steps of a kid are three, and every second kid of a map is a value. *)
LEMMA ThreeStepsPerKid ==
  ASSUME NEW L \in Nat, NEW at \in 2 .. 3 * L + 1
  PROVE  \E q \in 0 .. L - 1, r \in 0 .. 2 :
           /\ at = 3 * q + r + 2 /\ KidAt(at) = q + 1 /\ (at - 2) % 3 = r
           /\ (at - 2) \div 3 = q
           /\ (at + 1 - 2) \div 3 = IF r = 2 THEN q + 1 ELSE q
           /\ (q + 1) % 2 = 0 => (q + 1) \div 2 = q \div 2 + 1
           /\ (q + 1) % 2 # 0 => (q + 1) \div 2 = q \div 2 /\ (q + 1) % 2 = 1
<1> DEFINE q == (at - 2) \div 3
           r == (at - 2) % 3
<1>1. at - 2 \in Nat /\ at - 2 < 3 * L
  OBVIOUS
<1>2. q \in Nat /\ r \in 0 .. 2 /\ at - 2 = 3 * q + r
  BY <1>1
<1>3. q \in 0 .. L - 1 /\ at = 3 * q + r + 2 /\ KidAt(at) = q + 1
  BY <1>1, <1>2 DEF KidAt
<1>4. (at + 1 - 2) \div 3 = IF r = 2 THEN q + 1 ELSE q
  <2>1. at + 1 - 2 = 3 * q + (r + 1)
    BY <1>2
  <2> HIDE DEF q, r
  <2> QED BY <1>2, <2>1
<1>5. /\ (q + 1) % 2 = 0 => (q + 1) \div 2 = q \div 2 + 1
      /\ (q + 1) % 2 # 0 => (q + 1) \div 2 = q \div 2 /\ (q + 1) % 2 = 1
  <2> HIDE DEF q
  <2> QED BY <1>2
<1>6. (at - 2) % 3 = r /\ (at - 2) \div 3 = q
  OBVIOUS
<1> HIDE DEF q, r
<1> QED BY <1>2, <1>3, <1>4, <1>5, <1>6

(* The steps of a call: one for a leaf; for a container the callback that
   begins it, three for each kid, and the callback that ends it. *)
LEMMA StepFacts ==
  ASSUME NEW N, IsClosed(N), NEW c \in CallsOf(N), c.at <= LastStep(c.node)
  PROVE  /\ StepOf(c) \in Begins \union Ends \union Counts \union Others \union {"llsd_serialize"}
         /\ ~HasKids(c.node) => StepOf(c) = "value" /\ c.at = 1 /\ LastStep(c.node) = 1
         /\ HasKids(c.node) => LastStep(c.node) \in Nat /\ LastStep(c.node) >= 2
                               /\ StepOf(c) # "value"
         /\ StepOf(c) \in Begins <=> HasKids(c.node) /\ c.at = 1
         /\ StepOf(c) \in Ends <=> HasKids(c.node) /\ c.at = LastStep(c.node)
         /\ StepOf(c) = "llsd_serialize" => c.node.kids[KidAt(c.at)] \in N
<1>1. c.node \in N /\ c.at \in Nat /\ c.at >= 1
  BY DEF CallsOf
<1>2. c.node.kids \in Seq(N) /\ c.node.kind \in Kinds
  BY <1>1 DEF IsClosed
<1> DEFINE L == Len(c.node.kids)
<1>3. L \in Nat
  BY <1>2
<1>4. CASE ~HasKids(c.node)
  <2>1. LastStep(c.node) = 1 /\ c.at = 1
    BY <1>1, <1>4 DEF LastStep
  <2>2. StepOf(c) = "value"
    BY <1>4 DEF StepOf, StepAt
  <2> QED BY <1>4, <2>1, <2>2 DEF Begins, Ends, Others, Counts
<1>5. CASE HasKids(c.node)
  <2>1. LastStep(c.node) = 3 * L + 2 /\ 3 * L + 2 \in Nat /\ 3 * L + 2 >= 2
    BY <1>3, <1>5 DEF LastStep
  <2>2. CASE c.at = 1
    <3>1. StepOf(c) \in Begins
      BY <1>5, <2>1, <2>2 DEF StepOf, StepAt, Begins
    <3> QED BY <1>5, <2>1, <2>2, <3>1 DEF Begins, Ends, Others, Counts
  <2>3. CASE c.at = LastStep(c.node)
    <3>1. StepOf(c) \in Ends
      BY <1>5, <2>1, <2>3 DEF StepOf, StepAt, Ends
    <3> QED BY <1>5, <2>1, <2>3, <3>1 DEF Begins, Ends, Others, Counts
  <2>4. CASE c.at # 1 /\ c.at # LastStep(c.node)
    <3>1. c.at \in 2 .. 3 * L + 1
      BY <1>1, <1>3, <2>1, <2>4
    <3>2. PICK q \in 0 .. L - 1, r \in 0 .. 2 :
            /\ KidAt(c.at) = q + 1 /\ (c.at - 2) % 3 = r
            /\ (q + 1) % 2 # 0 => (q + 1) % 2 = 1
      BY ZenonT(60), <1>3, <3>1, ThreeStepsPerKid
    <3>3. StepOf(c) = Around(c.node.kind, q + 1)[r + 1]
      BY <1>5, <2>4, <3>2 DEF StepOf, StepAt
    <3>4. StepOf(c) \in {"array_value_begin", "llsd_serialize", "array_value_end",
             "map_key_begin", "map_key_end", "map_value_begin", "map_value_end"}
      <4>1. Around(c.node.kind, q + 1) \in
              {<<"array_value_begin", "llsd_serialize", "array_value_end">>,
               <<"map_key_begin", "llsd_serialize", "map_key_end">>,
               <<"map_value_begin", "llsd_serialize", "map_value_end">>}
        BY <1>5, <3>2 DEF Around, HasKids
      <4> QED BY <3>3, <4>1
    <3>5. c.node.kids[KidAt(c.at)] \in N
      BY <1>2, <1>3, <3>2
    <3> QED BY <1>5, <2>1, <2>4, <3>4, <3>5 DEF Begins, Ends, Others, Counts
  <2> QED BY <2>2, <2>3, <2>4
<1> QED BY <1>4, <1>5

(* The entries a container's call has completed, which are counted by the
   callback after a value: an element of an array, or every second kid of a map. *)
LEMMA EntriesFacts ==
  ASSUME NEW N, IsClosed(N), NEW c \in CallsOf(N), NEW d \in CallsOf(N),
         d.node = c.node, d.at = c.at + 1, HasKids(c.node), c.at <= LastStep(c.node)
  PROVE  /\ EntriesOf(c) \in Int
         /\ StepOf(c) \in Begins => EntriesOf(d) = 0
         /\ StepOf(c) \in Counts => EntriesOf(d) = EntriesOf(c) + 1
         /\ StepOf(c) \in Others \union {"llsd_serialize"} => EntriesOf(d) = EntriesOf(c)
<1>1. c.node \in N /\ c.at \in Nat /\ c.at >= 1
  BY DEF CallsOf
<1>2. c.node.kids \in Seq(N)
  BY <1>1 DEF IsClosed
<1> DEFINE L == Len(c.node.kids)
<1>3. L \in Nat /\ LastStep(c.node) = 3 * L + 2
  BY <1>2 DEF LastStep
<1>4. EntriesOf(c) \in Int
  BY <1>1 DEF EntriesOf
<1>5. CASE c.at = 1
  <2>1. StepOf(c) \in Begins
    BY <1>5, StepFacts
  <2>2. EntriesOf(d) = 0
    BY <1>5 DEF EntriesOf
  <2> QED BY <1>4, <2>1, <2>2 DEF Begins, Counts, Others
<1>6. CASE c.at = LastStep(c.node)
  <2>1. StepOf(c) \in Ends
    BY <1>6, StepFacts
  <2> QED BY <1>4, <2>1 DEF Begins, Ends, Counts, Others
<1>7. CASE c.at # 1 /\ c.at # LastStep(c.node)
  <2>1. c.at \in 2 .. 3 * L + 1
    BY <1>1, <1>3, <1>7
  <2>2. PICK q \in 0 .. L - 1, r \in 0 .. 2 :
          /\ KidAt(c.at) = q + 1 /\ (c.at - 2) % 3 = r
          /\ (c.at - 2) \div 3 = q
          /\ (c.at + 1 - 2) \div 3 = IF r = 2 THEN q + 1 ELSE q
          /\ (q + 1) % 2 = 0 => (q + 1) \div 2 = q \div 2 + 1
          /\ (q + 1) % 2 # 0 => (q + 1) \div 2 = q \div 2 /\ (q + 1) % 2 = 1
    BY <1>3, <2>1, ThreeStepsPerKid
  <2>3. StepOf(c) = Around(c.node.kind, q + 1)[r + 1]
    BY <1>7, <2>2 DEF StepOf, StepAt
  <2>7. PICK m : m = IF r = 2 THEN q + 1 ELSE q
    OBVIOUS
  <2>8. (c.at - 2) \div 3 = q /\ (d.at - 2) \div 3 = m
    BY <1>1, <2>2, <2>7
  <2>9. /\ EntriesOf(c) = IF c.node.kind = "map" THEN q \div 2 ELSE q
        /\ EntriesOf(d) = IF c.node.kind = "map" THEN m \div 2 ELSE m
    BY ONLY <2>8, d.node = c.node DEF EntriesOf
  <2>4. CASE c.node.kind = "array"
    <3>1. Around(c.node.kind, q + 1) = <<"array_value_begin", "llsd_serialize", "array_value_end">>
      BY <2>4 DEF Around
    <3>2. EntriesOf(c) = q /\ EntriesOf(d) = IF r = 2 THEN q + 1 ELSE q
      BY <2>4, <2>7, <2>9
    <3>3. StepOf(c) \in Counts <=> r = 2
      BY <2>2, <2>3, <3>1 DEF Counts
    <3>4. StepOf(c) \notin Begins
      BY <2>3, <3>1 DEF Begins
    <3>5. r # 2 => StepOf(c) \notin Counts
      BY <3>3
    <3>6. r = 2 => StepOf(c) \notin Others \union {"llsd_serialize"}
      BY <2>3, <3>1 DEF Others
    <3> QED BY <1>4, <2>2, <3>2, <3>3, <3>4, <3>6
  <2>5. CASE c.node.kind = "map" /\ (q + 1) % 2 = 1
    <3>1. Around(c.node.kind, q + 1) = <<"map_key_begin", "llsd_serialize", "map_key_end">>
      BY <2>5 DEF Around
    <3>2. EntriesOf(c) = q \div 2 /\ EntriesOf(d) = q \div 2
      BY <2>2, <2>5, <2>7, <2>9
    <3>3. StepOf(c) \notin Counts /\ StepOf(c) \notin Begins
      BY <2>2, <2>3, <3>1 DEF Counts, Begins
    <3> QED BY <1>4, <3>2, <3>3
  <2>6. CASE c.node.kind = "map" /\ (q + 1) % 2 = 0
    <3>1. Around(c.node.kind, q + 1) = <<"map_value_begin", "llsd_serialize", "map_value_end">>
      BY <2>6 DEF Around
    <3>2. EntriesOf(c) = q \div 2 /\ EntriesOf(d) = IF r = 2 THEN q \div 2 + 1 ELSE q \div 2
      BY <2>2, <2>6, <2>7, <2>9
    <3>3. StepOf(c) \in Counts <=> r = 2
      BY <2>2, <2>3, <3>1 DEF Counts
    <3>4. StepOf(c) \notin Begins
      BY <2>2, <2>3, <3>1 DEF Begins
    <3>6. r = 2 => StepOf(c) \notin Others \union {"llsd_serialize"}
      BY <2>3, <3>1 DEF Others
    <3> QED BY <1>4, <2>2, <3>2, <3>3, <3>4, <3>6
  <2> QED BY <2>2, <2>4, <2>5, <2>6 DEF HasKids
<1> QED BY <1>5, <1>6, <1>7

(***************************************************************************)
(* The calls in progress.  One below another waits for a kid's call, or    *)
(* has failed and waits for its second attempt; the calls whose container  *)
(* has begun, and that have not failed, are the live ones.                 *)
(***************************************************************************)
InProgress(N, cs) ==
  /\ cs \in Seq(CallsOf(N)) /\ Len(cs) > 0
  /\ \A i \in 1 .. Len(cs) - 1 :
       cs[i].failed \/ (cs[i].at <= LastStep(cs[i].node) /\ StepOf(cs[i]) = "llsd_serialize")
AnyFailed(cs) == \E i \in 1 .. Len(cs) : cs[i].failed
Live(cs) == {i \in 1 .. Len(cs) : ~cs[i].failed /\ IsOpen(cs[i])}
MayAdvance(cs) == ~cs[Len(cs)].failed /\ cs[Len(cs)].at <= LastStep(cs[Len(cs)].node)

(* A call for a value, before its first step. *)
LEMMA CallFacts ==
  ASSUME NEW N, IsClosed(N), NEW n \in N
  PROVE  /\ Call(n) \in CallsOf(N) /\ Call(n).node = n /\ ~Call(n).failed /\ ~IsOpen(Call(n))
         /\ LastStep(n) \in Nat /\ LastStep(n) >= 1
<1>1. n.kids \in Seq(N)
  BY DEF IsClosed
<1>2. LastStep(n) \in Nat /\ LastStep(n) >= 1
  <2>1. Len(n.kids) \in Nat
    BY <1>1
  <2> QED BY <2>1 DEF LastStep
<1>3. Call(n) \in [node : N, at : Nat, failed : BOOLEAN]
      /\ Call(n).node = n /\ Call(n).at = 1 /\ Call(n).failed = FALSE
  BY DEF Call
<1> QED BY <1>2, <1>3 DEF CallsOf, IsOpen

(* The fields of a call, and whether its container is open. *)
LEMMA CallFields ==
  ASSUME NEW N, IsClosed(N), NEW c \in CallsOf(N)
  PROVE  /\ c.node \in N /\ c.at \in Nat /\ c.failed \in BOOLEAN
         /\ c.at >= 1 /\ c.at <= LastStep(c.node) + 1 /\ LastStep(c.node) \in Nat
         /\ IsOpen(c) <=> HasKids(c.node) /\ c.at >= 2 /\ c.at <= LastStep(c.node)
<1>1. c.node \in N /\ c.at \in Nat /\ c.failed \in BOOLEAN
      /\ c.at \in 1 .. LastStep(c.node) + 1
  BY DEF CallsOf
<1>2. LastStep(c.node) \in Nat
  BY <1>1, CallFacts
<1> QED BY <1>1, <1>2 DEF IsOpen

(* The innermost call goes on to its next step. *)
LEMMA AdvanceFacts ==
  ASSUME NEW N, IsClosed(N), NEW cs, InProgress(N, cs), MayAdvance(cs),
         NEW ds, ds = Advance(cs), NEW n, n = Len(cs)
  PROVE  /\ InProgress(N, ds) /\ Len(ds) = n /\ (AnyFailed(ds) <=> AnyFailed(cs))
         /\ \A i \in 1 .. n - 1 : ds[i] = cs[i]
         /\ ds[n].node = cs[n].node /\ ds[n].at = cs[n].at + 1
         /\ StepOf(cs[n]) \in Begins =>
              Live(ds) = Live(cs) \union {n} /\ n \notin Live(cs) /\ IsOpen(ds[n])
         /\ StepOf(cs[n]) \in Ends =>
              Live(ds) = Live(cs) \ {n} /\ n \in Live(cs) /\ ~IsOpen(ds[n])
         /\ StepOf(cs[n]) \notin Begins \union Ends =>
              Live(ds) = Live(cs) /\ (IsOpen(ds[n]) <=> IsOpen(cs[n]))
              /\ (IsOpen(cs[n]) <=> HasKids(cs[n].node))
<1> DEFINE c == cs[n]
           d == [c EXCEPT !.at = c.at + 1]
<1>1. cs \in Seq(CallsOf(N)) /\ n \in Nat /\ n > 0 /\ n = Len(cs)
  BY DEF InProgress
<1>2. c \in CallsOf(N) /\ ~c.failed /\ c.at <= LastStep(c.node)
  BY <1>1 DEF MayAdvance
<1>3. ds = [cs EXCEPT ![n] = d]
  BY <1>1 DEF Advance
<1>4. c \in [node : N, at : Nat, failed : BOOLEAN] /\ c.at \in 1 .. LastStep(c.node) + 1
  BY <1>2 DEF CallsOf
<1> HIDE DEF c
<1>5. /\ c.node \in N /\ c.at \in Nat /\ c.failed \in BOOLEAN
      /\ c.at >= 1 /\ c.at <= LastStep(c.node) + 1 /\ LastStep(c.node) \in Nat
      /\ IsOpen(c) <=> HasKids(c.node) /\ c.at >= 2 /\ c.at <= LastStep(c.node)
  BY <1>2, CallFields
<1>6. d \in [node : N, at : Nat, failed : BOOLEAN]
      /\ d.node = c.node /\ d.at = c.at + 1 /\ d.failed = c.failed
  BY <1>4, <1>5
<1> HIDE DEF d
<1>7. d \in CallsOf(N)
  BY <1>2, <1>5, <1>6 DEF CallsOf
<1>8. IsOpen(d) <=> HasKids(c.node) /\ c.at + 1 <= LastStep(c.node)
  BY <1>5, <1>6, <1>7, CallFields
<1>9. /\ ds \in Seq(CallsOf(N)) /\ Len(ds) = n /\ ds[n] = d
      /\ \A i \in 1 .. n - 1 : ds[i] = cs[i]
  BY <1>1, <1>3, <1>7
<1>10. InProgress(N, ds)
  BY <1>1, <1>9 DEF InProgress
<1>11. AnyFailed(ds) <=> AnyFailed(cs)
  <2>1. \A i \in 1 .. n : ds[i].failed = cs[i].failed
    BY <1>1, <1>6, <1>9 DEF c
  <2> QED BY <1>1, <1>9, <2>1 DEF AnyFailed
<1>12. /\ StepOf(c) \in Begins <=> HasKids(c.node) /\ c.at = 1
       /\ StepOf(c) \in Ends <=> HasKids(c.node) /\ c.at = LastStep(c.node)
       /\ HasKids(c.node) => LastStep(c.node) >= 2
  BY <1>2, StepFacts
<1>13. /\ n \in Live(cs) <=> IsOpen(c)
       /\ n \in Live(ds) <=> IsOpen(d)
       /\ \A i : i # n => (i \in Live(ds) <=> i \in Live(cs))
  <2>1. n \in 1 .. Len(cs) /\ n \in 1 .. Len(ds)
    BY <1>1, <1>9
  <2>2. n \in Live(cs) <=> IsOpen(c)
    BY <1>2, <2>1 DEF Live, c
  <2>3. n \in Live(ds) <=> IsOpen(d)
    BY <1>2, <1>6, <1>9, <2>1 DEF Live
  <2>4. \A i \in 1 .. Len(cs) : i # n => i \in 1 .. n - 1
    BY <1>1
  <2> QED BY <1>1, <1>9, <2>2, <2>3, <2>4 DEF Live
<1>14. CASE StepOf(c) \in Begins
  <2>1. IsOpen(d) /\ ~IsOpen(c) /\ StepOf(c) \notin Ends
    BY <1>5, <1>8, <1>12, <1>14
  <2>2. Live(ds) = Live(cs) \union {n} /\ n \notin Live(cs)
    BY <1>13, <2>1
  <2> QED BY <1>6, <1>9, <1>10, <1>11, <1>14, <2>1, <2>2 DEF c
<1>15. CASE StepOf(c) \in Ends
  <2>1. ~IsOpen(d) /\ IsOpen(c) /\ StepOf(c) \notin Begins
    BY <1>5, <1>8, <1>12, <1>15
  <2>2. Live(ds) = Live(cs) \ {n} /\ n \in Live(cs)
    BY <1>13, <2>1
  <2> QED BY <1>6, <1>9, <1>10, <1>11, <1>15, <2>1, <2>2 DEF c
<1>16. CASE StepOf(c) \notin Begins \union Ends
  <2>1. (IsOpen(d) <=> HasKids(c.node)) /\ (IsOpen(c) <=> HasKids(c.node))
    BY <1>2, <1>5, <1>8, <1>12, <1>16
  <2>3. \A i : i \in Live(ds) <=> i \in Live(cs)
    BY <1>13, <2>1
  <2>2. Live(ds) = Live(cs)
    BY ONLY <2>3
  <2> QED BY <1>6, <1>9, <1>10, <1>11, <1>16, <2>1, <2>2 DEF c
<1> QED BY <1>14, <1>15, <1>16

(* The innermost call fails: it starts over in a call of its own. *)
LEMMA FailFacts ==
  ASSUME NEW N, IsClosed(N), NEW cs, InProgress(N, cs), NEW ds, ds = Fail(cs), NEW n, n = Len(cs)
  PROVE  /\ InProgress(N, ds) /\ AnyFailed(ds) /\ Live(ds) = Live(cs) \ {n}
<1> DEFINE c == cs[n]
           f == [c EXCEPT !.failed = TRUE]
           e == [cs EXCEPT ![n] = f]
<1>1. cs \in Seq(CallsOf(N)) /\ n \in Nat /\ n > 0 /\ n = Len(cs)
  BY DEF InProgress
<1>2. c \in CallsOf(N)
  BY <1>1
<1>3. ds = Push(e, Call(c.node))
  BY <1>1 DEF Fail
<1> HIDE DEF c
<1>4. c \in [node : N, at : Nat, failed : BOOLEAN] /\ c.at \in 1 .. LastStep(c.node) + 1
  BY <1>2 DEF CallsOf
<1>5. f \in CallsOf(N) /\ f.failed = TRUE
  BY <1>4 DEF CallsOf
<1> HIDE DEF f
<1>6. /\ e \in Seq(CallsOf(N)) /\ Len(e) = n /\ e[n] = f
      /\ \A i \in 1 .. n - 1 : e[i] = cs[i]
  BY <1>1, <1>5
<1>7. Call(c.node) \in CallsOf(N) /\ ~IsOpen(Call(c.node))
  BY <1>4, CallFacts
<1> HIDE DEF e
<1>8. /\ ds \in Seq(CallsOf(N)) /\ Len(ds) = n + 1 /\ ds[n + 1] = Call(c.node)
      /\ \A i \in 1 .. n : ds[i] = e[i]
  <2>1. PICK x \in CallsOf(N) : x = Call(c.node)
    BY <1>7
  <2>2. ds = Append(e, x)
    BY <1>3, <2>1 DEF Push
  <2>3. PICK S : S = CallsOf(N)
    OBVIOUS
  <2>4. e \in Seq(S) /\ x \in S
    BY <1>6, <2>1, <2>3
  <2>5. /\ ds \in Seq(S) /\ Len(ds) = Len(e) + 1 /\ ds[Len(e) + 1] = x
        /\ \A i \in 1 .. Len(e) : ds[i] = e[i]
    BY ONLY <2>2, <2>4
  <2> QED BY <1>6, <2>1, <2>3, <2>5
<1>9. ds[n] = f /\ \A i \in 1 .. n - 1 : ds[i] = cs[i]
  BY <1>1, <1>6, <1>8
<1>10. InProgress(N, ds)
  <2>1. ASSUME NEW i \in 1 .. Len(ds) - 1
        PROVE  ds[i].failed \/ (ds[i].at <= LastStep(ds[i].node) /\ StepOf(ds[i]) = "llsd_serialize")
    <3>1. CASE i = n
      BY <1>5, <1>9, <3>1
    <3>2. CASE i # n
      <4>1. i \in 1 .. n - 1 /\ i \in 1 .. Len(cs) - 1
        BY <1>1, <1>8, <3>2
      <4>2. cs[i].failed \/ (cs[i].at <= LastStep(cs[i].node) /\ StepOf(cs[i]) = "llsd_serialize")
        BY <4>1 DEF InProgress
      <4> QED BY <1>9, <4>1, <4>2
    <3> QED BY <3>1, <3>2
  <2> QED BY <1>1, <1>8, <2>1 DEF InProgress
<1>11. AnyFailed(ds)
  <2>1. n \in 1 .. Len(ds) /\ ds[n].failed
    BY <1>1, <1>5, <1>8, <1>9
  <2> QED BY <2>1 DEF AnyFailed
<1>12. Live(ds) = Live(cs) \ {n}
  <2>1. n \notin Live(ds) /\ n + 1 \notin Live(ds)
    BY <1>5, <1>7, <1>8, <1>9 DEF Live
  <2>2. ASSUME NEW i \in 1 .. n - 1 PROVE i \in Live(ds) <=> i \in Live(cs)
    <3>1. i \in 1 .. Len(ds) /\ i \in 1 .. Len(cs)
      BY <1>1, <1>8
    <3> QED BY <1>9, <3>1 DEF Live
  <2>3. \A i \in 1 .. n + 1 : i = n \/ i = n + 1 \/ i \in 1 .. n - 1
    BY <1>1
  <2>4. Live(ds) \subseteq 1 .. n + 1 /\ Live(cs) \subseteq 1 .. n
    BY <1>1, <1>8 DEF Live
  <2>5. \A i \in 1 .. n : i \in 1 .. n + 1 /\ i # n + 1
    BY SMTT(30), <1>1
  <2> QED BY <2>1, <2>2, <2>3, <2>4, <2>5
<1> QED BY <1>10, <1>11, <1>12

(* The innermost call calls itself for a kid. *)
LEMMA DescendFacts ==
  ASSUME NEW N, IsClosed(N), NEW cs, InProgress(N, cs), MayAdvance(cs),
         NEW n, n = Len(cs), StepOf(cs[n]) = "llsd_serialize",
         NEW ds, ds = Push(cs, Call(cs[n].node.kids[KidAt(cs[n].at)]))
  PROVE  /\ InProgress(N, ds) /\ (AnyFailed(ds) <=> AnyFailed(cs)) /\ Live(ds) = Live(cs)
         /\ Len(ds) = n + 1 /\ ~IsOpen(ds[n + 1]) /\ \A i \in 1 .. n : ds[i] = cs[i]
         /\ IsOpen(cs[n])
<1>1. cs \in Seq(CallsOf(N)) /\ n \in Nat /\ n > 0 /\ n = Len(cs)
  BY DEF InProgress
<1>2. cs[n] \in CallsOf(N) /\ ~cs[n].failed /\ cs[n].at <= LastStep(cs[n].node)
  BY <1>1 DEF MayAdvance
<1>3. cs[n].node.kids[KidAt(cs[n].at)] \in N
  BY <1>2, StepFacts
<1>4. PICK x \in CallsOf(N) : x = Call(cs[n].node.kids[KidAt(cs[n].at)]) /\ ~x.failed /\ ~IsOpen(x)
  BY <1>3, CallFacts
<1>5. ds = Append(cs, x)
  BY SMTT(30), <1>4 DEF Push
<1>6. /\ ds \in Seq(CallsOf(N)) /\ Len(ds) = n + 1 /\ ds[n + 1] = x
      /\ \A i \in 1 .. n : ds[i] = cs[i]
  <2>1. PICK S : S = CallsOf(N)
    OBVIOUS
  <2>2. cs \in Seq(S) /\ x \in S /\ n = Len(cs)
    BY <1>1, <2>1
  <2>3. /\ ds \in Seq(S) /\ Len(ds) = Len(cs) + 1 /\ ds[Len(cs) + 1] = x
        /\ \A i \in 1 .. Len(cs) : ds[i] = cs[i]
    BY ONLY <1>5, <2>2
  <2> QED BY <1>1, <2>1, <2>3
<1>7. InProgress(N, ds)
  <2>1. ASSUME NEW i \in 1 .. Len(ds) - 1
        PROVE  ds[i].failed \/ (ds[i].at <= LastStep(ds[i].node) /\ StepOf(ds[i]) = "llsd_serialize")
    <3>1. CASE i = n
      <4>1. n \in 1 .. n
        BY SMTT(30), <1>1
      <4>2. ds[n] = cs[n]
        BY SMTT(30), <1>6, <4>1
      <4> QED BY <1>2, <3>1, <4>2
    <3>2. CASE i # n
      <4>1. i \in 1 .. Len(cs) - 1 /\ i \in 1 .. n
        BY <1>1, <1>6, <3>2
      <4>2. cs[i].failed \/ (cs[i].at <= LastStep(cs[i].node) /\ StepOf(cs[i]) = "llsd_serialize")
        BY SMTT(30), <4>1 DEF InProgress
      <4> QED BY <1>6, <4>1, <4>2
    <3> QED BY <3>1, <3>2
  <2>2. Len(ds) > 0
    BY <1>1, <1>6
  <2> QED BY ONLY SMTT(30), <1>6, <2>1, <2>2 DEF InProgress
<1>8. \A i \in 1 .. n + 1 : i = n + 1 \/ i \in 1 .. n
  BY <1>1
<1>9. \A i \in 1 .. n : i \in 1 .. n + 1
  BY SMTT(30), <1>1
<1>10. AnyFailed(ds) <=> AnyFailed(cs)
  BY ZenonT(60), <1>1, <1>4, <1>6, <1>8, <1>9 DEF AnyFailed
<1>11. Live(ds) = Live(cs)
  BY <1>1, <1>4, <1>6, <1>8, <1>9 DEF Live
<1>12. IsOpen(cs[n])
  <2>1. "llsd_serialize" \notin Begins \union Ends
    BY DEF Begins, Ends
  <2>2. HasKids(cs[n].node)
    <3>1. ~HasKids(cs[n].node) => StepOf(cs[n]) = "value"
      BY <1>2, StepFacts
    <3> QED BY <3>1
  <2> DEFINE es == Advance(cs)
  <2>3. IsOpen(cs[n]) <=> HasKids(cs[n].node)
    BY <2>1, AdvanceFacts
  <2> QED BY <2>2, <2>3
<1> QED BY <1>4, <1>6, <1>7, <1>10, <1>11, <1>12

(* The innermost of several calls returns. *)
LEMMA PopCallFacts ==
  ASSUME NEW N, IsClosed(N), NEW cs, InProgress(N, cs), NEW n, n = Len(cs), n > 1,
         NEW ds, ds = Pop(cs)
  PROVE  /\ InProgress(N, ds) /\ Len(ds) = n - 1 /\ Live(ds) = Live(cs) \ {n}
         /\ \A i \in 1 .. n - 1 : ds[i] = cs[i]
         /\ cs[n - 1].failed \/ (MayAdvance(ds) /\ StepOf(ds[n - 1]) = "llsd_serialize")
<1>1. cs \in Seq(CallsOf(N)) /\ n \in Nat /\ n = Len(cs) /\ Len(cs) > 0
  BY DEF InProgress
<1>2. ds \in Seq(CallsOf(N)) /\ Len(ds) = n - 1 /\ \A i \in 1 .. n - 1 : ds[i] = cs[i]
  BY <1>1, PopFacts
<1>3. \A i \in 1 .. n - 1 :
        cs[i].failed \/ (cs[i].at <= LastStep(cs[i].node) /\ StepOf(cs[i]) = "llsd_serialize")
  BY <1>1 DEF InProgress
<1>4. InProgress(N, ds)
  <2>1. \A i \in 1 .. Len(ds) - 1 : i \in 1 .. n - 1
    BY <1>1, <1>2
  <2> QED BY <1>1, <1>2, <1>3, <2>1 DEF InProgress
<1>5. Live(ds) = Live(cs) \ {n}
  <2>1. \A i : i \in 1 .. n - 1 <=> i \in 1 .. n /\ i # n
    BY <1>1
  <2> QED BY <1>1, <1>2, <2>1 DEF Live
<1>6. cs[n - 1].failed \/ (MayAdvance(ds) /\ StepOf(ds[n - 1]) = "llsd_serialize")
  <2>1. n - 1 \in 1 .. n - 1
    BY <1>1
  <2>2. cs[n - 1].failed \/ (cs[n - 1].at <= LastStep(cs[n - 1].node)
                             /\ StepOf(cs[n - 1]) = "llsd_serialize")
    BY <1>3, <2>1
  <2>3. ds[n - 1] = cs[n - 1] /\ Len(ds) = n - 1
    BY <1>2, <2>1
  <2>4. ds[n - 1] \in CallsOf(N)
    BY <1>2, <2>1
  <2>5. ds[n - 1].failed \in BOOLEAN
    BY <2>4 DEF CallsOf
  <2> QED BY <2>2, <2>3, <2>5 DEF MayAdvance
<1> QED BY <1>2, <1>4, <1>5, <1>6

(* The live calls are finitely many. *)
LEMMA LiveFinite ==
  ASSUME NEW N, NEW cs, InProgress(N, cs)
  PROVE  IsFiniteSet(Live(cs)) /\ Cardinality(Live(cs)) \in Nat
<1>1. Len(cs) \in Nat
  BY DEF InProgress
<1>2. IsFiniteSet(1 .. Len(cs))
  <2>1. 1 \in Int /\ Len(cs) \in Int
    BY <1>1
  <2> QED BY <2>1, FS_Interval
<1>3. Live(cs) \in SUBSET (1 .. Len(cs))
  BY DEF Live
<1>4. IsFiniteSet(Live(cs))
  BY <1>2, <1>3, FS_Subset
<1> QED BY <1>4, FS_CardinalityType

(***************************************************************************)
(* How the serializer's state x follows the calls cs.  Until something has *)
(* failed the stacks mirror the open containers, above the frame that the  *)
(* multiline stack is set up with.  Whatever has failed, the indentation   *)
(* is at least the number of live calls, so that no DEC_INDENT goes below  *)
(* zero.                                                                   *)
(***************************************************************************)
Depth(cs) == IF IsOpen(cs[Len(cs)]) THEN Len(cs) ELSE Len(cs) - 1
Mirror(cs, x) ==
  /\ Len(x.multiline_stack) = Depth(cs) + 1
  /\ x.multiline_stack[1] = (fmt = "xml")
  /\ x.pretty => x.indent = Depth(cs) + (IF fmt = "xml" THEN 1 ELSE 0)
  /\ fmt # "xml" =>
       /\ Len(x.count_stack) = Depth(cs)
       /\ \A i \in 1 .. Depth(cs) : x.count_stack[i] = EntriesOf(cs[i])
Indents(cs, x) ==
  /\ x.indent \in Nat
  /\ fmt # "binary" /\ x.pretty => x.indent >= Cardinality(Live(cs))

(* The stacks of a state. *)
LEMMA StateFields ==
  ASSUME NEW x, IsState(x)
  PROVE  /\ x.count_stack \in Seq(Nat) /\ x.multiline_stack \in Seq(BOOLEAN)
         /\ x.indent \in Int /\ x.pretty \in BOOLEAN /\ x.lost \in BOOLEAN
  BY DEF IsState

(* The mirror where a container begins. *)
LEMMA MirrorBegins ==
  ASSUME NEW cs, NEW ds, NEW s, NEW t, IsRun(s), Begun(s, t, fmt # "xml"), t.ok,
         Mirror(cs, s.st), NEW n \in Nat, n > 0, Len(cs) = n, Len(ds) = n,
         ~IsOpen(cs[n]), IsOpen(ds[n]), EntriesOf(ds[n]) = 0,
         \A i \in 1 .. n - 1 : ds[i] = cs[i]
  PROVE  Mirror(ds, t.st)
<1>1. s.st.count_stack \in Seq(Nat) /\ s.st.multiline_stack \in Seq(BOOLEAN)
      /\ s.st.indent \in Int /\ s.st.pretty \in BOOLEAN
  BY StateFields DEF IsRun
<1>2. Depth(cs) = n - 1 /\ Depth(ds) = n /\ n - 1 \in Nat
  BY DEF Depth
<1>3. PICK x \in BOOLEAN : t.st.multiline_stack = Push(s.st.multiline_stack, x)
  BY DEF Begun
<1>4. /\ Len(s.st.multiline_stack) = n /\ s.st.multiline_stack[1] = (fmt = "xml")
      /\ s.st.pretty => s.st.indent = n - 1 + (IF fmt = "xml" THEN 1 ELSE 0)
      /\ fmt # "xml" =>
           /\ Len(s.st.count_stack) = n - 1
           /\ \A i \in 1 .. n - 1 : s.st.count_stack[i] = EntriesOf(cs[i])
  BY <1>2 DEF Mirror
<1>5. /\ Len(t.st.multiline_stack) = Len(s.st.multiline_stack) + 1
      /\ \A i \in 1 .. Len(s.st.multiline_stack) : t.st.multiline_stack[i] = s.st.multiline_stack[i]
  BY <1>1, <1>3 DEF Push
<1>6. Len(t.st.multiline_stack) = Depth(ds) + 1 /\ t.st.multiline_stack[1] = (fmt = "xml")
  <2>1. 1 \in 1 .. n
    OBVIOUS
  <2> QED BY <1>2, <1>4, <1>5, <2>1
<1>7. t.st.pretty => t.st.indent = Depth(ds) + (IF fmt = "xml" THEN 1 ELSE 0)
  BY <1>1, <1>2, <1>4 DEF Begun
<1>8. ASSUME fmt # "xml"
      PROVE  /\ Len(t.st.count_stack) = Depth(ds)
             /\ \A i \in 1 .. Depth(ds) : t.st.count_stack[i] = EntriesOf(ds[i])
  <2>1. t.st.count_stack = Append(s.st.count_stack, 0)
    BY <1>8 DEF Begun, Push
  <2>2. /\ Len(t.st.count_stack) = Len(s.st.count_stack) + 1
        /\ t.st.count_stack[Len(s.st.count_stack) + 1] = 0
        /\ \A i \in 1 .. Len(s.st.count_stack) : t.st.count_stack[i] = s.st.count_stack[i]
    BY <1>1, <2>1
  <2>3. Len(t.st.count_stack) = n /\ t.st.count_stack[n] = EntriesOf(ds[n])
        /\ \A i \in 1 .. n - 1 : t.st.count_stack[i] = EntriesOf(ds[i])
    BY SMTT(30), <1>4, <1>8, <2>2
  <2>4. \A i \in 1 .. n : i = n \/ i \in 1 .. n - 1
    OBVIOUS
  <2> QED BY <1>2, <2>3, <2>4
<1> QED BY <1>6, <1>7, <1>8 DEF Mirror

(* The mirror where a container ends. *)
LEMMA MirrorEnds ==
  ASSUME NEW cs, NEW ds, NEW s, NEW t, IsRun(s), Ended(s, t, fmt # "xml"), t.ok,
         Mirror(cs, s.st), NEW n \in Nat, n > 0, Len(cs) = n, Len(ds) = n,
         IsOpen(cs[n]), ~IsOpen(ds[n]), \A i \in 1 .. n - 1 : ds[i] = cs[i]
  PROVE  Mirror(ds, t.st)
<1>1. s.st.count_stack \in Seq(Nat) /\ s.st.multiline_stack \in Seq(BOOLEAN)
      /\ s.st.indent \in Int /\ s.st.pretty \in BOOLEAN
  BY StateFields DEF IsRun
<1>2. Depth(cs) = n /\ Depth(ds) = n - 1 /\ n - 1 \in Nat
  BY DEF Depth
<1>4. /\ Len(s.st.multiline_stack) = n + 1 /\ s.st.multiline_stack[1] = (fmt = "xml")
      /\ s.st.pretty => s.st.indent = n + (IF fmt = "xml" THEN 1 ELSE 0)
      /\ fmt # "xml" =>
           /\ Len(s.st.count_stack) = n
           /\ \A i \in 1 .. n : s.st.count_stack[i] = EntriesOf(cs[i])
  BY <1>2 DEF Mirror
<1>5. /\ Len(t.st.multiline_stack) = n
      /\ \A i \in 1 .. n : t.st.multiline_stack[i] = s.st.multiline_stack[i]
  <2>1. t.st.multiline_stack = Pop(s.st.multiline_stack)
    BY DEF Ended
  <2>2. Len(s.st.multiline_stack) > 0 /\ Len(s.st.multiline_stack) - 1 = n
    BY <1>4
  <2>3. PICK q \in Seq(BOOLEAN) : q = s.st.multiline_stack
    BY <1>1
  <2>4. Len(q) > 0
    BY <2>2, <2>3
  <2>5. Len(Pop(q)) = Len(q) - 1 /\ \A i \in 1 .. Len(q) - 1 : Pop(q)[i] = q[i]
    BY ONLY q \in Seq(BOOLEAN), <2>4, PopFacts
  <2> QED BY <2>1, <2>2, <2>3, <2>5
<1>6. Len(t.st.multiline_stack) = Depth(ds) + 1 /\ t.st.multiline_stack[1] = (fmt = "xml")
  <2>1. 1 \in 1 .. n
    OBVIOUS
  <2> QED BY <1>2, <1>4, <1>5, <2>1
<1>7. t.st.pretty => t.st.indent = Depth(ds) + (IF fmt = "xml" THEN 1 ELSE 0)
  BY <1>1, <1>2, <1>4 DEF Ended
<1>8. ASSUME fmt # "xml"
      PROVE  /\ Len(t.st.count_stack) = Depth(ds)
             /\ \A i \in 1 .. Depth(ds) : t.st.count_stack[i] = EntriesOf(ds[i])
  <2>1. t.st.count_stack = Pop(s.st.count_stack)
    BY <1>8 DEF Ended
  <2>2. Len(s.st.count_stack) > 0 /\ Len(s.st.count_stack) - 1 = n - 1
    BY <1>4, <1>8
  <2>3. /\ Len(t.st.count_stack) = n - 1
        /\ \A i \in 1 .. n - 1 : t.st.count_stack[i] = s.st.count_stack[i]
    <3>1. PICK q \in Seq(Nat) : q = s.st.count_stack
      BY <1>1
    <3>2. Len(q) > 0
      BY <2>2, <3>1
    <3>3. Len(Pop(q)) = Len(q) - 1 /\ \A i \in 1 .. Len(q) - 1 : Pop(q)[i] = q[i]
      BY ONLY q \in Seq(Nat), <3>2, PopFacts
    <3> QED BY <2>1, <2>2, <3>1, <3>3
  <2>4. \A i \in 1 .. n - 1 : i \in 1 .. n
    OBVIOUS
  <2> QED BY <1>2, <1>4, <1>8, <2>3, <2>4
<1> QED BY <1>6, <1>7, <1>8 DEF Mirror

(* The mirror after a callback that leaves the stacks alone. *)
LEMMA MirrorKeeps ==
  ASSUME NEW cs, NEW ds, NEW x, NEW y, SameStacks(x, y),
         Mirror(cs, x), NEW n \in Nat, n > 0, Len(cs) = n, Len(ds) = n,
         IsOpen(ds[n]) <=> IsOpen(cs[n]), IsOpen(cs[n]) => EntriesOf(ds[n]) = EntriesOf(cs[n]),
         \A i \in 1 .. n - 1 : ds[i] = cs[i]
  PROVE  Mirror(ds, y)
<1>1. Depth(ds) = Depth(cs)
  BY DEF Depth
<1>2. \A i \in 1 .. Depth(cs) : EntriesOf(ds[i]) = EntriesOf(cs[i])
  <2>1. CASE IsOpen(cs[n])
    <3>1. \A i \in 1 .. n : i = n \/ i \in 1 .. n - 1
      OBVIOUS
    <3> QED BY <2>1, <3>1 DEF Depth
  <2>2. CASE ~IsOpen(cs[n])
    BY <2>2 DEF Depth
  <2> QED BY <2>1, <2>2
<1> QED BY <1>1, <1>2 DEF Mirror, SameStacks

(* The mirror after a value that is counted. *)
LEMMA MirrorCounts ==
  ASSUME NEW cs, NEW ds, NEW s, NEW t, IsRun(s), Counted(s, t), fmt # "xml",
         Mirror(cs, s.st), NEW n \in Nat, n > 0, Len(cs) = n, Len(ds) = n,
         IsOpen(cs[n]), IsOpen(ds[n]), EntriesOf(ds[n]) = EntriesOf(cs[n]) + 1,
         \A i \in 1 .. n - 1 : ds[i] = cs[i]
  PROVE  Mirror(ds, t.st)
<1>1. s.st.count_stack \in Seq(Nat)
  BY StateFields DEF IsRun
<1>2. Depth(cs) = n /\ Depth(ds) = n
  BY DEF Depth
<1>3. Len(s.st.count_stack) = n /\ \A i \in 1 .. n : s.st.count_stack[i] = EntriesOf(cs[i])
  BY <1>2 DEF Mirror
<1>4. TopObj(s.st.count_stack) = EntriesOf(cs[n])
  <2>1. n \in 1 .. n /\ s.st.count_stack # << >>
    BY <1>1, <1>3
  <2> QED BY <1>3, <2>1 DEF TopObj
<1>5. t.st.count_stack = Replace(s.st.count_stack, EntriesOf(ds[n]))
  BY <1>4 DEF Counted
<1>6. EntriesOf(ds[n]) \in Nat
  <2>1. s.st.count_stack[n] \in Nat /\ s.st.count_stack[n] = EntriesOf(cs[n])
    BY <1>1, <1>3
  <2> QED BY <2>1
<1>7. /\ Len(t.st.count_stack) = n /\ t.st.count_stack[n] = EntriesOf(ds[n])
      /\ \A i \in 1 .. n - 1 : t.st.count_stack[i] = s.st.count_stack[i]
  <2>1. PICK e \in Nat : e = EntriesOf(ds[n])
    BY <1>6
  <2>2. Len(s.st.count_stack) > 0
    BY <1>3
  <2>3. PICK q \in Seq(Nat) : q = s.st.count_stack
    BY <1>1
  <2>4. Len(q) > 0
    BY <2>2, <2>3
  <2>5. /\ Len(Replace(q, e)) = Len(q) /\ Replace(q, e)[Len(q)] = e
        /\ \A i \in 1 .. Len(q) - 1 : Replace(q, e)[i] = q[i]
    BY ONLY q \in Seq(Nat), e \in Nat, <2>4 DEF Replace
  <2> QED BY <1>3, <1>5, <2>1, <2>3, <2>5
<1>8. \A i \in 1 .. n : i = n \/ i \in 1 .. n - 1
  OBVIOUS
<1>9. \A i \in 1 .. n : t.st.count_stack[i] = EntriesOf(ds[i])
  <2>1. \A i \in 1 .. n - 1 : i \in 1 .. n
    OBVIOUS
  <2> QED BY <1>3, <1>7, <1>8, <2>1
<1> QED BY <1>2, <1>7, <1>9 DEF Mirror, Counted

(* A callback that succeeds keeps the mirror, and one that fails, whatever it
   has done to the stacks, the bound on the indentation. *)
LEMMA CallbackKeeps ==
  ASSUME NEW N, IsClosed(N), NEW cs, InProgress(N, cs), MayAdvance(cs),
         NEW n, n = Len(cs), StepOf(cs[n]) # "llsd_serialize",
         fmt \in {"notation", "json", "xml"}, NEW s, IsRun(s), s.ok,
         NEW t, t = callback(s, StepOf(cs[n]), cs[n].node),
         NEW ds, ds = IF t.ok THEN Advance(cs) ELSE Fail(cs)
  PROVE  /\ IsRun(t)
         /\ Mirror(cs, s.st) /\ t.ok => Mirror(ds, t.st)
         /\ Indents(cs, s.st) => Indents(ds, t.st)
<1> DEFINE c == cs[n]
           as == Advance(cs)
<1>0. cs \in Seq(CallsOf(N)) /\ n \in Nat /\ n > 0 /\ n = Len(cs)
  BY DEF InProgress
<1>1. c \in CallsOf(N) /\ ~c.failed /\ c.at <= LastStep(c.node)
  BY <1>0 DEF MayAdvance
<1>2. StepOf(c) \in Begins \union Ends \union Counts \union Others
  BY <1>1, StepFacts
<1>3. /\ StepOf(c) \in Begins => Begun(s, t, fmt # "xml")
      /\ StepOf(c) \in Ends => Ended(s, t, fmt # "xml")
      /\ StepOf(c) \in Others => Wrote(s, t)
      /\ StepOf(c) \in Counts /\ fmt # "xml" => Counted(s, t)
      /\ StepOf(c) \in Counts /\ fmt = "xml" => Wrote(s, t)
  BY CallbackFacts
<1>4. IsRun(t)
  BY <1>2, <1>3 DEF Begun, Ended, Counted, Wrote
<1>5. /\ InProgress(N, as) /\ Len(as) = n
      /\ \A i \in 1 .. n - 1 : as[i] = cs[i]
      /\ as[n].node = cs[n].node /\ as[n].at = cs[n].at + 1
      /\ StepOf(c) \in Begins => Live(as) = Live(cs) \union {n} /\ n \notin Live(cs) /\ IsOpen(as[n])
      /\ StepOf(c) \in Ends => Live(as) = Live(cs) \ {n} /\ n \in Live(cs) /\ ~IsOpen(as[n])
      /\ StepOf(c) \notin Begins \union Ends =>
           Live(as) = Live(cs) /\ (IsOpen(as[n]) <=> IsOpen(cs[n])) /\ (IsOpen(cs[n]) <=> HasKids(c.node))
  BY AdvanceFacts
<1>6. as[n] \in CallsOf(N) /\ as[n].node = c.node /\ as[n].at = c.at + 1
  BY <1>0, <1>5 DEF InProgress
<1>7. n \in Live(cs) <=> IsOpen(c)
  BY <1>0, <1>1 DEF Live
<1> HIDE DEF as
<1>8. /\ HasKids(c.node) /\ StepOf(c) \in Begins => EntriesOf(as[n]) = 0
      /\ HasKids(c.node) /\ StepOf(c) \in Counts => EntriesOf(as[n]) = EntriesOf(c) + 1
      /\ HasKids(c.node) /\ StepOf(c) \in Others => EntriesOf(as[n]) = EntriesOf(c)
      /\ HasKids(c.node) => EntriesOf(c) \in Int
  <2> HIDE DEF c
  <2>1. PICK d \in CallsOf(N) : d = as[n]
    BY <1>6
  <2>2. IsClosed(N) /\ c \in CallsOf(N) /\ c.at <= LastStep(c.node)
        /\ d.node = c.node /\ d.at = c.at + 1
    BY <1>1, <1>6, <2>1
  <2>3. ASSUME HasKids(c.node)
        PROVE  /\ EntriesOf(c) \in Int
               /\ StepOf(c) \in Begins => EntriesOf(d) = 0
               /\ StepOf(c) \in Counts => EntriesOf(d) = EntriesOf(c) + 1
               /\ StepOf(c) \in Others \union {"llsd_serialize"} => EntriesOf(d) = EntriesOf(c)
    BY ONLY <2>2, <2>3, d \in CallsOf(N), EntriesFacts
  <2> QED BY <2>1, <2>3
<1>9. /\ StepOf(c) \in Begins => HasKids(c.node)
      /\ StepOf(c) \in Counts => HasKids(c.node)
  <2>1. ~HasKids(c.node) => StepOf(c) = "value"
    BY <1>1, StepFacts
  <2> QED BY <2>1 DEF Begins, Counts
<1>10. ASSUME Mirror(cs, s.st), t.ok PROVE Mirror(ds, t.st)
  <2>1. ds = as
    BY <1>10 DEF as
  <2>2. CASE StepOf(c) \in Begins
    <3>1. ~IsOpen(cs[n]) /\ IsOpen(as[n]) /\ EntriesOf(as[n]) = 0 /\ Begun(s, t, fmt # "xml")
      BY <1>3, <1>5, <1>7, <1>8, <1>9, <2>2
    <3> QED BY <1>0, <1>5, <1>10, <2>1, <3>1, MirrorBegins
  <2>3. CASE StepOf(c) \in Ends
    <3>1. IsOpen(cs[n]) /\ ~IsOpen(as[n]) /\ Ended(s, t, fmt # "xml")
      BY <1>3, <1>5, <1>7, <2>3
    <3> QED BY <1>0, <1>5, <1>10, <2>1, <3>1, MirrorEnds
  <2>4. CASE StepOf(c) \in Others
    <3>1. StepOf(c) \notin Begins \union Ends
      BY <2>4 DEF Begins, Ends, Others
    <3>2. SameStacks(s.st, t.st)
      BY <1>3, <2>4 DEF Wrote
    <3>3. (IsOpen(as[n]) <=> IsOpen(cs[n])) /\ (IsOpen(cs[n]) => EntriesOf(as[n]) = EntriesOf(cs[n]))
      BY <1>5, <1>8, <2>4, <3>1
    <3>4. Len(cs) = n /\ Len(as) = n /\ n \in Nat /\ n > 0
      BY <1>0, <1>5
    <3>5. \A i \in 1 .. n - 1 : as[i] = cs[i]
      BY <1>5
    <3>6. Mirror(cs, s.st)
      BY <1>10
    <3>7. Mirror(as, t.st)
      BY ONLY <3>2, <3>3, <3>4, <3>5, <3>6, MirrorKeeps
    <3> QED BY <2>1, <3>7
  <2>5. CASE StepOf(c) \in Counts
    <3>1. StepOf(c) \notin Begins \union Ends
      BY <2>5 DEF Begins, Ends, Counts
    <3>2. IsOpen(as[n]) /\ IsOpen(cs[n]) /\ EntriesOf(as[n]) = EntriesOf(cs[n]) + 1
      BY <1>5, <1>8, <1>9, <2>5, <3>1
    <3>3. CASE fmt # "xml"
      <4>1. Counted(s, t)
        BY <1>3, <2>5, <3>3
      <4> QED BY <1>0, <1>5, <1>10, <2>1, <3>2, <3>3, <4>1, MirrorCounts
    <3>4. CASE fmt = "xml"
      <4>1. SameStacks(s.st, t.st)
        BY <1>3, <2>5, <3>4 DEF Wrote
      <4>2. Depth(ds) = Depth(cs)
        BY <1>0, <1>5, <2>1, <3>2 DEF Depth
      <4> QED BY <1>10, <3>4, <4>1, <4>2 DEF Mirror, SameStacks
    <3> QED BY <3>3, <3>4
  <2> QED BY <1>2, <2>2, <2>3, <2>4, <2>5
<1>11. ASSUME Indents(cs, s.st) PROVE Indents(ds, t.st)
  <2>0. s.st.indent \in Nat /\ (s.st.pretty => s.st.indent >= Cardinality(Live(cs)))
    BY <1>11 DEF Indents
  <2>1. IsFiniteSet(Live(cs)) /\ Cardinality(Live(cs)) \in Nat
    BY LiveFinite
  <2>2. /\ Cardinality(Live(cs) \union {n}) =
             IF n \in Live(cs) THEN Cardinality(Live(cs)) ELSE Cardinality(Live(cs)) + 1
        /\ Cardinality(Live(cs) \ {n}) =
             IF n \in Live(cs) THEN Cardinality(Live(cs)) - 1 ELSE Cardinality(Live(cs))
    BY <2>1, FS_AddElement, FS_RemoveElement
  <2>3. ~t.ok => Live(ds) = Live(cs) \ {n}
    BY FailFacts
  <2>4. t.ok => ds = as
    BY DEF as
  <2>5. IsState(s.st)
    BY DEF IsRun
  <2>6. s.st.pretty \in BOOLEAN
    BY <2>5, StateFields
  <2>7. CASE StepOf(c) \in Begins
    <3>1. t.st.pretty = s.st.pretty
          /\ t.st.indent = s.st.indent + (IF t.ok /\ s.st.pretty THEN 1 ELSE 0)
      BY <1>3, <2>7 DEF Begun
    <3>2. CASE t.ok
      <4>1. Cardinality(Live(ds)) = Cardinality(Live(cs)) + 1
        BY <1>5, <2>2, <2>4, <2>7, <3>2
      <4> QED BY <2>0, <2>1, <2>6, <3>1, <3>2, <4>1 DEF Indents
    <3>3. CASE ~t.ok
      <4>1. Cardinality(Live(ds)) = Cardinality(Live(cs))
        BY <1>5, <2>2, <2>3, <2>7, <3>3
      <4> QED BY <2>0, <2>1, <2>6, <3>1, <3>3, <4>1 DEF Indents
    <3> QED BY <3>2, <3>3
  <2>8. CASE StepOf(c) \in Ends
    <3>1. t.st.pretty = s.st.pretty
          /\ t.st.indent = s.st.indent - (IF s.st.pretty THEN 1 ELSE 0)
      BY <1>3, <2>8 DEF Ended
    <3>2. Live(ds) = Live(cs) \ {n} /\ n \in Live(cs)
      BY <1>5, <2>3, <2>4, <2>8
    <3>3. Cardinality(Live(ds)) = Cardinality(Live(cs)) - 1 /\ Cardinality(Live(ds)) \in Nat
      <4>1. IsFiniteSet(Live(cs) \ {n})
        BY <2>1, FS_RemoveElement
      <4>2. Cardinality(Live(cs) \ {n}) \in Nat
        BY <4>1, FS_CardinalityType
      <4> QED BY <2>2, <3>2, <4>2
    <3> QED BY <2>0, <2>1, <2>6, <3>1, <3>3 DEF Indents
  <2>9. CASE StepOf(c) \in Others \union Counts
    <3>1. t.st.pretty = s.st.pretty /\ t.st.indent = s.st.indent
      BY <1>3, <2>9 DEF Wrote, SameStacks, Counted
    <3>2. Live(ds) \in {Live(cs), Live(cs) \ {n}}
      <4>1. StepOf(c) \notin Begins \union Ends
        BY <2>9 DEF Begins, Ends, Others, Counts
      <4> QED BY <1>5, <2>3, <2>4, <4>1
    <3>3. Cardinality(Live(ds)) <= Cardinality(Live(cs))
      <4>1. Cardinality(Live(cs) \ {n}) <= Cardinality(Live(cs))
        BY ONLY <2>1, <2>2
      <4>2. Cardinality(Live(cs)) <= Cardinality(Live(cs))
        BY ONLY <2>1
      <4> QED BY <3>2, <4>1, <4>2
    <3>4. Cardinality(Live(ds)) \in Nat
      <4>1. IsFiniteSet(Live(cs) \ {n})
        BY <2>1, FS_RemoveElement
      <4>2. Cardinality(Live(cs) \ {n}) \in Nat
        BY <4>1, FS_CardinalityType
      <4> QED BY <2>1, <3>2, <4>2
    <3> QED BY <2>0, <2>1, <2>6, <3>1, <3>3, <3>4 DEF Indents
  <2> QED BY <1>2, <2>7, <2>8, <2>9
<1> QED BY <1>4, <1>10, <1>11

(* The serializer's state before its init function has run. *)
Fresh(x) ==
  /\ x.multiline_stack = <<fmt = "xml">> /\ x.count_stack = << >>
  /\ x.indent = (IF fmt = "xml" THEN 1 ELSE 0) /\ ~x.lost

(***************************************************************************)
(* The inductive invariant.  N is a set of values that is closed under     *)
(* kids and holds the documents.                                           *)
(***************************************************************************)
IInv(N) ==
  /\ fmt \in Formats /\ doc \in Documents
  /\ faults \in 0 .. MaxFaults /\ failed \in BOOLEAN
  /\ verdict \in {"none", "running", "TRUE", "FALSE", "crashed"}
  /\ IsState(st) /\ st.indent \in Nat
  /\ fmt = "binary" /\ ~failed => ~st.lost
  /\ verdict = "none" => ~failed /\ calls = << >> /\ Fresh(st)
  /\ verdict \in {"running", "crashed"} =>
       /\ InProgress(N, calls) /\ (failed <=> AnyFailed(calls)) /\ Indents(calls, st)
       /\ ~failed /\ fmt # "binary" => Mirror(calls, st)
  /\ verdict \in {"TRUE", "FALSE"} => calls = << >> /\ (verdict = "TRUE" <=> ~failed)

(* The state llsd_serialize_to_file sets up has the invariant. *)
LEMMA IInvInit ==
  ASSUME NEW N, Init
  PROVE  IInv(N)
<1>1. PICK pretty \in BOOLEAN, map_value \in BOOLEAN :
         st = [out |-> << >>, count_stack |-> << >>,
               multiline_stack |-> <<fmt = "xml">>,
               indent |-> IF fmt = "xml" THEN 1 ELSE 0,
               key |-> FALSE, map_value |-> map_value, pretty |-> pretty,
               lost |-> FALSE]
  BY DEF Init
<1>2. Fresh(st) /\ st.indent \in Nat
  BY <1>1 DEF Fresh
<1>3. IsState(st)
  <2>1. << >> \in Seq(Nat) /\ <<fmt = "xml">> \in Seq(BOOLEAN)
    OBVIOUS
  <2> QED BY <1>1, <2>1 DEF IsState
<1>4. 0 \in 0 .. MaxFaults
  BY MaxFaultsAssumption
<1> QED BY <1>2, <1>3, <1>4 DEF IInv, Init, Fresh

(* The run a callback starts with. *)
LEMMA StartRun ==
  ASSUME IsState(st), NEW fault \in Faults, NEW s, s = Run(st, fault)
  PROVE  IsRun(s) /\ s.ok /\ s.st = st
<1>1. fault \in FaultRecords
  <2>1. NoFault \in FaultRecords
    BY DEF NoFault, FaultRecords, MaxWrites
  <2>2. \A n \in 1 .. MaxWrites : n \in 0 .. MaxWrites
    BY DEF MaxWrites
  <2> QED BY <2>1, <2>2 DEF Faults, FaultRecords
<1> QED BY <1>1 DEF Run, IsRun

(* No more writes fail than may. *)
LEMMA StruckType ==
  ASSUME NEW s, NEW fault, faults \in 0 .. MaxFaults, Struck(s, fault)
  PROVE  faults' \in 0 .. MaxFaults
  BY MaxFaultsAssumption DEF Struck

(* The step in which the init function runs. *)
LEMMA BeginKeeps ==
  ASSUME NEW N, IsClosed(N), Documents \subseteq N, IInv(N), NEW fault \in Faults, Begin(fault)
  PROVE  IInv(N)'
<1> DEFINE r == Run(st, fault)
           s == init_fn(r)
<1>1. /\ fmt \in Formats /\ doc \in Documents /\ IsState(st) /\ faults \in 0 .. MaxFaults
      /\ fmt = "binary" /\ ~failed => ~st.lost
      /\ ~failed /\ Fresh(st) /\ st.indent \in Nat
  BY DEF IInv, Begin
<1>2. fmt \in {"notation", "json", "xml", "binary"}
  BY <1>1, FormatsAssumption
<1>3. IsRun(r) /\ r.ok /\ r.st = st
  BY <1>1, StartRun
<1> HIDE DEF r
<1>4. Wrote(r, s) /\ (fmt = "binary" /\ s.ok => s.st.lost = st.lost)
  BY <1>2, <1>3, InitsAndDeinits
<1>5. /\ Struck(s, fault) /\ st' = s.st /\ fmt' = fmt /\ doc' = doc
      /\ calls' = (IF s.ok THEN <<Call(doc)>> ELSE << >>)
      /\ verdict' = (IF s.ok THEN "running" ELSE "FALSE")
      /\ failed' = ~s.ok
  BY DEF Begin, r
<1> HIDE DEF s
<1>6. IsRun(s) /\ SameStacks(st, s.st) /\ s.ok \in BOOLEAN /\ IsState(s.st)
  BY <1>3, <1>4 DEF Wrote, IsRun
<1>7. faults' \in 0 .. MaxFaults
  BY <1>1, <1>5, StruckType
<1>8. s.st.indent \in Nat
  BY <1>1, <1>6 DEF SameStacks
<1>9. CASE ~s.ok
  <2>1. calls' = << >> /\ verdict' = "FALSE" /\ failed' = TRUE
    BY <1>5, <1>9
  <2> QED BY <1>1, <1>5, <1>6, <1>7, <1>8, <2>1 DEF IInv
<1>10. CASE s.ok
  <2>1. calls' = <<Call(doc)>> /\ verdict' = "running" /\ failed' = FALSE
    BY <1>5, <1>10
  <2>2. doc \in N
    BY <1>1
  <2>3. Call(doc) \in CallsOf(N) /\ ~Call(doc).failed /\ ~IsOpen(Call(doc))
    BY <2>2, CallFacts
  <2>4. PICK c \in CallsOf(N) : c = Call(doc)
    BY <2>3
  <2> DEFINE cs == <<c>>
  <2>5. cs \in Seq(CallsOf(N)) /\ Len(cs) = 1 /\ cs[1] = c
    OBVIOUS
  <2>6. calls' = cs
    BY <2>1, <2>4
  <2> HIDE DEF cs
  <2>7. InProgress(N, cs)
    BY <2>5 DEF InProgress
  <2>8. ~AnyFailed(cs)
    BY <2>3, <2>4, <2>5 DEF AnyFailed
  <2>9. Live(cs) = {}
    BY <2>3, <2>4, <2>5 DEF Live
  <2>10. Depth(cs) = 0
    BY <2>3, <2>4, <2>5 DEF Depth
  <2>11. (fmt # "binary" /\ s.st.pretty => s.st.indent >= Cardinality(Live(cs)))
    BY <1>8, <2>9, FS_EmptySet
  <2>12. fmt # "binary" => Mirror(cs, s.st)
    <3>1. /\ s.st.multiline_stack = <<fmt = "xml">> /\ s.st.count_stack = << >>
          /\ s.st.indent = (IF fmt = "xml" THEN 1 ELSE 0)
      BY <1>1, <1>6 DEF Fresh, SameStacks
    <3>2. Len(s.st.multiline_stack) = 1 /\ s.st.multiline_stack[1] = (fmt = "xml")
          /\ Len(s.st.count_stack) = 0
      BY <3>1
    <3> QED BY <2>10, <3>1, <3>2 DEF Mirror
  <2>13. Indents(cs, st)' /\ (fmt # "binary" => Mirror(cs, st))'
         /\ InProgress(N, cs)' /\ ~AnyFailed(cs)'
    <3>1. Indents(cs, s.st)
      BY <1>8, <2>11 DEF Indents
    <3> QED BY <1>5, <2>7, <2>8, <2>12, <3>1 DEF Indents, Mirror, Live, Depth, IsOpen,
               InProgress, AnyFailed, StepOf, EntriesOf
  <2> QED BY <1>1, <1>4, <1>5, <1>6, <1>7, <1>8, <2>1, <2>6, <2>13 DEF IInv
<1> QED BY <1>6, <1>9, <1>10

(* A step of the walk leaves calls that are in progress behind. *)
LEMMA RunningKeeps ==
  ASSUME NEW N, IInv(N), verdict = "running", NEW ds, NEW x,
         fmt' = fmt, doc' = doc, verdict' \in {"running", "crashed"}, calls' = ds, st' = x,
         faults' \in 0 .. MaxFaults, failed' \in BOOLEAN, IsState(x), InProgress(N, ds),
         failed' <=> AnyFailed(ds), Indents(ds, x),
         ~failed' /\ fmt # "binary" => Mirror(ds, x),
         fmt = "binary" /\ ~failed' => ~x.lost
  PROVE  IInv(N)'
<1>1. Indents(calls, st)' /\ (~failed' /\ fmt # "binary" => Mirror(calls, st)')
      /\ InProgress(N, calls)' /\ (failed' <=> AnyFailed(calls)') /\ IsState(st)'
  BY DEF Indents, Mirror, Live, Depth, IsOpen, InProgress, AnyFailed, StepOf, EntriesOf, IsState
<1>2. x.indent \in Nat
  BY DEF Indents
<1> QED BY <1>1, <1>2 DEF IInv

(* A callback of the serializer. *)
LEMMA CallbackStepKeeps ==
  ASSUME NEW N, IsClosed(N), IInv(N), NEW fault \in Faults, Callback(fault)
  PROVE  IInv(N)'
<1> DEFINE n == Len(calls)
           c == calls[n]
           r == Run(st, fault)
           s == callback(r, StepOf(c), c.node)
           ds == IF s.ok THEN Advance(calls) ELSE Fail(calls)
<1>1. /\ fmt \in Formats /\ IsState(st) /\ faults \in 0 .. MaxFaults /\ failed \in BOOLEAN
      /\ fmt = "binary" /\ ~failed => ~st.lost
      /\ InProgress(N, calls) /\ (failed <=> AnyFailed(calls)) /\ Indents(calls, st)
      /\ ~failed /\ fmt # "binary" => Mirror(calls, st)
      /\ verdict = "running"
  BY DEF IInv, Callback, MayStep, Running
<1>2. fmt \in {"notation", "json", "xml", "binary"}
  BY <1>1, FormatsAssumption
<1>3. MayAdvance(calls)
  BY DEF Callback, MayStep, Innermost, MayAdvance
<1>4. IsRun(r) /\ r.ok /\ r.st = st
  BY <1>1, StartRun
<1>5. /\ Struck(s, fault) /\ st' = s.st /\ fmt' = fmt /\ doc' = doc
      /\ verdict' \in {"running", "crashed"}
      /\ calls' = ds /\ failed' = (failed \/ ~s.ok)
      /\ StepOf(c) # "llsd_serialize"
  BY <1>1 DEF Callback, CallsMustFit, StepOf, Innermost
<1>6. calls \in Seq(CallsOf(N)) /\ n \in Nat /\ n > 0
  BY <1>1 DEF InProgress
<1>7. c \in CallsOf(N) /\ c.at <= LastStep(c.node)
  BY <1>3, <1>6 DEF MayAdvance
<1>8. faults' \in 0 .. MaxFaults
  BY <1>1, <1>5, StruckType
<1>9. InProgress(N, ds) /\ (s.ok => (AnyFailed(ds) <=> AnyFailed(calls))) /\ (~s.ok => AnyFailed(ds))
  BY <1>1, <1>3, AdvanceFacts, FailFacts
<1>10. /\ IsRun(s) /\ Indents(ds, s.st)
       /\ fmt # "binary" /\ Mirror(calls, st) /\ s.ok => Mirror(ds, s.st)
       /\ fmt = "binary" /\ s.ok => s.st.lost = st.lost
  <2>1. CASE fmt = "binary"
    <3>1. s = binary_callback(r, StepOf(c), c.node)
      BY <2>1 DEF callback
    <3>2. StepOf(c) \in {"value", "array_begin", "array_value_begin", "array_value_end",
                       "array_end", "map_begin", "map_key_begin", "map_key_end",
                       "map_value_begin", "map_value_end", "map_end"}
      BY <1>5, <1>7, StepFacts DEF Begins, Ends, Counts, Others
    <3> HIDE DEF r, s, c
    <3>3. Wrote(r, s) /\ (s.ok => s.st.lost = r.st.lost)
      BY <1>4, <3>1, <3>2, BinaryWrites
    <3>4. IsRun(s) /\ s.st.indent = st.indent
      BY <1>4, <3>3 DEF Wrote, SameStacks
    <3>5. Indents(ds, s.st)
      BY <1>1, <2>1, <3>4 DEF Indents
    <3> QED BY <1>4, <2>1, <3>3, <3>4, <3>5
  <2>2. CASE fmt # "binary"
    <3>1. fmt \in {"notation", "json", "xml"}
      BY <1>2, <2>2
    <3>2. PICK t : t = s
      OBVIOUS
    <3>3. t = callback(r, StepOf(c), c.node) /\ c = calls[n] /\ n = Len(calls)
      BY <3>2
    <3>4. PICK es : es = IF t.ok THEN Advance(calls) ELSE Fail(calls)
      OBVIOUS
    <3>5. es = ds
      BY <3>2, <3>4
    <3> HIDE DEF r, s, c, n, ds
    <3>6. /\ IsRun(t)
          /\ Mirror(calls, r.st) /\ t.ok => Mirror(es, t.st)
          /\ Indents(calls, r.st) => Indents(es, t.st)
      BY <1>1, <1>3, <1>4, <1>5, <3>1, <3>3, <3>4, CallbackKeeps
    <3> QED BY <1>1, <1>4, <2>2, <3>2, <3>5, <3>6
  <2> QED BY <2>1, <2>2
<1>11. IsState(s.st) /\ s.ok \in BOOLEAN
  BY <1>10 DEF IsRun
<1> HIDE DEF s, ds, c, r, n
<1>12. failed' \in BOOLEAN /\ (failed' <=> AnyFailed(ds))
  BY <1>1, <1>5, <1>9, <1>11
<1>13. ~failed' /\ fmt # "binary" => Mirror(ds, s.st)
  BY <1>1, <1>5, <1>10
<1>14. fmt = "binary" /\ ~failed' => ~s.st.lost
  BY <1>1, <1>5, <1>10
<1> QED BY <1>1, <1>5, <1>8, <1>9, <1>10, <1>11, <1>12, <1>13, <1>14, RunningKeeps

(* The call of llsd_serialize for a kid. *)
LEMMA DescendKeeps ==
  ASSUME NEW N, IsClosed(N), IInv(N), Descend
  PROVE  IInv(N)'
<1> DEFINE n == Len(calls)
           ds == Push(calls, Call(calls[n].node.kids[KidAt(calls[n].at)]))
<1>1. /\ IsState(st) /\ faults \in 0 .. MaxFaults /\ failed \in BOOLEAN
      /\ fmt = "binary" /\ ~failed => ~st.lost
      /\ InProgress(N, calls) /\ (failed <=> AnyFailed(calls)) /\ Indents(calls, st)
      /\ ~failed /\ fmt # "binary" => Mirror(calls, st)
      /\ verdict = "running"
  BY DEF IInv, Descend, MayStep, Running
<1>2. MayAdvance(calls)
  BY DEF Descend, MayStep, Innermost, MayAdvance
<1>3. StepOf(calls[n]) = "llsd_serialize" /\ calls' = ds
      /\ UNCHANGED <<fmt, doc, st, faults, failed>> /\ verdict' \in {"running", "crashed"}
  BY <1>1 DEF Descend, CallsMustFit, StepOf, Innermost
<1>4. n \in Nat /\ n > 0 /\ n = Len(calls)
  BY <1>1 DEF InProgress
<1>5. /\ InProgress(N, ds) /\ (AnyFailed(ds) <=> AnyFailed(calls)) /\ Live(ds) = Live(calls)
      /\ Len(ds) = n + 1 /\ ~IsOpen(ds[n + 1]) /\ \A i \in 1 .. n : ds[i] = calls[i]
      /\ IsOpen(calls[n])
  BY <1>1, <1>2, <1>3, DescendFacts
<1> HIDE DEF ds, n
<1>6. Indents(ds, st)
  BY <1>1, <1>5 DEF Indents
<1>7. Mirror(calls, st) => Mirror(ds, st)
  <2>1. Depth(ds) = n /\ Depth(calls) = n
    BY <1>4, <1>5 DEF Depth
  <2> QED BY <1>5, <2>1 DEF Mirror
<1> QED BY <1>1, <1>3, <1>5, <1>6, <1>7, RunningKeeps

(* An inner call returns: to a failed one, whose second attempt it was; when
   it is done; or when it has failed itself, and its caller fails with it. *)
LEMMA ReturnKeeps ==
  ASSUME NEW N, IsClosed(N), IInv(N), Return
  PROVE  IInv(N)'
<1> DEFINE n == Len(calls)
           below == Pop(calls)
<1>1. /\ IsState(st) /\ faults \in 0 .. MaxFaults /\ failed \in BOOLEAN
      /\ fmt = "binary" /\ ~failed => ~st.lost
      /\ InProgress(N, calls) /\ (failed <=> AnyFailed(calls)) /\ Indents(calls, st)
      /\ ~failed /\ fmt # "binary" => Mirror(calls, st)
      /\ verdict = "running" /\ n > 1
  BY DEF IInv, Return, Running
<1>2. UNCHANGED <<fmt, doc, st, faults, failed, verdict>>
  BY DEF Return
<1>3. /\ calls[n - 1].failed => calls' = below
      /\ ~calls[n - 1].failed /\ ~calls[n].failed => calls' = Advance(below)
      /\ ~calls[n - 1].failed /\ calls[n].failed => calls' = Fail(below)
  BY DEF Return, Innermost
<1>4. ~MayAdvance(calls)
  BY DEF Return, MayStep, Innermost, MayAdvance
<1>5. n \in Nat /\ n = Len(calls) /\ calls \in Seq(CallsOf(N))
  BY <1>1 DEF InProgress
<1>6. /\ InProgress(N, below) /\ Len(below) = n - 1 /\ Live(below) = Live(calls) \ {n}
      /\ \A i \in 1 .. n - 1 : below[i] = calls[i]
      /\ calls[n - 1].failed \/ (MayAdvance(below) /\ StepOf(below[n - 1]) = "llsd_serialize")
  BY <1>1, <1>5, PopCallFacts
<1> HIDE DEF below
<1>7. IsFiniteSet(Live(calls)) /\ Cardinality(Live(calls)) \in Nat
      /\ IsFiniteSet(Live(below)) /\ Cardinality(Live(below)) \in Nat
  BY <1>1, <1>6, LiveFinite
<1>8. \A S : Live(calls) \ S \in SUBSET Live(calls)
  OBVIOUS
<1>9. \A S : Cardinality(Live(calls) \ S) <= Cardinality(Live(calls))
  BY <1>7, <1>8, FS_Subset
<1>10. n \in 1 .. n /\ n - 1 \in 1 .. n - 1 /\ n - 1 \in 1 .. n
  BY <1>1, <1>5
<1>11. calls[n].failed \in BOOLEAN /\ calls[n - 1].failed \in BOOLEAN
  BY <1>5, <1>10, CallFields
<1>12. ASSUME NEW ds, calls' = ds, InProgress(N, ds), failed <=> AnyFailed(ds),
              \E S : Live(ds) = Live(calls) \ S,
              ~failed /\ fmt # "binary" => Mirror(ds, st)
       PROVE  IInv(N)'
  <2>1. Cardinality(Live(ds)) <= Cardinality(Live(calls)) /\ Cardinality(Live(ds)) \in Nat
    BY <1>9, <1>12, LiveFinite
  <2>2. IsState(st) /\ st.indent \in Int
    BY <1>1, StateFields
  <2>3. Indents(ds, st)
    BY <1>1, <1>7, <2>1, <2>2 DEF Indents
  <2> QED BY <1>1, <1>2, <1>12, <2>3, RunningKeeps
<1>13. CASE calls[n - 1].failed
  <2>1. calls' = below
    BY <1>3, <1>13
  <2>2. AnyFailed(calls) /\ AnyFailed(below)
    <3>1. below[n - 1].failed
      BY <1>6, <1>10, <1>13
    <3> QED BY <1>5, <1>6, <1>10, <1>13, <3>1 DEF AnyFailed
  <2> QED BY <1>1, <1>6, <1>12, <2>1, <2>2
<1>14. CASE ~calls[n - 1].failed /\ calls[n].failed
  <2> DEFINE ds == Fail(below)
  <2>1. calls' = ds
    BY <1>3, <1>14
  <2>2. InProgress(N, ds) /\ AnyFailed(ds) /\ Live(ds) = Live(below) \ {n - 1}
    BY <1>6, FailFacts
  <2> HIDE DEF ds
  <2>3. AnyFailed(calls)
    BY <1>5, <1>10, <1>14 DEF AnyFailed
  <2>4. Live(ds) = Live(calls) \ {n, n - 1}
    BY <1>6, <2>2
  <2> QED BY <1>1, <1>12, <2>1, <2>2, <2>3, <2>4
<1>15. CASE ~calls[n - 1].failed /\ ~calls[n].failed
  <2> DEFINE ds == Advance(below)
             m  == n - 1
  <2>1. calls' = ds
    BY <1>3, <1>15
  <2>2. "llsd_serialize" \notin Begins \union Ends
    BY DEF Begins, Ends
  <2>3. MayAdvance(below) /\ StepOf(below[m]) = "llsd_serialize" /\ m = Len(below)
    BY <1>6, <1>15
  <2>4. /\ InProgress(N, ds) /\ Len(ds) = m /\ (AnyFailed(ds) <=> AnyFailed(below))
        /\ \A i \in 1 .. m - 1 : ds[i] = below[i]
        /\ ds[m].node = below[m].node /\ ds[m].at = below[m].at + 1
        /\ Live(ds) = Live(below)
        /\ (IsOpen(ds[m]) <=> IsOpen(below[m])) /\ (IsOpen(below[m]) <=> HasKids(below[m].node))
    BY <1>6, <2>2, <2>3, AdvanceFacts
  <2> HIDE DEF ds
  <2>5. AnyFailed(below) <=> AnyFailed(calls)
    <3>1. \A i \in 1 .. n : i = n \/ i \in 1 .. n - 1
      BY <1>5
    <3>2. \A i \in 1 .. n - 1 : i \in 1 .. n
      BY <1>5
    <3> QED BY <1>5, <1>6, <1>15, <3>1, <3>2 DEF AnyFailed
  <2>6. m \in Nat /\ m > 0 /\ below[m] \in CallsOf(N) /\ ds[m] \in CallsOf(N)
        /\ below[m] = calls[m] /\ m = n - 1
    <3>1. below \in Seq(CallsOf(N)) /\ ds \in Seq(CallsOf(N))
      BY <1>6, <2>4 DEF InProgress
    <3> QED BY <1>1, <1>5, <1>6, <1>10, <2>4, <3>1
  <2> HIDE DEF m
  <2>7. below[m].at <= LastStep(below[m].node)
    BY <2>3 DEF MayAdvance
  <2>8. HasKids(below[m].node)
    <3>1. ~HasKids(below[m].node) => StepOf(below[m]) = "value"
      BY <2>6, <2>7, StepFacts
    <3> QED BY <2>3, <3>1
  <2>9. IsOpen(ds[m]) /\ IsOpen(below[m]) /\ EntriesOf(ds[m]) = EntriesOf(below[m])
    BY <2>3, <2>4, <2>6, <2>7, <2>8, EntriesFacts
  <2>10. ~IsOpen(calls[n])
    BY <1>4, <1>5, <1>15 DEF MayAdvance, IsOpen
  <2>11. ASSUME Mirror(calls, st) PROVE Mirror(ds, st)
    <3>1. Depth(calls) = m /\ Depth(ds) = m
      BY <1>5, <2>4, <2>6, <2>9, <2>10 DEF Depth
    <3>2. \A i \in 1 .. m : EntriesOf(ds[i]) = EntriesOf(calls[i])
      <4>1. \A i \in 1 .. m : i = m \/ i \in 1 .. m - 1
        BY <2>6
      <4>2. \A i \in 1 .. m - 1 : i \in 1 .. m
        BY <2>6
      <4> QED BY <1>6, <2>4, <2>6, <2>9, <4>1, <4>2
    <3> QED BY <2>11, <3>1, <3>2 DEF Mirror
  <2> QED BY <1>1, <1>6, <1>12, <2>1, <2>4, <2>5, <2>11
<1> QED BY <1>11, <1>13, <1>14, <1>15

(* The outermost call returns.  When nothing has failed all containers have
   ended, and the deinit function finds the stack as it was set up. *)
LEMMA FinishKeeps ==
  ASSUME NEW N, IsClosed(N), IInv(N), NEW fault \in Faults, Finish(fault)
  PROVE  IInv(N)'
<1> DEFINE c == calls[1]
           r == Run(st, fault)
           s == IF c.failed THEN Run(st, NoFault) ELSE deinit_fn(r)
<1>1. /\ fmt \in Formats /\ IsState(st) /\ faults \in 0 .. MaxFaults /\ failed \in BOOLEAN
      /\ fmt = "binary" /\ ~failed => ~st.lost
      /\ InProgress(N, calls) /\ (failed <=> AnyFailed(calls)) /\ st.indent \in Nat
      /\ ~failed /\ fmt # "binary" => Mirror(calls, st)
      /\ Len(calls) = 1
  BY DEF IInv, Finish, Running
<1>2. fmt \in {"notation", "json", "xml", "binary"}
  BY <1>1, FormatsAssumption
<1>3. ~MayAdvance(calls)
  BY DEF Finish, MayStep, Innermost, MayAdvance
<1>4. /\ Struck(s, fault) /\ st' = s.st /\ fmt' = fmt /\ doc' = doc /\ failed' = failed
      /\ calls' = << >>
      /\ verdict' = IF c.failed \/ ~s.ok THEN "FALSE" ELSE "TRUE"
  BY <1>1 DEF Finish, Innermost
<1>5. c \in CallsOf(N) /\ c.failed \in BOOLEAN
  <2>1. c \in CallsOf(N)
    <3>1. calls \in Seq(CallsOf(N)) /\ 1 \in 1 .. Len(calls)
      BY <1>1 DEF InProgress
    <3> QED BY <3>1
  <2> QED BY <2>1 DEF CallsOf
<1>6. failed <=> c.failed
  BY <1>1, <1>5 DEF AnyFailed
<1>7. IsRun(r) /\ r.ok /\ r.st = st
  BY <1>1, StartRun
<1>8. NoFault \in Faults
  BY DEF Faults
<1>9. Run(st, NoFault).st = st
  BY <1>1, <1>8, StartRun
<1> HIDE DEF r, c
<1>10. /\ IsRun(deinit_fn(r)) /\ SameStacks(r.st, deinit_fn(r).st)
       /\ fmt \in {"notation", "json"} => (deinit_fn(r).ok <=> ~TOPML(r.st))
       /\ fmt = "xml" => (deinit_fn(r).ok <=> TOPML(r.st))
       /\ fmt = "binary" => deinit_fn(r) = r
  BY <1>2, <1>7, InitsAndDeinits
<1>11. IsState(s.st) /\ s.st.indent = st.indent
  <2>1. CASE c.failed
    BY <1>1, <1>9, <2>1
  <2>2. CASE ~c.failed
    BY <1>7, <1>10, <2>2 DEF IsRun, SameStacks
  <2> QED BY <2>1, <2>2
<1>12. ~c.failed => s.ok
  <2> SUFFICES ASSUME ~c.failed PROVE deinit_fn(r).ok
    OBVIOUS
  <2>1. CASE fmt = "binary"
    BY <1>7, <1>10, <2>1
  <2>2. CASE fmt # "binary"
    <3>1. Mirror(calls, st)
      BY <1>1, <1>6, <2>2
    <3>2. ~IsOpen(c)
      BY <1>1, <1>3 DEF MayAdvance, IsOpen, c
    <3>3. Depth(calls) = 0
      BY <1>1, <3>2 DEF Depth, c
    <3>4. Len(st.multiline_stack) = 1 /\ st.multiline_stack[1] = (fmt = "xml")
      BY <3>1, <3>3 DEF Mirror
    <3>5. st.multiline_stack # << >>
      <4>1. st.multiline_stack \in Seq(BOOLEAN)
        BY <1>1, StateFields
      <4> QED BY <3>4, <4>1
    <3>6. TOPML(st) <=> fmt = "xml"
      BY <3>4, <3>5 DEF TOPML
    <3> QED BY <1>2, <1>7, <1>10, <2>2, <3>6
  <2> QED BY <2>1, <2>2
<1>13. fmt = "binary" /\ ~failed => ~s.st.lost
  BY <1>1, <1>6, <1>7, <1>10
<1>14. faults' \in 0 .. MaxFaults
  BY <1>1, <1>4, StruckType
<1> HIDE DEF s
<1>15. verdict' = IF failed THEN "FALSE" ELSE "TRUE"
  BY <1>4, <1>6, <1>12
<1>16. IsState(st)' /\ st'.indent \in Nat
  BY <1>1, <1>4, <1>11
<1>17. fmt' \in Formats /\ doc' \in Documents
  BY <1>4 DEF IInv
<1> QED BY <1>1, <1>4, <1>13, <1>14, <1>15, <1>16, <1>17 DEF IInv

(* Every step of the walk keeps the invariant. *)
LEMMA IInvStep ==
  ASSUME NEW N, IsClosed(N), Documents \subseteq N, IInv(N), [Next]_vars
  PROVE  IInv(N)'
<1>1. CASE UNCHANGED vars
  <2>1. /\ fmt' = fmt /\ doc' = doc /\ calls' = calls /\ st' = st
        /\ faults' = faults /\ failed' = failed /\ verdict' = verdict
    BY <1>1 DEF vars
  <2> QED BY ZenonT(60), <2>1 DEF IInv, IsState, Fresh, InProgress, AnyFailed, Indents, Mirror, Live,
             Depth, IsOpen, StepOf, EntriesOf
<1>2. ASSUME NEW fault \in Faults, Begin(fault) PROVE IInv(N)'
  BY <1>2, BeginKeeps
<1>3. ASSUME NEW fault \in Faults, Callback(fault) PROVE IInv(N)'
  BY <1>3, CallbackStepKeeps
<1>4. ASSUME NEW fault \in Faults, Finish(fault) PROVE IInv(N)'
  BY <1>4, FinishKeeps
<1>5. CASE Descend
  BY <1>5, DescendKeeps
<1>6. CASE Return
  BY <1>6, ReturnKeeps
<1> QED BY <1>1, <1>2, <1>3, <1>4, <1>5, <1>6 DEF Next

(* What the invariant implies. *)
LEMMA IInvImplies ==
  ASSUME NEW N, IsClosed(N), IInv(N)
  PROVE  TypeOK /\ StacksMirrorCalls /\ FailureIsReported /\ BinaryIsComplete
<1>1. /\ IsState(st) /\ st.indent \in Nat
      /\ verdict \in {"running", "crashed"} =>
           InProgress(N, calls) /\ (failed <=> AnyFailed(calls))
      /\ verdict \notin {"running", "crashed"} => calls = << >>
  BY DEF IInv
<1>2. st.count_stack \in Seq(Nat) /\ st.multiline_stack \in Seq(BOOLEAN)
  BY <1>1, StateFields
<1>3. \A i \in 1 .. Len(calls) : calls[i].at \in 1 .. LastStep(calls[i].node) + 1
  <2>1. CASE verdict \in {"running", "crashed"}
    <3>1. calls \in Seq(CallsOf(N))
      BY <1>1, <2>1 DEF InProgress
    <3>2. \A i \in 1 .. Len(calls) : calls[i] \in CallsOf(N)
      BY <3>1
    <3> QED BY <3>2 DEF CallsOf
  <2>2. CASE verdict \notin {"running", "crashed"}
    <3>1. Len(calls) = 0
      BY <1>1, <2>2
    <3>2. 1 .. 0 = {}
      OBVIOUS
    <3> QED BY <3>1, <3>2
  <2> QED BY <2>1, <2>2
<1>4. TypeOK
  BY <1>1, <1>2, <1>3 DEF TypeOK, IInv
<1>5. FailureIsReported /\ BinaryIsComplete
  BY DEF IInv, FailureIsReported, BinaryIsComplete
<1>6. ASSUME ~failed, verdict = "running", fmt # "binary"
      PROVE  /\ \A i \in DOMAIN OpenCalls : IsOpen(OpenCalls[i])
             /\ Len(st.multiline_stack) = Len(OpenCalls) + 1
             /\ st.pretty => st.indent = Len(OpenCalls) + (IF fmt = "xml" THEN 1 ELSE 0)
             /\ fmt # "xml" =>
                  st.count_stack = [i \in DOMAIN OpenCalls |-> EntriesOf(OpenCalls[i])]
  <2> DEFINE n == Len(calls)
             k == Depth(calls)
  <2>1. Mirror(calls, st) /\ InProgress(N, calls) /\ ~AnyFailed(calls)
    BY <1>1, <1>6 DEF IInv
  <2>2. calls \in Seq(CallsOf(N)) /\ n \in Nat /\ n > 0 /\ n = Len(calls)
    BY <2>1 DEF InProgress
  <2>3. /\ Len(OpenCalls) = k /\ k \in Nat /\ k <= n
        /\ DOMAIN OpenCalls = 1 .. k
        /\ \A i \in 1 .. k : OpenCalls[i] = calls[i]
    <3>1. CASE IsOpen(calls[n])
      BY <2>2, <3>1 DEF OpenCalls, Innermost, Depth
    <3>2. CASE ~IsOpen(calls[n])
      <4>1. OpenCalls = Pop(calls) /\ k = n - 1
        BY <2>2, <3>2 DEF OpenCalls, Innermost, Depth
      <4>2. Pop(calls) \in Seq(CallsOf(N)) /\ Len(Pop(calls)) = n - 1
            /\ \A i \in 1 .. n - 1 : Pop(calls)[i] = calls[i]
        BY <2>2, PopFacts
      <4>3. DOMAIN Pop(calls) = 1 .. Len(Pop(calls))
        BY <4>2
      <4> QED BY <2>2, <4>1, <4>2, <4>3
    <3> QED BY <3>1, <3>2
  <2>4. ASSUME NEW i \in 1 .. k PROVE IsOpen(calls[i])
    <3>1. CASE i = n
      <4>1. i = Len(calls) /\ k = n
        BY <2>2, <2>3, <3>1
      <4>2. IsOpen(calls[n])
        BY <2>2, <4>1 DEF Depth
      <4> QED BY <3>1, <4>2
    <3>2. CASE i # n
      <4>1. i \in 1 .. n - 1 /\ i \in 1 .. n
        BY <2>2, <2>3, <3>2
      <4>2. ~calls[i].failed /\ calls[i] \in CallsOf(N)
        BY <2>1, <2>2, <4>1 DEF AnyFailed
      <4>3. calls[i].at <= LastStep(calls[i].node) /\ StepOf(calls[i]) = "llsd_serialize"
        BY <2>1, <2>2, <4>1, <4>2 DEF InProgress
      <4>4. HasKids(calls[i].node)
        <5>1. ~HasKids(calls[i].node) => StepOf(calls[i]) = "value"
          BY <4>2, <4>3, StepFacts
        <5> QED BY <4>3, <5>1
      <4>5. calls[i].at # 1
        <5>1. StepOf(calls[i]) \in Begins <=> HasKids(calls[i].node) /\ calls[i].at = 1
          BY <4>2, <4>3, StepFacts
        <5> QED BY <4>3, <4>4, <5>1 DEF Begins
      <4>6. calls[i].at \in Nat /\ calls[i].at >= 1
            /\ (IsOpen(calls[i]) <=> HasKids(calls[i].node) /\ calls[i].at >= 2
                                     /\ calls[i].at <= LastStep(calls[i].node))
        BY <4>2, CallFields
      <4> QED BY <4>3, <4>4, <4>5, <4>6
    <3> QED BY <3>1, <3>2
  <2>5. /\ Len(st.multiline_stack) = k + 1
        /\ st.pretty => st.indent = k + (IF fmt = "xml" THEN 1 ELSE 0)
        /\ fmt # "xml" => Len(st.count_stack) = k
                          /\ \A i \in 1 .. k : st.count_stack[i] = EntriesOf(calls[i])
    BY <2>1 DEF Mirror
  <2> HIDE DEF k, n
  <2>6. ASSUME fmt # "xml"
        PROVE  st.count_stack = [i \in DOMAIN OpenCalls |-> EntriesOf(OpenCalls[i])]
    <3> DEFINE f == [i \in 1 .. k |-> EntriesOf(OpenCalls[i])]
    <3>1. \A i \in 1 .. k : EntriesOf(OpenCalls[i]) = st.count_stack[i]
      BY <2>3, <2>5, <2>6
    <3>2. st.count_stack = [i \in 1 .. k |-> st.count_stack[i]]
      BY <1>2, <2>5, <2>6
    <3>3. f = [i \in 1 .. k |-> st.count_stack[i]]
      BY <3>1
    <3> QED BY <2>3, <3>2, <3>3
  <2> QED BY <2>3, <2>4, <2>5, <2>6
<1>7. StacksMirrorCalls
  BY <1>6 DEF StacksMirrorCalls
<1> QED BY <1>4, <1>5, <1>7

(***************************************************************************)
(* The calls in their second attempt.  A callback that no fault strikes    *)
(* does not fail (Calm), so each call that fails on its own has used up a  *)
(* fault, and one that fails because of a kid takes over the kid's.        *)
(***************************************************************************)
Attempts(cs) == {i \in DOMAIN cs : cs[i].failed}

(* How they change with the stack of calls. *)
LEMMA AttemptsFacts ==
  ASSUME NEW N, IsClosed(N), NEW cs, InProgress(N, cs), NEW n, n = Len(cs)
  PROVE  /\ IsFiniteSet(Attempts(cs)) /\ Cardinality(Attempts(cs)) \in Nat
         /\ Attempts(Advance(cs)) = Attempts(cs)
         /\ Attempts(Fail(cs)) = Attempts(cs) \union {n}
         /\ n > 1 => Attempts(Pop(cs)) = Attempts(cs) \ {n}
         /\ \A x \in N : Attempts(Push(cs, Call(x))) = Attempts(cs)
<1> DEFINE S == CallsOf(N)
<1>1. cs \in Seq(S) /\ n \in Nat /\ n > 0 /\ n = Len(cs) /\ DOMAIN cs = 1 .. n
  BY DEF InProgress
<1>2. \A i \in 1 .. n : cs[i] \in S
  BY <1>1
<1>3. cs[n] \in [node : N, at : Nat, failed : BOOLEAN]
  BY <1>1, <1>2 DEF CallsOf
<1>4. \A x \in N : Call(x) \in S /\ ~Call(x).failed
  BY CallFacts
<1> HIDE DEF S
<1>5. IsFiniteSet(Attempts(cs)) /\ Cardinality(Attempts(cs)) \in Nat
  <2>1. IsFiniteSet(1 .. n)
    BY <1>1, FS_Interval
  <2>2. Attempts(cs) \in SUBSET (1 .. n)
    BY <1>1 DEF Attempts
  <2> QED BY <2>1, <2>2, FS_Subset, FS_CardinalityType
<1>6. Attempts(Advance(cs)) = Attempts(cs)
  <2> DEFINE d  == [cs[n] EXCEPT !.at = @ + 1]
             ds == [cs EXCEPT ![n] = d]
  <2>1. Advance(cs) = ds
    BY <1>1 DEF Advance
  <2>2. d.failed = cs[n].failed
    BY <1>3
  <2> HIDE DEF d
  <2>3. DOMAIN ds = 1 .. n /\ ds[n] = d /\ \A i \in 1 .. n : i # n => ds[i] = cs[i]
    BY <1>1
  <2> HIDE DEF ds
  <2> QED BY <1>1, <2>1, <2>2, <2>3 DEF Attempts
<1>7. \A ds, x : ds \in Seq(S) /\ x \in S /\ ~x.failed => Attempts(Push(ds, x)) = Attempts(ds)
  <2> SUFFICES ASSUME NEW ds \in Seq(S), NEW x \in S, ~x.failed
               PROVE  Attempts(Push(ds, x)) = Attempts(ds)
    OBVIOUS
  <2>1. PICK m \in Nat : m = Len(ds)
    OBVIOUS
  <2>2. DOMAIN ds = 1 .. m
    BY <2>1
  <2>3. PICK es : es = Append(ds, x)
    OBVIOUS
  <2>7. es = Push(ds, x)
    BY <2>3 DEF Push
  <2>4. es \in Seq(S) /\ Len(es) = m + 1 /\ es[m + 1] = x /\ \A i \in 1 .. m : es[i] = ds[i]
    BY <2>1, <2>3
  <2>5. DOMAIN es = 1 .. m + 1
    BY <2>1, <2>4
  <2>6. \A i : i \in 1 .. m + 1 <=> i \in 1 .. m \/ i = m + 1
    BY <2>1
  <2> QED BY <2>2, <2>4, <2>5, <2>6, <2>7 DEF Attempts
<1>8. Attempts(Fail(cs)) = Attempts(cs) \union {n}
  <2> DEFINE d  == [cs[n] EXCEPT !.failed = TRUE]
             ds == [cs EXCEPT ![n] = d]
  <2>1. Fail(cs) = Push(ds, Call(cs[n].node))
    BY <1>1 DEF Fail
  <2>2. d \in CallsOf(N) /\ d.failed = TRUE /\ cs[n].node \in N
    <3>1. cs[n].at \in 1 .. LastStep(cs[n].node) + 1
      BY <1>1, <1>2 DEF CallsOf, S
    <3>2. d \in [node : N, at : Nat, failed : BOOLEAN]
          /\ d.node = cs[n].node /\ d.at = cs[n].at /\ d.failed = TRUE
      BY <1>3
    <3> HIDE DEF d
    <3> QED BY <1>3, <3>1, <3>2 DEF CallsOf
  <2>3. d \in S
    BY <2>2 DEF S
  <2> HIDE DEF d
  <2>4. ds \in Seq(S) /\ DOMAIN ds = 1 .. n /\ ds[n] = d
        /\ \A i \in 1 .. n : i # n => ds[i] = cs[i]
    BY <1>1, <2>3
  <2> HIDE DEF ds
  <2>5. Attempts(ds) = Attempts(cs) \union {n}
    BY <1>1, <2>2, <2>4 DEF Attempts
  <2> QED BY <1>4, <1>7, <2>1, <2>2, <2>4, <2>5
<1>9. n > 1 => Attempts(Pop(cs)) = Attempts(cs) \ {n}
  <2>1. PICK ds : ds = Pop(cs)
    OBVIOUS
  <2>2. ds \in Seq(S) /\ Len(ds) = n - 1 /\ \A i \in 1 .. n - 1 : ds[i] = cs[i]
    BY <1>1, <2>1, PopFacts
  <2>3. DOMAIN ds = 1 .. n - 1
    BY <2>2
  <2>4. \A i : i \in 1 .. n - 1 <=> i \in 1 .. n /\ i # n
    BY <1>1
  <2> QED BY <1>1, <2>1, <2>2, <2>3, <2>4 DEF Attempts
<1> QED BY <1>1, <1>4, <1>5, <1>6, <1>7, <1>8, <1>9

(* A callback that fails has been struck by a fault. *)
LEMMA FailuresHaveCauses ==
  ASSUME NEW N, IsClosed(N), IInv(N), NEW fault \in Faults, Callback(fault),
         NEW s, s = callback(Run(st, fault), StepOf(calls[Len(calls)]), calls[Len(calls)].node)
  PROVE  s.ok \in BOOLEAN /\ (~s.ok => fault # NoFault)
<1> DEFINE c == calls[Len(calls)]
           r == Run(st, fault)
<1>1. IsState(st) /\ fmt \in {"notation", "json", "xml", "binary"} /\ InProgress(N, calls)
  BY FormatsAssumption DEF IInv, Callback, MayStep, Running
<1>2. c \in CallsOf(N) /\ c.at <= LastStep(c.node) /\ StepOf(c) # "llsd_serialize"
  BY <1>1 DEF InProgress, Callback, MayStep, Innermost, StepOf
<1>3. StepOf(c) \in Begins \union Ends \union Counts \union Others
  BY <1>2, StepFacts
<1>4. IsRun(r) /\ r.ok
  BY <1>1, StartRun
<1>5. fault = NoFault => r.fault.left = 0
  BY DEF Run, NoFault
<1> HIDE DEF c, r
<1>6. IsRun(s) /\ Calm(r, s)
  <2>1. CASE fmt = "binary"
    <3>1. s = binary_callback(r, StepOf(c), c.node)
      BY <2>1 DEF callback, c, r
    <3> QED BY <1>3, <1>4, <3>1, BinaryWrites DEF Begins, Ends, Counts, Others, Wrote
  <2>2. CASE fmt # "binary"
    <3>1. s = callback(r, StepOf(c), c.node) /\ fmt \in {"notation", "json", "xml"}
      BY <1>1, <2>2 DEF c, r
    <3> QED BY <1>3, <1>4, <3>1, CallbackFacts DEF Begun, Ended, Counted, Wrote
  <2> QED BY <2>1, <2>2
<1> QED BY <1>4, <1>5, <1>6 DEF Calm, IsRun

(* A finite set with one more element. *)
LEMMA OneMore ==
  ASSUME NEW S, IsFiniteSet(S), NEW x
  PROVE  Cardinality(S \union {x}) \in Nat /\ Cardinality(S \union {x}) <= Cardinality(S) + 1
<1>1. Cardinality(S) \in Nat
  BY FS_CardinalityType
<1>2. PICK c \in Nat : c = Cardinality(S)
  BY <1>1
<1>3. PICK d : d = Cardinality(S \union {x})
  OBVIOUS
<1>4. d = IF x \in S THEN c ELSE c + 1
  BY <1>2, <1>3, FS_AddElement
<1> QED BY <1>2, <1>3, <1>4

(* Every step keeps the second attempts within the faults. *)
LEMMA AttemptsStep ==
  ASSUME NEW N, IsClosed(N), IInv(N), IInv(N)', AttemptsHaveCauses, [Next]_vars
  PROVE  AttemptsHaveCauses'
<1> DEFINE n == Len(calls)
           k == Cardinality(Attempts(calls))
           l == Cardinality(Attempts(calls'))
<1>1. faults \in Nat /\ faults' \in Nat
  BY MaxFaultsAssumption DEF IInv
<1>2. k <= faults
  BY DEF AttemptsHaveCauses, SecondAttempts, Attempts
<1> SUFFICES l <= faults'
  BY DEF AttemptsHaveCauses, SecondAttempts, Attempts
<1>3. \A s, fault : Struck(s, fault) => faults' >= faults /\ (fault # NoFault => faults' = faults + 1)
  BY <1>1 DEF Struck
<1>4. \A cs : cs = << >> => Cardinality(Attempts(cs)) = 0
  <2>1. \A cs : cs = << >> => Attempts(cs) = {}
    BY DEF Attempts
  <2> QED BY <2>1, FS_EmptySet
<1>5. verdict = "running" =>
        /\ InProgress(N, calls) /\ IsFiniteSet(Attempts(calls)) /\ k \in Nat
  <2>1. verdict = "running" => InProgress(N, calls)
    BY DEF IInv
  <2> QED BY <2>1, AttemptsFacts
<1>6. CASE UNCHANGED vars
  BY <1>2, <1>6 DEF vars
<1>7. ASSUME NEW fault \in Faults, Begin(fault) PROVE l <= faults'
  <2>1. calls' = << >> \/ calls' = <<Call(doc)>>
    BY <1>7 DEF Begin
  <2>2. Attempts(<<Call(doc)>>) = {}
    <3>1. DOMAIN <<Call(doc)>> = {1} /\ <<Call(doc)>>[1] = Call(doc) /\ ~Call(doc).failed
      BY DEF Call
    <3> QED BY <3>1 DEF Attempts
  <2>3. Attempts(calls') = {}
    <3>1. calls' = << >> => Attempts(calls') = {}
      BY DEF Attempts
    <3> QED BY <2>1, <2>2, <3>1
  <2> QED BY <1>1, <2>3, FS_EmptySet
<1>8. ASSUME NEW fault \in Faults, Callback(fault) PROVE l <= faults'
  <2>1. PICK s : s = callback(Run(st, fault), StepOf(calls[n]), calls[n].node)
    OBVIOUS
  <2>2. /\ verdict = "running" /\ Struck(s, fault)
        /\ calls' = IF s.ok THEN Advance(calls) ELSE Fail(calls)
    BY <1>8, <2>1 DEF Callback, MayStep, Running, StepOf, Innermost
  <2>3. s.ok \in BOOLEAN /\ (~s.ok => fault # NoFault)
    BY <1>8, <2>1, FailuresHaveCauses
  <2>4. CASE s.ok
    <3>1. Attempts(calls') = Attempts(calls)
      BY <1>5, <2>2, <2>4, AttemptsFacts
    <3>2. faults' >= faults
      BY <1>3, <2>2
    <3>3. l = k /\ k \in Nat
      BY <1>5, <2>2, <3>1
    <3> HIDE DEF k, l
    <3> QED BY <1>1, <1>2, <3>2, <3>3
  <2>5. CASE ~s.ok
    <3>1. Attempts(calls') = Attempts(calls) \union {n}
      BY <1>5, <2>2, <2>5, AttemptsFacts
    <3>2. l <= k + 1
      BY <1>5, <2>2, <3>1, OneMore
    <3>3. faults' = faults + 1
      BY <1>3, <2>2, <2>3, <2>5
    <3>4. l \in Nat
      BY <1>5, <2>2, <3>1, OneMore
    <3> HIDE DEF k, l
    <3> QED BY <1>1, <1>2, <1>5, <2>2, <3>2, <3>3, <3>4
  <2> QED BY <2>3, <2>4, <2>5
<1>9. ASSUME NEW fault \in Faults, Finish(fault) PROVE l <= faults'
  BY <1>1, <1>4, <1>9 DEF Finish
<1>10. CASE Descend
  <2>1. PICK x : x = calls[n].node.kids[KidAt(calls[n].at)]
    OBVIOUS
  <2>2. /\ verdict = "running" /\ faults' = faults /\ calls' = Push(calls, Call(x))
        /\ StepOf(calls[n]) = "llsd_serialize" /\ calls[n].at <= LastStep(calls[n].node)
    BY <1>10, <2>1 DEF Descend, MayStep, Running, Innermost, StepOf
  <2>3. calls[n] \in CallsOf(N)
    BY <1>5, <2>2 DEF InProgress
  <2>4. x \in N
    BY <2>1, <2>2, <2>3, StepFacts
  <2> QED BY <1>2, <1>5, <2>2, <2>4, AttemptsFacts
<1>11. CASE Return
  <2> DEFINE below == Pop(calls)
  <2>1. /\ verdict = "running" /\ faults' = faults /\ n > 1
        /\ calls[n - 1].failed => calls' = below
        /\ ~calls[n - 1].failed /\ ~calls[n].failed => calls' = Advance(below)
        /\ ~calls[n - 1].failed /\ calls[n].failed => calls' = Fail(below)
    BY <1>11 DEF Return, Running, Innermost
  <2>2. calls \in Seq(CallsOf(N)) /\ n \in Nat /\ n = Len(calls) /\ DOMAIN calls = 1 .. n
    BY <1>5, <2>1 DEF InProgress
  <2>3. InProgress(N, below) /\ Len(below) = n - 1
    BY <1>5, <2>1, <2>2, PopCallFacts
  <2>4. Attempts(below) = Attempts(calls) \ {n}
    BY <1>5, <2>1, <2>2, AttemptsFacts
  <2> HIDE DEF below
  <2>5. Attempts(Advance(below)) = Attempts(below)
        /\ Attempts(Fail(below)) = Attempts(below) \union {n - 1}
    BY <2>3, AttemptsFacts
  <2>6. CASE Attempts(calls') = Attempts(calls) \ {n}
    <3>1. Attempts(calls') \in SUBSET Attempts(calls)
      BY <2>6
    <3>2. l <= k /\ IsFiniteSet(Attempts(calls'))
      BY <1>5, <2>1, <3>1, FS_Subset
    <3>3. l \in Nat
      BY <3>2, FS_CardinalityType
    <3> HIDE DEF k, l
    <3> QED BY <1>1, <1>2, <1>5, <2>1, <3>2, <3>3
  <2>7. CASE calls[n].failed /\ Attempts(calls') = (Attempts(calls) \ {n}) \union {n - 1}
    <3>1. n \in Attempts(calls)
      BY <2>1, <2>2, <2>7 DEF Attempts
    <3>2. PICK T : T = Attempts(calls) \ {n}
      OBVIOUS
    <3>3. IsFiniteSet(T) /\ Cardinality(T) = k - 1
      BY <1>5, <2>1, <3>1, <3>2, FS_RemoveElement
    <3>4. l <= Cardinality(T) + 1 /\ l \in Nat
      BY <2>7, <3>2, <3>3, OneMore
    <3> HIDE DEF k, l
    <3> QED BY <1>1, <1>2, <1>5, <2>1, <3>3, <3>4
  <2>8. calls[n].failed \in BOOLEAN /\ calls[n - 1].failed \in BOOLEAN
    <3>1. n \in 1 .. n /\ n - 1 \in 1 .. n
      BY <2>1, <2>2
    <3>2. calls[n] \in CallsOf(N) /\ calls[n - 1] \in CallsOf(N)
      BY <2>2, <3>1
    <3> QED BY <3>2, CallFields
  <2> QED BY <2>1, <2>4, <2>5, <2>6, <2>7, <2>8
<1> QED BY <1>6, <1>7, <1>8, <1>9, <1>10, <1>11 DEF Next

-----------------------------------------------------------------------------
(***************************************************************************)
(* The theorems hold for every set of documents: N is any set of values    *)
(* that holds them, with their kids at every level.                        *)
(***************************************************************************)

(* The invariant holds in every reachable state. *)
LEMMA Invariant ==
  ASSUME NEW N, IsClosed(N), Documents \subseteq N
  PROVE  Spec => []IInv(N)
<1>1. Init => IInv(N)
  BY IInvInit
<1>2. IInv(N) /\ [Next]_vars => IInv(N)'
  BY IInvStep
<1> QED BY <1>1, <1>2, PTL DEF Spec

(* The walk and the serializer's state keep their types.  In particular the
   indentation never goes below zero, though failed attempts leave containers
   that have begun and do not end. *)
THEOREM TypeCorrect ==
  ASSUME NEW N, IsClosed(N), Documents \subseteq N
  PROVE  Spec => []TypeOK
<1>1. IInv(N) => TypeOK
  BY IInvImplies
<1>2. Spec => []IInv(N)
  BY Invariant
<1> QED BY <1>1, <1>2, PTL

(* Until a callback fails, the stacks of the notation, JSON and XML serializers
   mirror the calls of llsd_serialize in progress, entry by entry. *)
THEOREM StacksAlwaysMirror ==
  ASSUME NEW N, IsClosed(N), Documents \subseteq N
  PROVE  Spec => []StacksMirrorCalls
<1>1. IInv(N) => StacksMirrorCalls
  BY IInvImplies
<1>2. Spec => []IInv(N)
  BY Invariant
<1> QED BY <1>1, <1>2, PTL

(* llsd_serialize_to_file returns TRUE exactly when no callback has failed,
   whatever the second attempts of the failed calls return. *)
THEOREM FailureAlwaysReported ==
  ASSUME NEW N, IsClosed(N), Documents \subseteq N
  PROVE  Spec => []FailureIsReported
<1>1. IInv(N) => FailureIsReported
  BY IInvImplies
<1>2. Spec => []IInv(N)
  BY Invariant
<1> QED BY <1>1, <1>2, PTL

(* When llsd_serialize_to_file returns TRUE for the binary format, no write of
   it has been lost. *)
THEOREM BinaryAlwaysComplete ==
  ASSUME NEW N, IsClosed(N), Documents \subseteq N
  PROVE  Spec => []BinaryIsComplete
<1>1. IInv(N) => BinaryIsComplete
  BY IInvImplies
<1>2. Spec => []IInv(N)
  BY Invariant
<1> QED BY <1>1, <1>2, PTL

(* At no time are more calls in a second attempt than writes have failed: what
   a failed attempt has left in the serializer's state makes no callback fail,
   so the C stack need be no deeper than the value and the failures together. *)
THEOREM AttemptsAlwaysHaveCauses ==
  ASSUME NEW N, IsClosed(N), Documents \subseteq N
  PROVE  Spec => []AttemptsHaveCauses
<1>1. Init => AttemptsHaveCauses
  <2> SUFFICES ASSUME Init PROVE AttemptsHaveCauses
    OBVIOUS
  <2>1. calls = << >> /\ faults = 0
    BY DEF Init
  <2>2. SecondAttempts = {}
    BY <2>1 DEF SecondAttempts
  <2> QED BY <2>1, <2>2, FS_EmptySet DEF AttemptsHaveCauses
<1>2. IInv(N) /\ IInv(N)' /\ AttemptsHaveCauses /\ [Next]_vars => AttemptsHaveCauses'
  BY AttemptsStep
<1>3. Spec => []IInv(N)
  BY Invariant
<1> QED BY <1>1, <1>2, <1>3, PTL DEF Spec
=============================================================================
