---------------------------- MODULE XmlParserProofs ----------------------------
(***************************************************************************)
(* The XML parser and the builder behind it, for any texts, any luck and   *)
(* documents of any size.                                                  *)
(***************************************************************************)
EXTENDS XmlParser, CallbackProofs

Records == [state_stack : Seq(States), buf : Seq(Texts)]
Events  == [sym : {"open", "close", "text"}, val : Tags \union Texts]

(* Only the root, whose tag comes first, may be an llsd element. *)
OneLlsd(r) == \A i \in 1 .. Len(r) : r[i].sym = "open" /\ i > 1 => r[i].val # "llsd"

(* What expat reports: nothing is open before the first tag, and the tag of
   every open element below the root has been read, after the first one. *)
Nested(r, o) ==
  /\ o # << >> => r # << >>
  /\ \A k \in 2 .. Len(o) : \E i \in 1 .. Len(r) : i > 1 /\ r[i].sym = "open" /\ r[i].val = o[k]

(* No handler has failed, in a file whose root is the only llsd element. *)
Quiet == ~warned /\ open # << >> /\ open[1] = "llsd" /\ OneLlsd(read)

(***************************************************************************)
(* The inductive invariant.  Before the first tag both stacks are as they  *)
(* were set up; the builder is as it should be whatever has failed; and    *)
(* as long as all is quiet the two stacks agree.                           *)
(***************************************************************************)
IInv ==
  /\ TypeOK
  /\ status = "parsing" =>
       /\ Ind(Seq(Texts), b)
       /\ read = << >> => p.state_stack = << >> /\ b = EmptyBuilder
       /\ Nested(read, open)
       /\ Quiet => InLockStep(p.state_stack, b.state_stack)

(* The parser's record has a state stack. *)
LEMMA RecordsHaveStack == HasStack(Records)
  BY DEF HasStack, Records

(* What may go wrong with a text concerns no call of a callback. *)
TextLuck == {"malformed", "no_buffer"}

LEMMA TextLuckIsOk ==
  ASSUME NEW luck \in TextLuck
  PROVE  /\ \A x, kind, val, valid_states :
              Deliver(x, kind, val, valid_states, luck) = Deliver(x, kind, val, valid_states, "ok")
         /\ \A x, kind, first : OpenContainer(x, kind, first, luck) = OpenContainer(x, kind, first, "ok")
         /\ \A s, st : PushState(s, st, luck) = PushState(s, st, "ok")
<1>1. /\ luck # "refused" /\ luck # "no_memory"
      /\ luck \notin {"no_container", "no_stacks"} /\ luck \notin {"no_state", "no_stacks"}
      /\ luck \notin {"no_frame", "no_stacks"}
  BY DEF TextLuck
<1>2. \A y, c, k : Takes(y, c, k, luck) <=> Takes(y, c, k, "ok")
  BY <1>1 DEF Takes
<1>3. \A y, c, k, v : add_to_container(y, c, k, v, luck) = add_to_container(y, c, k, v, "ok")
  BY <1>2 DEF add_to_container
<1>4. \A states, y, v : update_state(states, y, v, luck) = update_state(states, y, v, "ok")
  BY <1>3 DEF update_state
<1>5. \A x, kind, val, valid_states :
        Deliver(x, kind, val, valid_states, luck) = Deliver(x, kind, val, valid_states, "ok")
  BY <1>1, <1>4 DEF Deliver
<1>6. \A x, kind, first : OpenContainer(x, kind, first, luck) = OpenContainer(x, kind, first, "ok")
  BY <1>1, <1>5 DEF OpenContainer, PushUnlessLost
<1>7. \A s, st : PushState(s, st, luck) = PushState(s, st, "ok")
  BY <1>1 DEF PushState
<1> QED BY <1>5, <1>6, <1>7

(* The run a handler starts with. *)
LEMMA StartRun ==
  ASSUME IInv, status = "parsing"
  PROVE  /\ Run(Records, Seq(Texts), S0) /\ S0.ok
         /\ S0.p = p /\ S0.b = b /\ p.buf \in Seq(Texts)
<1>1. b \in BuilderType(Seq(Texts))
  BY IndParts DEF IInv
<1> QED BY <1>1 DEF IInv, TypeOK, Records, Run, S0, Start

(* The state llsd_xml_parse_file sets up has the invariant. *)
LEMMA IInvInit == Init => IInv
<1> SUFFICES ASSUME Init PROVE IInv
  OBVIOUS
<1>1. Ind(Seq(Texts), b)
  BY EmptyInd DEF Init
<1>2. Nested(read, open) /\ ~Quiet
  BY DEF Init, Nested, Quiet
<1>3. TypeOK
  <2>1. read = << >> /\ open = << >> /\ warned = FALSE /\ lucky = TRUE /\ status = "parsing"
    BY DEF Init
  <2>2. p \in [state_stack : Seq(States), buf : Seq(Texts)]
    BY DEF Init
  <2>3. \A S : << >> \in Seq(S)
    OBVIOUS
  <2> QED BY <2>1, <2>2, <2>3 DEF TypeOK
<1> QED BY <1>1, <1>2, <1>3 DEF IInv, Init

(* A handler that starts with nothing wrong, and what is left after it. *)
LEMMA HandledKeeps ==
  ASSUME lucky' \in BOOLEAN, IInv, status = "parsing", NEW s, Run(Records, Seq(Texts), s), Handled(s),
         read' \in Seq(Events), read' # << >>, open' \in Seq(Tags), Nested(read', open'),
         Quiet' /\ s.ok => InLockStep(s.p.state_stack, s.b.state_stack)
  PROVE  IInv'
<1>1. s.ok \in BOOLEAN /\ s.p \in Records /\ Ind(Seq(Texts), s.b)
  BY RunFields
<1>2. p' \in Records /\ p'.state_stack = s.p.state_stack
  <2>1. << >> \in Seq(Texts)
    OBVIOUS
  <2>2. CASE s.ok
    <3>1. p' = [s.p EXCEPT !.buf = << >>]
      BY <2>2 DEF Handled
    <3> QED BY <1>1, <2>1, <3>1 DEF Records
  <2>3. CASE ~s.ok
    BY <1>1, <2>3 DEF Handled
  <2> QED BY <2>2, <2>3
<1>3. TypeOK'
  <2>1. warned' \in BOOLEAN /\ status' = "parsing"
    BY DEF Handled, IInv, TypeOK
  <2> QED BY <1>2, <2>1 DEF TypeOK, Records, Events
<1>5. Quiet' => InLockStep(p.state_stack, b.state_stack)'
  <2>1. Quiet' => s.ok
    BY <1>1 DEF Quiet, Handled
  <2> QED BY <1>2, <2>1 DEF Handled
<1> QED BY <1>1, <1>3, <1>5 DEF IInv, Handled

(* The root's tag is the first event, and later ones stay after it. *)
LEMMA AppendOneLlsd ==
  ASSUME NEW r \in Seq(Events), NEW e \in Events, NEW t, t = Append(r, e), OneLlsd(t)
  PROVE  OneLlsd(r) /\ (r # << >> /\ e.sym = "open" => e.val # "llsd")
<1>1. /\ Len(t) = Len(r) + 1 /\ t[Len(r) + 1] = e
      /\ \A i \in 1 .. Len(r) : t[i] = r[i]
  OBVIOUS
<1>2. OneLlsd(r)
  BY <1>1 DEF OneLlsd
<1>3. ASSUME r # << >>, e.sym = "open" PROVE e.val # "llsd"
  <2>1. Len(r) + 1 \in 1 .. Len(t) /\ Len(r) + 1 > 1
    BY <1>1, <1>3
  <2> QED BY <1>1, <1>3, <2>1 DEF OneLlsd
<1> QED BY <1>2, <1>3

(* The events and the open elements stay nested when a tag opens an element,
   ends the innermost one, or text comes in between. *)
LEMMA NestedOpen ==
  ASSUME NEW r \in Seq(Events), NEW o \in Seq(Tags), Nested(r, o), NEW tag \in Tags,
         o = << >> => r = << >>, NEW e \in Events, e = Event("open", tag)
  PROVE  Nested(Append(r, e), Push(o, tag))
<1> DEFINE t == Append(r, e)
           q == Push(o, tag)
<1>1. /\ Len(t) = Len(r) + 1 /\ t[Len(r) + 1] = e /\ t # << >> /\ Len(r) \in Nat
      /\ \A i \in 1 .. Len(r) : t[i] = r[i]
  OBVIOUS
<1>2. /\ Len(q) = Len(o) + 1 /\ q[Len(o) + 1] = tag /\ Len(o) \in Nat
      /\ \A k \in 1 .. Len(o) : q[k] = o[k]
  BY DEF Push
<1>3. o # << >> => Len(r) > 0
  BY DEF Nested
<1>4. e.sym = "open" /\ e.val = tag
  BY DEF Event
<1> HIDE DEF t, q
<1>5. ASSUME NEW k \in 2 .. Len(q)
      PROVE  \E i \in 1 .. Len(t) : i > 1 /\ t[i].sym = "open" /\ t[i].val = q[k]
  <2>1. CASE k = Len(o) + 1
    <3>1. o # << >> /\ Len(r) > 0
      BY <1>2, <1>3, <2>1
    <3>2. Len(r) + 1 \in 1 .. Len(t) /\ Len(r) + 1 > 1
      BY <1>1, <3>1
    <3> QED BY <1>1, <1>2, <1>4, <2>1, <3>2
  <2>2. CASE k # Len(o) + 1
    <3>1. k \in 2 .. Len(o) /\ k \in 1 .. Len(o)
      BY <1>2, <2>2
    <3>2. PICK i \in 1 .. Len(r) : i > 1 /\ r[i].sym = "open" /\ r[i].val = o[k]
      BY <3>1 DEF Nested
    <3>3. i \in 1 .. Len(t)
      BY <1>1
    <3> QED BY <1>1, <1>2, <3>1, <3>2, <3>3
  <2> QED BY <2>1, <2>2
<1> QED BY <1>1, <1>5 DEF Nested, t, q

(* Elements stay nested when one more event is seen and at most the innermost
   element ends. *)
LEMMA NestedKept ==
  ASSUME NEW r \in Seq(Events), NEW o \in Seq(Tags), Nested(r, o), NEW e \in Events,
         NEW q, q = o \/ (Len(o) > 0 /\ q = Pop(o))
  PROVE  Nested(Append(r, e), q)
<1> DEFINE t == Append(r, e)
<1>1. /\ Len(t) = Len(r) + 1 /\ t # << >> /\ Len(r) \in Nat
      /\ \A i \in 1 .. Len(r) : t[i] = r[i]
  OBVIOUS
<1>2. /\ Len(q) \in Nat /\ Len(q) <= Len(o) /\ Len(o) \in Nat
      /\ \A k \in 1 .. Len(q) : q[k] = o[k]
  <2>1. CASE q = o
    BY <2>1
  <2>2. CASE Len(o) > 0 /\ q = Pop(o)
    BY <2>2, PopFacts
  <2> QED BY <2>1, <2>2
<1> HIDE DEF t
<1>3. ASSUME NEW k \in 2 .. Len(q)
      PROVE  \E i \in 1 .. Len(t) : i > 1 /\ t[i].sym = "open" /\ t[i].val = q[k]
  <2>1. k \in 2 .. Len(o) /\ q[k] = o[k]
    BY <1>2
  <2>2. PICK i \in 1 .. Len(r) : i > 1 /\ r[i].sym = "open" /\ r[i].val = o[k]
    BY <2>1 DEF Nested
  <2>3. i \in 1 .. Len(t)
    BY <1>1
  <2> QED BY <1>1, <2>1, <2>2, <2>3
<1> QED BY <1>1, <1>3 DEF Nested, t

(* The start tag of an element that is no llsd element. *)
LEMMA StartKeeps ==
  ASSUME lucky' \in BOOLEAN, IInv, NEW tag \in AllTags, StartsElement(tag), NEW s, Handled(s),
         Run(Records, Seq(Texts), s),
         s.ok /\ tag # "llsd" /\ InLockStep(p.state_stack, b.state_stack) =>
            InLockStep(s.p.state_stack, s.b.state_stack),
         s.ok /\ tag = "llsd" /\ read = << >> => InLockStep(s.p.state_stack, s.b.state_stack)
  PROVE  IInv'
<1> DEFINE e == Event("open", tag)
<1>1. /\ status = "parsing" /\ tag \in Tags
      /\ open = << >> => read = << >>
      /\ read' = Append(read, e) /\ open' = Push(open, tag)
  BY DEF StartsElement
<1>2. /\ read \in Seq(Events) /\ open \in Seq(Tags) /\ Nested(read, open)
      /\ e \in Events /\ e.sym = "open" /\ e.val = tag
  BY <1>1 DEF IInv, TypeOK, Events, Event
<1>3. /\ read' \in Seq(Events) /\ read' # << >> /\ open' \in Seq(Tags)
      /\ Nested(read', open')
  <2>1. Nested(Append(read, e), Push(open, tag))
    BY <1>1, <1>2, NestedOpen
  <2> HIDE DEF e
  <2> QED BY <1>1, <1>2, <2>1 DEF Push
<1>4. ASSUME Quiet', s.ok PROVE InLockStep(s.p.state_stack, s.b.state_stack)
  <2>1. ~warned /\ open'[1] = "llsd" /\ OneLlsd(read')
    BY <1>4 DEF Quiet, Handled
  <2>2. OneLlsd(read) /\ (read # << >> => tag # "llsd")
    BY <1>1, <1>2, <2>1, AppendOneLlsd
  <2>3. CASE tag = "llsd"
    BY <1>4, <2>2, <2>3
  <2>4. CASE tag # "llsd"
    <3>1. open # << >>
      <4>1. SUFFICES ASSUME open = << >> PROVE FALSE
        OBVIOUS
      <4>2. open' = <<tag>>
        BY <1>1, <4>1 DEF Push
      <4> QED BY <2>1, <2>4, <4>2
    <3>2. open'[1] = open[1]
      BY <1>1, <1>2, <3>1 DEF Push
    <3>3. InLockStep(p.state_stack, b.state_stack)
      BY <1>1, <2>1, <2>2, <3>1, <3>2 DEF IInv, Quiet
    <3> QED BY <1>4, <2>4, <3>3
  <2> QED BY <2>3, <2>4
<1> QED BY <1>1, <1>3, <1>4, HandledKeeps

(* The end tag of an element. *)
LEMMA EndKeeps ==
  ASSUME lucky' \in BOOLEAN, IInv, NEW tag \in AllTags, EndsElement(tag), NEW s, Handled(s),
         Run(Records, Seq(Texts), s),
         s.ok /\ tag # "llsd" /\ InLockStep(p.state_stack, b.state_stack) =>
            InLockStep(s.p.state_stack, s.b.state_stack)
  PROVE  IInv'
<1> DEFINE e == Event("close", tag)
<1>1. /\ status = "parsing" /\ Top(open) = tag
      /\ read' = Append(read, e) /\ open' = Pop(open)
  BY DEF EndsElement
<1>2. read \in Seq(Events) /\ open \in Seq(Tags) /\ Nested(read, open)
  BY <1>1 DEF IInv, TypeOK, Events
<1>3. open # << >> /\ Len(open) > 0 /\ Len(open) \in Nat
  <2>1. tag # NoState
    BY DEF AllTags, NoState
  <2> QED BY <1>1, <1>2, <2>1 DEF Top
<1>4. open[Len(open)] = tag /\ tag \in Tags
  BY <1>1, <1>2, <1>3 DEF Top
<1>5. e \in Events /\ e.sym = "close"
  BY <1>4 DEF Events, Event
<1>6. /\ Len(open') = Len(open) - 1 /\ open' \in Seq(Tags)
      /\ \A k \in 1 .. Len(open) - 1 : open'[k] = open[k]
  BY <1>1, <1>2, <1>3, PopFacts
<1>7. /\ read' \in Seq(Events) /\ read' # << >> /\ open' \in Seq(Tags)
      /\ Nested(read', open')
  <2>1. Nested(Append(read, e), Pop(open))
    BY <1>2, <1>3, <1>5, NestedKept
  <2> HIDE DEF e
  <2> QED BY <1>1, <1>2, <1>5, <1>6, <2>1
<1>8. ASSUME Quiet', s.ok PROVE InLockStep(s.p.state_stack, s.b.state_stack)
  <2>1. ~warned /\ open' # << >> /\ open'[1] = "llsd" /\ OneLlsd(read')
    BY <1>8 DEF Quiet, Handled
  <2>2. OneLlsd(read)
    BY <1>1, <1>2, <1>5, <2>1, AppendOneLlsd
  <2>3. Len(open) > 1 /\ open[1] = "llsd"
    <3>1. Len(open') > 0
      BY <1>6, <2>1
    <3> QED BY <1>3, <1>6, <2>1, <3>1
  <2>4. InLockStep(p.state_stack, b.state_stack)
    BY <1>1, <1>3, <2>1, <2>2, <2>3 DEF IInv, Quiet
  <2>5. tag # "llsd"
    <3>1. Len(open) \in 2 .. Len(open)
      BY <1>3, <2>3
    <3>2. PICK i \in 1 .. Len(read) : i > 1 /\ read[i].sym = "open" /\ read[i].val = tag
      BY <1>2, <1>4, <3>1 DEF Nested
    <3> QED BY <2>2, <3>2 DEF OneLlsd
  <2> QED BY <1>8, <2>4, <2>5
<1> QED BY <1>1, <1>7, <1>8, HandledKeeps

-----------------------------------------------------------------------------
(* begin_value and end_value, with the states the handlers pass them. *)
LEMMA StepsFollow ==
  ASSUME NEW V, NEW s, Run(Records, V, s)
  PROVE  /\ \A valid_states \in {BEGIN_VALUE_STATES, BEGIN_STRING_STATES} :
              Follows(Records, V, s, begin_value(s, valid_states))
         /\ \A valid_states \in {END_VALUE_STATES, END_STRING_STATES} :
              Follows(Records, V, s, end_value(s, valid_states))
<1>1. ASSUME NEW valid_states \in {BEGIN_VALUE_STATES, BEGIN_STRING_STATES}
      PROVE  Follows(Records, V, s, begin_value(s, valid_states))
  <2>1. BeginOf \in {BeginOf, EndOf} /\ valid_states \in SUBSET (DOMAIN BeginOf)
    BY <1>1 DEF BeginOf, BEGIN_VALUE_STATES, BEGIN_STRING_STATES
  <2>2. ASSUME NEW y, y = Step(s, valid_states, BeginOf) PROVE Follows(Records, V, s, y)
    BY <2>1, <2>2, RecordsHaveStack, StepFollows
  <2> QED BY <2>2 DEF begin_value
<1>2. ASSUME NEW valid_states \in {END_VALUE_STATES, END_STRING_STATES}
      PROVE  Follows(Records, V, s, end_value(s, valid_states))
  <2>1. EndOf \in {BeginOf, EndOf} /\ valid_states \in SUBSET (DOMAIN EndOf)
    BY <1>2 DEF EndOf, END_VALUE_STATES, END_STRING_STATES
  <2>2. ASSUME NEW y, y = Step(s, valid_states, EndOf) PROVE Follows(Records, V, s, y)
    BY <2>1, <2>2, RecordsHaveStack, StepFollows
  <2> QED BY <2>2 DEF end_value
<1> QED BY <1>1, <1>2

(* A value that is given and noted, whatever becomes of its text. *)
LEMMA GivenFollows ==
  ASSUME NEW V, NEW s, Run(Records, V, s),
         NEW kind \in Kinds, NEW val \in V \union {"none"},
         NEW valid_states \in {VALUE_STATES, STRING_STATES},
         valid_states = STRING_STATES => kind = "string",
         NEW luck \in Luck \union TextLuck,
         NEW y, y = value(Call(s, Deliver(s.b, kind, val, valid_states, luck)), valid_states)
  PROVE  Follows(Records, V, s, y)
<1>1. CASE luck \in Luck
  BY <1>1, RecordsHaveStack, ValueFollows
<1>2. CASE luck \in TextLuck
  <2>1. "ok" \in Luck
    BY DEF Luck
  <2>2. y = value(Call(s, Deliver(s.b, kind, val, valid_states, "ok")), valid_states)
    BY <1>2, TextLuckIsOk
  <2> QED BY <2>1, <2>2, RecordsHaveStack, ValueFollows
<1> QED BY <1>1, <1>2

(* A container that is begun. *)
LEMMA OpenFollows ==
  ASSUME NEW V, NEW s, Run(Records, V, s), NEW luck \in Luck \union TextLuck
  PROVE  /\ Follows(Records, V, s, PushState(Call(s, llsd_array_begin_fn(s.b, luck)), "ARRAY_BEGIN", luck))
         /\ Follows(Records, V, s, PushState(Call(s, llsd_map_begin_fn(s.b, luck)), "MAP_BEGIN", luck))
<1>1. ASSUME NEW l \in Luck, NEW kind \in {"array", "map"},
             NEW first, first = IF kind = "array" THEN "ARRAY_BEGIN" ELSE "MAP_BEGIN",
             NEW y, y = PushState(Call(s, OpenContainer(s.b, kind, first, l)), first, l)
      PROVE  Follows(Records, V, s, y)
  BY <1>1, RecordsHaveStack, BeginFollows
<1>2. "ok" \in Luck
  BY DEF Luck
<1>3. PICK l \in Luck : /\ \A kind, first : OpenContainer(s.b, kind, first, luck) = OpenContainer(s.b, kind, first, l)
                        /\ \A c, first : PushState(c, first, luck) = PushState(c, first, l)
  BY <1>2, TextLuckIsOk
<1>4. Follows(Records, V, s, PushState(Call(s, OpenContainer(s.b, "array", "ARRAY_BEGIN", l)), "ARRAY_BEGIN", l))
  BY <1>1
<1>5. Follows(Records, V, s, PushState(Call(s, OpenContainer(s.b, "map", "MAP_BEGIN", l)), "MAP_BEGIN", l))
  BY <1>1
<1> QED BY <1>3, <1>4, <1>5 DEF llsd_array_begin_fn, llsd_map_begin_fn

(* The start tags of what the builder is told of. *)
LEMMA StartTagKeeps ==
  ASSUME lucky' \in BOOLEAN, IInv, NEW tag \in AllTags, tag # "llsd", StartsElement(tag), NEW s, Handled(s),
         Follows(Records, Seq(Texts), S0, s)
  PROVE  IInv'
<1>1. status = "parsing"
  BY DEF StartsElement
<1>2. S0.p = p /\ S0.b = b
  BY <1>1, StartRun
<1>3. /\ Run(Records, Seq(Texts), s)
      /\ s.ok /\ InLockStep(p.state_stack, b.state_stack) =>
           InLockStep(s.p.state_stack, s.b.state_stack)
  BY <1>2 DEF Follows
<1> QED BY <1>3, StartKeeps

(* And their end tags. *)
LEMMA EndTagKeeps ==
  ASSUME lucky' \in BOOLEAN, IInv, NEW tag \in AllTags, tag # "llsd", EndsElement(tag), NEW s, Handled(s),
         Follows(Records, Seq(Texts), S0, s)
  PROVE  IInv'
<1>1. status = "parsing"
  BY DEF EndsElement
<1>2. S0.p = p /\ S0.b = b
  BY <1>1, StartRun
<1>3. /\ Run(Records, Seq(Texts), s)
      /\ s.ok /\ InLockStep(p.state_stack, b.state_stack) =>
           InLockStep(s.p.state_stack, s.b.state_stack)
  BY <1>2 DEF Follows
<1> QED BY <1>3, EndKeeps

(* The handlers that do nothing follow, too. *)
LEMMA NothingFollows ==
  ASSUME NEW Q, NEW V, NEW s, Run(Q, V, s)
  PROVE  Follows(Q, V, s, s)
  BY DEF Follows

(* When the stacks grow, only values, containers and texts may fail. *)
LEMMA AnyLuck ==
  ASSUME StacksGrow
  PROVE  Lucks \subseteq Luck \union TextLuck
  BY LucksAssumption DEF StacksGrow, TextLuck

(* Every start tag keeps the invariant. *)
LEMMA StartTags ==
  ASSUME StacksGrow, lucky' \in BOOLEAN, IInv,
         \/ StartScalar \/ StartString \/ StartUnknown
         \/ \E luck \in Lucks : StartLlsd(luck) \/ StartArray(luck) \/ StartMap(luck)
  PROVE  IInv'
<1> DEFINE V == Seq(Texts)
           n == begin_value(S0, BEGIN_VALUE_STATES)
           m == begin_value(S0, BEGIN_STRING_STATES)
<1>1. status = "parsing"
  BY DEF StartLlsd, StartScalar, StartString, StartUnknown, StartArray, StartMap, StartsElement
<1>2. /\ Run(Records, V, S0) /\ S0.ok /\ S0.p = p /\ S0.b = b
  BY <1>1, StartRun
<1>3. Follows(Records, V, S0, n) /\ Follows(Records, V, S0, m)
  BY <1>2, StepsFollow
<1>4. /\ \A tag \in {"scalar", "string", "array", "map", "unknown"} : tag \in AllTags /\ tag # "llsd"
      /\ "llsd" \in AllTags
  BY DEF AllTags
<1> HIDE DEF n, m
<1>5. ASSUME NEW luck \in Lucks, StartLlsd(luck) PROVE IInv'
  <2> DEFINE s == PushState(S0, "TOP_LEVEL", luck)
  <2>1. StartsElement("llsd") /\ Handled(s)
    BY <1>5 DEF StartLlsd
  <2>2. "TOP_LEVEL" \in States
    BY DEF States
  <2>3. Restacked(Records, V, S0, s, Push(p.state_stack, "TOP_LEVEL"))
    <3>1. luck \in Luck \union TextLuck /\ "ok" \in Luck
      BY AnyLuck DEF Luck
    <3>2. \A l \in Luck : Restacked(Records, V, S0, PushState(S0, "TOP_LEVEL", l), Push(p.state_stack, "TOP_LEVEL"))
      BY <1>2, <2>2, RecordsHaveStack, StackRuns
    <3> QED BY <3>1, <3>2, TextLuckIsOk
  <2>4. /\ Run(Records, V, s) /\ s.b = b
        /\ s.p.state_stack = Push(p.state_stack, "TOP_LEVEL")
    BY <1>2, <2>3 DEF Restacked
  <2> HIDE DEF s
  <2>5. ASSUME read = << >> PROVE InLockStep(s.p.state_stack, s.b.state_stack)
    <3>1. p.state_stack = << >> /\ b.state_stack = <<"TOP_LEVEL">>
      BY <1>1, <2>5 DEF IInv, EmptyBuilder
    <3>2. s.p.state_stack = <<"TOP_LEVEL">> /\ s.b.state_stack = <<"TOP_LEVEL">>
      BY <2>4, <3>1 DEF Push
    <3> QED BY <3>2 DEF InLockStep
  <2> QED BY <1>4, <2>1, <2>4, <2>5, StartKeeps
<1>6. CASE StartScalar
  BY <1>3, <1>4, <1>6, StartTagKeeps DEF StartScalar, n
<1>7. CASE StartString
  BY <1>3, <1>4, <1>7, StartTagKeeps DEF StartString, m
<1>8. CASE StartUnknown
  <2>1. Follows(Records, V, S0, S0)
    BY <1>2, NothingFollows
  <2> QED BY <1>4, <1>8, <2>1, StartTagKeeps DEF StartUnknown
<1>9. ASSUME NEW luck \in Lucks, StartArray(luck) \/ StartMap(luck) PROVE IInv'
  <2> DEFINE a == PushState(Call(n, llsd_array_begin_fn(n.b, luck)), "ARRAY_BEGIN", luck)
             k == PushState(Call(n, llsd_map_begin_fn(n.b, luck)), "MAP_BEGIN", luck)
  <2>1. luck \in Luck \union TextLuck /\ Run(Records, V, n)
    BY <1>3, AnyLuck DEF Follows
  <2>2. Follows(Records, V, n, a) /\ Follows(Records, V, n, k)
    BY <2>1, OpenFollows
  <2>3. \/ StartsElement("array") /\ Handled(a)
        \/ StartsElement("map") /\ Handled(k)
    BY <1>9 DEF StartArray, StartMap, n
  <2> HIDE DEF a, k
  <2>4. Follows(Records, V, S0, a) /\ Follows(Records, V, S0, k)
    BY <1>3, <2>2, FollowsOn
  <2>5. CASE StartsElement("array") /\ Handled(a)
    BY <1>4, <2>4, <2>5, StartTagKeeps
  <2>6. CASE StartsElement("map") /\ Handled(k)
    BY <1>4, <2>4, <2>6, StartTagKeeps
  <2> QED BY <2>3, <2>5, <2>6
<1> QED BY <1>5, <1>6, <1>7, <1>8, <1>9

(* Every end tag keeps the invariant. *)
LEMMA EndTags ==
  ASSUME StacksGrow, lucky' \in BOOLEAN, IInv,
         \/ EndLlsd \/ EndArray \/ EndMap \/ EndUnknown
         \/ \E luck \in Lucks : EndScalar(luck) \/ EndString(luck)
  PROVE  IInv'
<1> DEFINE V == Seq(Texts)
<1>1. status = "parsing"
  BY DEF EndLlsd, EndArray, EndMap, EndUnknown, EndScalar, EndString, EndsElement
<1>2. /\ Run(Records, V, S0) /\ S0.ok /\ S0.p = p /\ S0.b = b /\ p.buf \in V
  BY <1>1, StartRun
<1>3. /\ \A tag \in {"scalar", "string", "array", "map", "unknown"} : tag \in AllTags /\ tag # "llsd"
      /\ "llsd" \in AllTags
  BY DEF AllTags
<1>4. CASE EndLlsd
  <2> DEFINE s == PopState(S0)
  <2>1. "TOP_LEVEL" \in States
    BY DEF States
  <2>2. Restacked(Records, V, S0, s, Pop(S0.p.state_stack))
    BY <1>2, <2>1, RecordsHaveStack, StackRuns
  <2>3. Run(Records, V, s)
    BY <2>2 DEF Restacked
  <2>4. EndsElement("llsd") /\ Handled(s)
    BY <1>4 DEF EndLlsd
  <2> HIDE DEF s
  <2> QED BY <1>3, <2>3, <2>4, EndKeeps
<1>5. CASE EndUnknown
  <2>1. Follows(Records, V, S0, S0)
    BY <1>2, NothingFollows
  <2> QED BY <1>3, <1>5, <2>1, EndTagKeeps DEF EndUnknown
<1>6. CASE EndArray \/ EndMap
  <2> DEFINE a == value(PopState(Call(S0, llsd_array_end_fn(b))), VALUE_STATES)
             m == value(PopState(Call(S0, llsd_map_end_fn(b))), VALUE_STATES)
             c == end_value(a, END_VALUE_STATES)
             k == end_value(m, END_VALUE_STATES)
  <2>1. ASSUME NEW valid_states, ClosingStates(valid_states),
               NEW y, y = value(PopState(Call(S0, CloseContainer(S0.b, valid_states))), VALUE_STATES)
        PROVE  Follows(Records, V, S0, y)
    BY <1>2, <2>1, RecordsHaveStack, CloseFollows
  <2>2. Follows(Records, V, S0, a) /\ Follows(Records, V, S0, m)
    BY <1>2, <2>1 DEF llsd_array_end_fn, llsd_map_end_fn, ClosingStates
  <2>3. \/ EndsElement("array") /\ Handled(c)
        \/ EndsElement("map") /\ Handled(k)
    BY <1>6 DEF EndArray, EndMap
  <2> HIDE DEF a, m
  <2>4. Follows(Records, V, a, c) /\ Follows(Records, V, m, k)
    BY <2>2, StepsFollow DEF Follows
  <2> HIDE DEF c, k
  <2>5. Follows(Records, V, S0, c) /\ Follows(Records, V, S0, k)
    BY <2>2, <2>4, FollowsOn
  <2>6. CASE EndsElement("array") /\ Handled(c)
    BY <1>3, <2>5, <2>6, EndTagKeeps
  <2>7. CASE EndsElement("map") /\ Handled(k)
    BY <1>3, <2>5, <2>7, EndTagKeeps
  <2> QED BY <2>3, <2>6, <2>7
<1>7. ASSUME NEW luck \in Lucks, EndString(luck) PROVE IInv'
  <2>0. PICK text \in TextsRead(luck) :
          EndsElement("string") /\ Handled(end_value(
            value(Call(S0, llsd_string_fn(b, text, luck)), STRING_STATES), END_STRING_STATES))
    BY <1>7 DEF EndString
  <2>9. text \in V
    BY <1>2 DEF TextsRead
  <2> DEFINE d == value(Call(S0, llsd_string_fn(b, text, luck)), STRING_STATES)
             s == end_value(d, END_STRING_STATES)
  <2>1. luck \in Luck \union TextLuck /\ "string" \in Kinds
    BY AnyLuck DEF Kinds
  <2>2. d = value(Call(S0, Deliver(S0.b, "string", text, STRING_STATES, luck)), STRING_STATES)
    BY <1>2 DEF llsd_string_fn
  <2> HIDE DEF d
  <2>3. Follows(Records, V, S0, d)
    BY <1>2, <2>1, <2>2, <2>9, GivenFollows
  <2>4. Follows(Records, V, d, s)
    BY <2>3, StepsFollow DEF Follows
  <2>5. EndsElement("string") /\ Handled(s)
    BY <2>0 DEF d
  <2> HIDE DEF s
  <2>6. Follows(Records, V, S0, s)
    BY <2>3, <2>4, FollowsOn
  <2> QED BY <1>3, <2>5, <2>6, EndTagKeeps
<1>8. ASSUME NEW luck \in Lucks, EndScalar(luck) PROVE IInv'
  <2>0. PICK text \in TextsRead(luck) :
          EndsElement("scalar") /\ Handled(end_value(value(
            Call(Check(S0, Converts(luck)), scalar_fn(Check(S0, Converts(luck)).b, text, luck)),
            VALUE_STATES), END_VALUE_STATES))
    BY <1>8 DEF EndScalar
  <2>9. text \in V
    BY <1>2 DEF TextsRead
  <2> DEFINE t == Check(S0, Converts(luck))
             d == value(Call(t, scalar_fn(t.b, text, luck)), VALUE_STATES)
             s == end_value(d, END_VALUE_STATES)
  <2>1. luck \in Luck \union TextLuck /\ "scalar" \in Kinds /\ VALUE_STATES # STRING_STATES
    BY AnyLuck DEF Kinds, VALUE_STATES, STRING_STATES
  <2>2. Follows(Records, V, S0, t)
    <3>1. CASE Converts(luck)
      <4>1. t = S0
        BY <3>1 DEF Check
      <4> QED BY <1>2, <4>1, NothingFollows
    <3>2. CASE ~Converts(luck)
      <4>1. t = Stop(S0)
        BY <1>2, <3>2 DEF Check
      <4> QED BY <1>2, <4>1, StopRun DEF Follows
    <3> QED BY <3>1, <3>2
  <2> HIDE DEF t
  <2>3. d = value(Call(t, Deliver(t.b, "scalar", text, VALUE_STATES, luck)), VALUE_STATES)
    BY DEF scalar_fn
  <2>4. Run(Records, V, t)
    BY <2>2 DEF Follows
  <2> HIDE DEF d
  <2>5. Follows(Records, V, t, d)
    BY <2>9, <2>1, <2>3, <2>4, GivenFollows
  <2>6. Follows(Records, V, d, s)
    BY <2>5, StepsFollow DEF Follows
  <2>7. EndsElement("scalar") /\ Handled(s)
    BY <2>0 DEF t, d
  <2> HIDE DEF s
  <2>8. Follows(Records, V, S0, s)
    <3>1. Follows(Records, V, S0, d)
      BY <2>2, <2>5, FollowsOn
    <3> QED BY <2>6, <3>1, FollowsOn
  <2> QED BY <1>3, <2>7, <2>8, EndTagKeeps
<1> QED BY <1>4, <1>5, <1>6, <1>7, <1>8

(* Character data only grows the buffer. *)
LEMMA TextKeeps ==
  ASSUME lucky' \in BOOLEAN, IInv, NEW text \in Texts, NEW luck \in Lucks, CharacterData(text, luck)
  PROVE  IInv'
<1> DEFINE e == Event("text", text)
<1>1. /\ status = "parsing" /\ status' = status /\ open # << >>
      /\ read' = Append(read, e) /\ open' = open /\ b' = b
      /\ \/ warned' = warned /\ p' = [p EXCEPT !.buf = Append(p.buf, text)]
         \/ warned' = TRUE /\ p' = p
  BY DEF CharacterData
<1>2. read \in Seq(Events) /\ open \in Seq(Tags) /\ Nested(read, open) /\ p \in Records
  BY <1>1 DEF IInv, TypeOK, Events, Records
<1>3. e \in Events /\ e.sym = "text"
  BY DEF Events, Event
<1>4. p' \in Records /\ p'.state_stack = p.state_stack
  <2>1. Append(p.buf, text) \in Seq(Texts)
    BY <1>2 DEF Records
  <2> QED BY <1>1, <1>2, <2>1 DEF Records
<1>5. read' \in Seq(Events) /\ read' # << >>
  BY <1>1, <1>2, <1>3
<1>6. Nested(read', open')
  <2>1. Nested(Append(read, e), open)
    BY <1>2, <1>3, NestedKept
  <2> HIDE DEF e
  <2> QED BY <1>1, <2>1
<1>7. TypeOK'
  BY <1>1, <1>2, <1>4, <1>5 DEF IInv, TypeOK, Events, Records
<1>8. Quiet' => Quiet
  <2>1. SUFFICES ASSUME Quiet' PROVE Quiet
    OBVIOUS
  <2>2. OneLlsd(read')
    BY <2>1 DEF Quiet
  <2>3. OneLlsd(read)
    BY <1>1, <1>2, <1>3, <2>2, AppendOneLlsd
  <2> QED BY <1>1, <2>1, <2>3 DEF Quiet
<1> QED BY <1>1, <1>4, <1>5, <1>6, <1>7, <1>8 DEF IInv

(* Every step keeps the invariant. *)
LEMMA IInvNext ==
  ASSUME StacksGrow
  PROVE  IInv /\ [Next]_vars => IInv'
<1> SUFFICES ASSUME IInv, [Next]_vars PROVE IInv'
  OBVIOUS
<1>1. CASE UNCHANGED vars
  BY <1>1 DEF vars, IInv, TypeOK, Quiet
<1>2. ASSUME Next PROVE lucky' \in BOOLEAN
  BY <1>2 DEF Next, IInv, TypeOK
<1>3. CASE EndOfFile /\ Next
  BY <1>2, <1>3 DEF EndOfFile, IInv, TypeOK, Outcome
<1> QED BY <1>1, <1>2, <1>3, StartTags, EndTags, TextKeeps DEF Next

(* The invariant holds always. *)
LEMMA IInvAlways ==
  ASSUME StacksGrow
  PROVE  Spec => []IInv
  BY IInvInit, IInvNext, PTL DEF Spec

(* TypeOK of the XML parser: whatever tags and texts expat reports, and
   however many handlers have failed, its stack holds states only. *)
THEOREM TypeCorrect ==
  ASSUME StacksGrow
  PROVE  Spec => []TypeOK
<1>1. IInv => TypeOK
  BY DEF IInv
<1> QED BY <1>1, IInvAlways, PTL

(* As long as no handler has failed and the stacks grow, in a file with one
   llsd element, the root, llsd_xml_parser.c and llsd_parser.c are at the same place. *)
THEOREM InLockStepUntilWarned ==
  ASSUME StacksGrow
  PROVE  Spec => []LockStepUntilWarned
<1>1. IInv => LockStepUntilWarned
  <2>1. ASSUME IInv, status = "parsing", ~warned, open # << >>, open[1] = "llsd",
               \A i \in EventsOf("open") : i > 1 => read[i].val # "llsd"
        PROVE  InLockStep(p.state_stack, b.state_stack)
    <3>1. read \in Seq(Events)
      BY <2>1 DEF IInv, TypeOK, Events
    <3>2. OneLlsd(read)
      BY <2>1, <3>1 DEF OneLlsd, EventsOf
    <3> QED BY <2>1, <3>2 DEF IInv, Quiet
  <2> QED BY <2>1 DEF LockStepUntilWarned
<1> QED BY <1>1, IInvAlways, PTL
====
