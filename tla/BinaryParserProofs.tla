-------------------------- MODULE BinaryParserProofs --------------------------
(***************************************************************************)
(* The binary parser and the builder behind it, for any payloads, any luck *)
(* and documents of any length.                                            *)
(***************************************************************************)
EXTENDS BinaryParser, CallbackProofs

Records == [state_stack : Seq(States)]

(* The states between two tokens: every value has been ended. *)
RestStates == {"TOP_LEVEL", "ARRAY_BEGIN", "ARRAY_VALUE_END",
               "MAP_BEGIN", "MAP_KEY_END", "MAP_VALUE_END"}

(***************************************************************************)
(* The inductive invariant.  LockStep alone is not one: that the builder   *)
(* refuses what the parser would have to refuse rests on the builder's own *)
(* invariant.  Once the parse has ended nothing is left to say.            *)
(***************************************************************************)
IInv ==
  /\ TypeOK
  /\ status = "parsing" =>
       /\ Ind(Values, b)
       /\ InLockStep(p.state_stack, b.state_stack)
       /\ Top(p.state_stack) \in RestStates

(* The parser's record has a state stack. *)
LEMMA RecordsHaveStack == HasStack(Records)
  BY DEF HasStack, Records

(* The state llsd_parse_from_file sets up has the invariant. *)
LEMMA IInvInit == Init => IInv
<1> SUFFICES ASSUME Init PROVE IInv
  OBVIOUS
<1>1. Ind(Values, b)
  BY EmptyInd DEF Init
<1>2. p.state_stack = <<"TOP_LEVEL">> /\ b.state_stack = <<"TOP_LEVEL">>
  BY DEF Init, EmptyBuilder
<1>3. InLockStep(p.state_stack, b.state_stack) /\ Top(p.state_stack) \in RestStates
  BY <1>2 DEF InLockStep, Top, RestStates
<1>4. TypeOK
  BY DEF Init, TypeOK, States
<1> QED BY <1>1, <1>3, <1>4 DEF IInv

(* The tokens of the parser's loop. *)
LEMMA TokenFacts ==
  /\ \A val \in Values : Token("scalar", val) \in Tokens /\ Token("string", val) \in Tokens
  /\ \A sym \in {"[", "]", "{", "}", "garbage"} : Token(sym, "none") \in Tokens
  BY DEF Tokens, Token

(* The run a handler starts with. *)
LEMMA StartLocked ==
  ASSUME IInv, status = "parsing"
  PROVE  Locked(Records, Values, S0) /\ S0.ok
<1>1. b \in BuilderType(Values)
  BY IndParts DEF IInv
<1>2. Run(Records, Values, S0)
  BY <1>1 DEF IInv, TypeOK, Records, Run, S0, Start
<1> QED BY <1>2 DEF Locked, IInv, S0, Start

(* One turn of the loop, whatever the token. *)
LEMMA TurnKeeps ==
  ASSUME IInv, NEW token \in Tokens, NEW luck, NEW s, Turn(token, luck, s),
         Run(Records, Values, s),
         s.ok => /\ InLockStep(s.p.state_stack, s.b.state_stack)
                 /\ Top(s.p.state_stack) \in RestStates
  PROVE  IInv'
<1>1. s.ok \in BOOLEAN /\ s.p \in Records /\ Ind(Values, s.b)
  BY RunFields
<1>2. read' \in Seq(Tokens) /\ p' \in Records /\ lucky' \in BOOLEAN
  BY <1>1 DEF Turn, IInv, TypeOK
<1>3. CASE s.ok
  BY <1>1, <1>2, <1>3 DEF Turn, IInv, TypeOK, Records
<1>4. CASE ~s.ok
  BY <1>1, <1>2, <1>4 DEF Turn, IInv, TypeOK, Records, Outcome
<1> QED BY <1>1, <1>3, <1>4

(* A value that is ended where it stands. *)
LEMMA EndedRests ==
  ASSUME NEW s, Locked(Records, Values, s),
         NEW valid_states \in {END_VALUE_STATES, END_STRING_STATES},
         NEW y, y = end_value(s, valid_states)
  PROVE  /\ Run(Records, Values, y)
         /\ y.ok => /\ InLockStep(y.p.state_stack, y.b.state_stack)
                    /\ Top(y.p.state_stack) \in RestStates
<1>1. EndOf \in {BeginOf, EndOf} /\ valid_states \in SUBSET (DOMAIN EndOf)
  BY DEF EndOf, END_VALUE_STATES, END_STRING_STATES
<1>2. y = Step(s, valid_states, EndOf)
  BY DEF end_value
<1>3. /\ Locked(Records, Values, y)
      /\ y.ok => \E st \in valid_states : Top(y.p.state_stack) = EndOf[st]
  BY <1>1, <1>2, RecordsHaveStack, StepLocked
<1>4. \A st \in valid_states : EndOf[st] \in RestStates
  BY DEF EndOf, RestStates, END_VALUE_STATES, END_STRING_STATES
<1> QED BY <1>3, <1>4 DEF Locked

(* A value that begins. *)
LEMMA BegunLocked ==
  ASSUME NEW s, Locked(Records, Values, s),
         NEW valid_states \in {BEGIN_VALUE_STATES, BEGIN_STRING_STATES},
         NEW y, y = begin_value(s, valid_states)
  PROVE  Locked(Records, Values, y)
<1>1. BeginOf \in {BeginOf, EndOf} /\ valid_states \in SUBSET (DOMAIN BeginOf)
  BY DEF BeginOf, BEGIN_VALUE_STATES, BEGIN_STRING_STATES
<1>2. y = Step(s, valid_states, BeginOf)
  BY DEF begin_value
<1> QED BY <1>1, <1>2, RecordsHaveStack, StepLocked

(* Every step keeps the invariant. *)
LEMMA IInvNext ==
  ASSUME StacksGrow
  PROVE  IInv /\ [Next]_vars => IInv'
<1> SUFFICES ASSUME IInv, [Next]_vars PROVE IInv'
  OBVIOUS
<1> USE RecordsHaveStack
<1>0. Lucks \subseteq Luck
  BY LucksAssumption DEF StacksGrow
<1>1. CASE UNCHANGED vars
  BY <1>1 DEF vars, IInv, TypeOK
<1>2. ASSUME NEW val \in Values, NEW luck \in Lucks, Scalar(val, luck)
      PROVE  IInv'
  <2> DEFINE s1 == begin_value(S0, BEGIN_VALUE_STATES)
             s2 == value(Call(s1, scalar_fn(s1.b, val, luck)), VALUE_STATES)
             s3 == end_value(s2, END_VALUE_STATES)
  <2>1. Turn(Token("scalar", val), luck, s3) /\ Token("scalar", val) \in Tokens
        /\ status = "parsing" /\ luck \in Luck
    BY <1>2, <1>0, TokenFacts DEF Scalar, Turn
  <2>2. Locked(Records, Values, s1)
    BY <2>1, StartLocked, BegunLocked
  <2> HIDE DEF s1
  <2>3. Locked(Records, Values, s2)
    <3>1. s2 = value(Call(s1, Deliver(s1.b, "scalar", val, VALUE_STATES, luck)), VALUE_STATES)
      BY DEF scalar_fn
    <3>2. "scalar" \in Kinds /\ VALUE_STATES # STRING_STATES
      BY DEF Kinds, VALUE_STATES, STRING_STATES
    <3> HIDE DEF s2
    <3> QED BY <2>1, <2>2, <3>1, <3>2, ValueLocked
  <2> HIDE DEF s2
  <2>4. /\ Run(Records, Values, s3)
        /\ s3.ok => /\ InLockStep(s3.p.state_stack, s3.b.state_stack)
                    /\ Top(s3.p.state_stack) \in RestStates
    BY <2>3, EndedRests
  <2> HIDE DEF s3
  <2> QED BY <2>1, <2>4, TurnKeeps
<1>3. ASSUME NEW val \in Values, NEW luck \in Lucks, String(val, luck)
      PROVE  IInv'
  <2> DEFINE s1 == begin_value(S0, BEGIN_STRING_STATES)
             s2 == value(Call(s1, llsd_string_fn(s1.b, val, luck)), STRING_STATES)
             s3 == end_value(s2, END_STRING_STATES)
  <2>1. Turn(Token("string", val), luck, s3) /\ Token("string", val) \in Tokens
        /\ status = "parsing" /\ luck \in Luck
    BY <1>3, <1>0, TokenFacts DEF String, Turn
  <2>2. Locked(Records, Values, s1)
    BY <2>1, StartLocked, BegunLocked
  <2> HIDE DEF s1
  <2>3. Locked(Records, Values, s2)
    <3>1. s2 = value(Call(s1, Deliver(s1.b, "string", val, STRING_STATES, luck)), STRING_STATES)
      BY DEF llsd_string_fn
    <3>2. "string" \in Kinds
      BY DEF Kinds
    <3> HIDE DEF s2
    <3> QED BY <2>1, <2>2, <3>1, <3>2, ValueLocked
  <2> HIDE DEF s2
  <2>4. /\ Run(Records, Values, s3)
        /\ s3.ok => /\ InLockStep(s3.p.state_stack, s3.b.state_stack)
                    /\ Top(s3.p.state_stack) \in RestStates
    BY <2>3, EndedRests
  <2> HIDE DEF s3
  <2> QED BY <2>1, <2>4, TurnKeeps
<1>4. ASSUME NEW luck \in Lucks, OpenArray(luck) \/ OpenMap(luck)
      PROVE  IInv'
  <2> DEFINE s1 == begin_value(S0, BEGIN_VALUE_STATES)
             a  == PushState(Call(s1, llsd_array_begin_fn(s1.b, luck)), "ARRAY_BEGIN", luck)
             m  == PushState(Call(s1, llsd_map_begin_fn(s1.b, luck)), "MAP_BEGIN", luck)
  <2>1. /\ status = "parsing" /\ luck \in Luck
        /\ Turn(Token("[", "none"), luck, a) \/ Turn(Token("{", "none"), luck, m)
        /\ Token("[", "none") \in Tokens /\ Token("{", "none") \in Tokens
    BY <1>4, <1>0, TokenFacts DEF OpenArray, OpenMap, Turn
  <2>2. Locked(Records, Values, s1)
    BY <2>1, StartLocked, BegunLocked
  <2> HIDE DEF s1
  <2>3. /\ Locked(Records, Values, a) /\ Locked(Records, Values, m)
        /\ a.ok => Top(a.p.state_stack) = "ARRAY_BEGIN"
        /\ m.ok => Top(m.p.state_stack) = "MAP_BEGIN"
    BY <2>1, <2>2, BeginLocked
  <2> HIDE DEF a, m
  <2>4. "ARRAY_BEGIN" \in RestStates /\ "MAP_BEGIN" \in RestStates
    BY DEF RestStates
  <2>5. CASE Turn(Token("[", "none"), luck, a)
    BY <2>1, <2>3, <2>4, <2>5, TurnKeeps DEF Locked
  <2>6. CASE Turn(Token("{", "none"), luck, m)
    BY <2>1, <2>3, <2>4, <2>6, TurnKeeps DEF Locked
  <2> QED BY <2>1, <2>5, <2>6
<1>7. ASSUME NEW valid_states, ClosingStates(valid_states), NEW sym \in {"]", "}"},
             NEW s1, s1 = value(PopState(Call(S0, CloseContainer(S0.b, valid_states))),
                                VALUE_STATES),
             Turn(Token(sym, "none"), "ok", end_value(s1, END_VALUE_STATES))
      PROVE  IInv'
  <2> DEFINE s2 == end_value(s1, END_VALUE_STATES)
  <2>1. Token(sym, "none") \in Tokens /\ status = "parsing"
    BY <1>7, TokenFacts DEF Turn
  <2>2. Locked(Records, Values, s1)
    BY <1>7, <2>1, StartLocked, CloseLocked
  <2>3. /\ Run(Records, Values, s2)
        /\ s2.ok => /\ InLockStep(s2.p.state_stack, s2.b.state_stack)
                    /\ Top(s2.p.state_stack) \in RestStates
    BY <2>2, EndedRests
  <2>4. Turn(Token(sym, "none"), "ok", s2)
    BY <1>7
  <2> HIDE DEF s2
  <2> QED BY <2>1, <2>3, <2>4, TurnKeeps
<1>8. CASE CloseArray
  <2>1. S0.b = b
    BY DEF S0, Start
  <2> QED BY <1>7, <1>8, <2>1 DEF CloseArray, llsd_array_end_fn, ClosingStates
<1>9. CASE CloseMap
  <2>1. S0.b = b
    BY DEF S0, Start
  <2> QED BY <1>7, <1>9, <2>1 DEF CloseMap, llsd_map_end_fn, ClosingStates
<1>10. CASE Garbage
  <2>1. Token("garbage", "none") \in Tokens /\ status = "parsing"
    BY <1>10, TokenFacts DEF Garbage, Turn
  <2>2. Run(Records, Values, Stop(S0)) /\ ~Stop(S0).ok
    BY <2>1, StartLocked, StopRun DEF Locked
  <2> QED BY <1>10, <2>1, <2>2, TurnKeeps DEF Garbage
<1>11. CASE EndOfFile
  BY <1>11 DEF EndOfFile, IInv, TypeOK, Outcome
<1> QED BY <1>1, <1>2, <1>3, <1>4, <1>8, <1>9, <1>10, <1>11 DEF Next

(* The invariant holds always. *)
LEMMA IInvAlways ==
  ASSUME StacksGrow
  PROVE  Spec => []IInv
  BY IInvInit, IInvNext, PTL DEF Spec

(* TypeOK of the binary parser: its stack holds states of the protocol only,
   whatever it reads, also in the turn that gives up. *)
THEOREM TypeCorrect ==
  ASSUME StacksGrow
  PROVE  Spec => []TypeOK
<1>1. IInv => TypeOK
  BY DEF IInv
<1> QED BY <1>1, IInvAlways, PTL

(* Between any two tokens llsd_binary_parser.c and llsd_parser.c are at the
   same place of the document, with every value ended, whatever is read and
   whatever calls outside src/ have answered, as long as the stacks grow. *)
THEOREM AlwaysInLockStep ==
  ASSUME StacksGrow
  PROVE  Spec => []LockStep
<1>1. IInv => LockStep
  BY DEF IInv, LockStep, RestStates
<1> QED BY <1>1, IInvAlways, PTL
====
