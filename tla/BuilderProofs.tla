--------------------------- MODULE BuilderProofs ---------------------------
(***************************************************************************)
(* Proofs about the tree builder of llsd_parser.c, for every set of        *)
(* payloads, every bound on the heap and every order of callbacks.         *)
(*                                                                         *)
(* The inductive invariant IInv says of a parse that still runs what       *)
(* CallbackProofs calls Ind, Sole and ReleasedAtMostOnce, and of a parse   *)
(* that is over that nothing the caller can reach has been released.  RInv *)
(* adds what the refinement of TreeAssembly, in the second half, needs of  *)
(* the objects themselves.                                                 *)
(***************************************************************************)
EXTENDS BuilderRefinement, CallbackProofs

(* The inductive invariant. *)
IInv ==
  /\ TypeOK
  /\ phase = "parsing" => Ind(Values, b) /\ Sole(b) /\ ReleasedAtMostOnce(b)
  /\ UsedIsLive

(* While the parse runs, nothing in use has been released. *)
LEMMA IndUsedIsLive == Ind(Values, b) => UsedIsLive
<1> SUFFICES ASSUME Ind(Values, b) PROVE UsedIsLive
  OBVIOUS
<1>1. Live(b.container_stack, b.llsd, b.heap)
  BY DEF Ind
<1> QED BY <1>1 DEF Live, UsedIsLive, Addresses, Depth

(* A callback that keeps the builder's part keeps the whole invariant. *)
LEMMA CallbackIInv ==
  ASSUME NEW r, Ind(Values, r.b), Sole(r.b), ReleasedAtMostOnce(r.b), Callback(r)
  PROVE  IInv'
<1>1. Ind(Values, b)' /\ Sole(b)' /\ ReleasedAtMostOnce(b)' /\ phase' = "parsing"
  BY DEF Callback
<1>2. UsedIsLive'
  BY <1>1, IndUsedIsLive, PTL
<1>3. TypeOK'
  BY <1>1 DEF TypeOK, Ind
<1> QED BY <1>1, <1>2, <1>3 DEF IInv

(* The end of llsd_parse_from_file keeps the invariant: a value is only
   returned when no container is open, and then nothing is released. *)
LEMMA FinishIInv ==
  ASSUME IInv, NEW ok \in BOOLEAN, Finish(ok)
  PROVE  IInv'
<1> DEFINE y == delete_stacks(b)
<1>1. Ind(Values, b) /\ b' = y /\ phase' = Outcome(b, ok) /\ b \in BuilderType(Values)
  BY DEF Finish, IInv, Ind
<1>2. phase' \in {"returned", "null"}
  BY <1>1 DEF Outcome
<1>3. /\ y \in BuilderType(Values)
      /\ y.container_stack = << >>
      /\ y.llsd = b.llsd
      /\ Len(y.heap) = Len(b.heap)
      /\ \A o \in 1 .. Len(b.heap) :
           /\ y.heap[o].kids = b.heap[o].kids
           /\ b.container_stack = << >> => y.heap[o].freed = b.heap[o].freed
  BY <1>1, DeleteStacksFacts
<1> HIDE DEF y
<1>4. TypeOK'
  BY <1>1, <1>2, <1>3 DEF TypeOK
<1>5. UsedIsLive'
  <2> SUFFICES ASSUME phase' = "returned" PROVE UsedIsLive'
    BY <1>2 DEF UsedIsLive
  <2>1. b.container_stack = << >>
    BY <1>1 DEF Outcome, CompleteParse
  <2>2. Live(b.container_stack, b.llsd, b.heap)
    BY <1>1 DEF Ind
  <2>3. y.llsd # 0 => y.llsd \in 1 .. Len(y.heap) /\ y.heap[y.llsd].freed = 0
    BY <1>3, <2>1, <2>2 DEF Live
  <2>4. ASSUME NEW o \in 1 .. Len(y.heap), NEW i \in 1 .. Len(y.heap[o].kids)
        PROVE  /\ y.heap[o].kids[i] \in 1 .. Len(y.heap)
               /\ y.heap[y.heap[o].kids[i]].freed = 0
    <3>1. y.heap[o].kids = b.heap[o].kids
      BY <1>3
    <3>2. /\ b.heap[o].kids[i] \in 1 .. Len(b.heap)
          /\ b.heap[b.heap[o].kids[i]].freed = 0
      BY <1>3, <2>2, <3>1 DEF Live
    <3> QED BY <1>3, <2>1, <3>1, <3>2
  <2>5. Len(y.container_stack) = 0
    BY <1>3
  <2> QED BY <1>1, <2>3, <2>4, <2>5 DEF UsedIsLive, Addresses, Depth
<1> QED BY <1>2, <1>4, <1>5 DEF IInv

(* The invariant holds when llsd_parse_from_file has set up its state. *)
LEMMA InitIInv == Init => IInv
<1> SUFFICES ASSUME Init PROVE IInv
  OBVIOUS
<1>1. b = EmptyBuilder /\ phase = "parsing"
  BY DEF Init
<1>2. /\ b.state_stack = <<"TOP_LEVEL">>
      /\ b.container_stack = << >>
      /\ b.key = 0
      /\ b.llsd = 0
      /\ b.heap = << >>
  BY <1>1 DEF EmptyBuilder
<1>8. Ind(Values, b)
  BY <1>1, EmptyInd
<1>3. b \in BuilderType(Values)
  BY <1>8 DEF Ind
<1>9. Sole(b)
  <2>1. Len(b.heap) = 0
    BY <1>2
  <2>2. Ordered(b) /\ HeldOnce(b)
    BY <2>1 DEF Ordered, HeldOnce
  <2>3. b.state_stack[Len(b.state_stack)] = "TOP_LEVEL"
    BY <1>2
  <2>4. KeyApart(b)
    BY <1>2, <2>3 DEF KeyApart, NeedsKey
  <2> QED BY <2>2, <2>4 DEF Sole
<1>10. ReleasedAtMostOnce(b)
  BY <1>2 DEF ReleasedAtMostOnce
<1> QED BY <1>1, <1>3, <1>8, <1>9, <1>10, IndUsedIsLive DEF IInv, TypeOK

(* Every step of the builder keeps the invariant. *)
LEMMA NextIInv ==
  ASSUME StacksGrow
  PROVE  IInv /\ [Next]_vars => IInv'
<1> SUFFICES ASSUME IInv, [Next]_vars PROVE IInv'
  OBVIOUS
<1>0. Lucks \subseteq Luck
  BY LucksAssumption DEF StacksGrow
<1>1. phase = "parsing" => Ind(Values, b) /\ Sole(b) /\ ReleasedAtMostOnce(b)
  BY DEF IInv
<1>2. ASSUME NEW val \in Values, NEW luck \in Lucks, Scalar(val, luck)
      PROVE  IInv'
  BY <1>0, <1>1, <1>2, ValuesKeepInd, ValuesKeepSole, ValuesKeepReleased, CallbackIInv
     DEF Scalar, Callback
<1>3. ASSUME NEW val \in Values, NEW luck \in Lucks, String(val, luck)
      PROVE  IInv'
  BY <1>0, <1>1, <1>3, ValuesKeepInd, ValuesKeepSole, ValuesKeepReleased, CallbackIInv
     DEF String, Callback
<1>4. ASSUME NEW luck \in Lucks, ArrayBegin(luck)
      PROVE  IInv'
  BY <1>0, <1>1, <1>4, OpeningsKeepInd, ValuesKeepSole, ValuesKeepReleased, CallbackIInv
     DEF ArrayBegin, Callback
<1>5. ASSUME NEW luck \in Lucks, MapBegin(luck)
      PROVE  IInv'
  BY <1>0, <1>1, <1>5, OpeningsKeepInd, ValuesKeepSole, ValuesKeepReleased, CallbackIInv
     DEF MapBegin, Callback
<1>6. CASE ArrayValueBegin
  BY <1>1, <1>6, MovesKeepInd, MovesKeepSole, MovesKeepReleased, CallbackIInv
     DEF ArrayValueBegin, Callback
<1>7. CASE ArrayValueEnd
  BY <1>1, <1>7, MovesKeepInd, MovesKeepSole, MovesKeepReleased, CallbackIInv
     DEF ArrayValueEnd, Callback
<1>8. CASE ArrayEnd
  BY <1>1, <1>8, MovesKeepInd, MovesKeepSole, MovesKeepReleased, CallbackIInv
     DEF ArrayEnd, Callback
<1>9. CASE MapKeyBegin
  BY <1>1, <1>9, MovesKeepInd, MovesKeepSole, MovesKeepReleased, CallbackIInv
     DEF MapKeyBegin, Callback
<1>10. CASE MapKeyEnd
  BY <1>1, <1>10, MovesKeepInd, MovesKeepSole, MovesKeepReleased, CallbackIInv
     DEF MapKeyEnd, Callback
<1>11. CASE MapValueBegin
  BY <1>1, <1>11, MovesKeepInd, MovesKeepSole, MovesKeepReleased, CallbackIInv
     DEF MapValueBegin, Callback
<1>12. CASE MapValueEnd
  BY <1>1, <1>12, MovesKeepInd, MovesKeepSole, MovesKeepReleased, CallbackIInv
     DEF MapValueEnd, Callback
<1>13. CASE MapEnd
  BY <1>1, <1>13, MovesKeepInd, MovesKeepSole, MovesKeepReleased, CallbackIInv
     DEF MapEnd, Callback
<1>14. ASSUME NEW ok \in BOOLEAN, Finish(ok)
       PROVE  IInv'
  BY <1>14, FinishIInv
<1>15. CASE UNCHANGED vars
  BY <1>15 DEF vars, IInv, TypeOK, UsedIsLive, Addresses, Depth
<1> QED BY <1>2, <1>3, <1>4, <1>5, <1>6, <1>7, <1>8, <1>9, <1>10, <1>11, <1>12,
           <1>13, <1>14, <1>15 DEF Next

(* The invariant holds throughout every parse. *)
LEMMA AlwaysIInv ==
  ASSUME StacksGrow
  PROVE  Spec => []IInv
  BY InitIInv, NextIInv, PTL DEF Spec

(* The invariant implies FramesMatchContainers. *)
LEMMA IInvFrames == IInv => FramesMatchContainers
<1> SUFFICES ASSUME Ind(Values, b) PROVE FramesMatchContainers
  BY DEF IInv, FramesMatchContainers
<1>1. Frames(b.state_stack, b.container_stack, b.heap)
  BY DEF Ind
<1> QED BY <1>1 DEF Frames, Suits, FramesMatchContainers, Addresses, Depth

(* The invariant implies OpenContainersFormPath. *)
LEMMA IInvPath == IInv => OpenContainersFormPath
<1> SUFFICES ASSUME Ind(Values, b) PROVE OpenContainersFormPath
  BY DEF IInv, OpenContainersFormPath
<1>1. Path(b.state_stack, b.container_stack, b.llsd, b.heap)
  BY DEF Ind
<1>2. ASSUME NEW s, Len(s) > 0 PROVE s # << >>
  BY <1>2
<1> QED BY <1>1, <1>2 DEF Path, OpenContainersFormPath, Depth

(* The invariant implies KeyReady. *)
LEMMA IInvKey == IInv => KeyReady
<1> SUFFICES ASSUME Ind(Values, b), Top(b.state_stack) \in NeedsKey
             PROVE  /\ b.key \in Addresses
                    /\ b.heap[b.key].kind = "string"
                    /\ b.heap[b.key].freed = 0
  BY DEF IInv, KeyReady, NeedsKey
<1>1. Keyed(b.state_stack, b.key, b.heap) /\ b \in BuilderType(Values)
  BY DEF Ind
<1>2. b.key \in Nat /\ Len(b.heap) \in Nat
  BY <1>1, BuilderFields
<1>3. Top(b.state_stack) = b.state_stack[Len(b.state_stack)]
  BY DEF Top, NeedsKey, NoState
<1> QED BY <1>1, <1>2, <1>3 DEF Keyed, Addresses

(* The invariant implies NoSharing. *)
LEMMA IInvTree == IInv => NoSharing
<1> SUFFICES ASSUME Ind(Values, b), Sole(b) PROVE NoSharing
  BY DEF IInv, NoSharing
<1>1. \A o \in 1 .. Len(b.heap) : \A i \in 1 .. Len(b.heap[o].kids) :
        b.heap[o].kids[i] \in 1 .. Len(b.heap)
  BY IndParts
<1> QED BY <1>1 DEF Sole, Ordered, HeldOnce, NoSharing, Addresses

(* The tree's right spine is the path of the open containers. *)
LEMMA SpineIsPath ==
  ASSUME Ind(Values, b)
  PROVE  \A i \in 1 .. Depth : Spine[i] = b.container_stack[i]
<1> DEFINE N == Len(b.state_stack) - 1
           last(o) == b.heap[o].kids[Len(b.heap[o].kids)]
           W == [i \in 1 .. N |-> b.container_stack[i]]
           S == CHOOSE S : S = [i \in 1 .. N |-> IF i = 1 THEN b.llsd ELSE last(S[i - 1])]
           T == {i \in 1 .. N : S[i] # W[i]}
<1>1. N = Depth /\ Depth \in Nat
  BY IndParts DEF Depth
<1>2. /\ N > 0 => b.container_stack[1] = b.llsd
      /\ \A i \in 1 .. N - 1 : last(b.container_stack[i]) = b.container_stack[i + 1]
  BY <1>1 DEF Ind, Path, Depth
<1>3. Spine = S
  BY DEF Spine
<1> HIDE DEF N, last
<1>4. W = [i \in 1 .. N |-> IF i = 1 THEN b.llsd ELSE last(W[i - 1])]
  <2>1. ASSUME NEW i \in 1 .. N
        PROVE  W[i] = IF i = 1 THEN b.llsd ELSE last(W[i - 1])
    <3>1. CASE i = 1
      BY <1>1, <1>2, <3>1
    <3>2. CASE i # 1
      <4>1. i - 1 \in 1 .. N - 1 /\ i - 1 \in 1 .. N /\ (i - 1) + 1 = i
        BY <1>1, <3>2
      <4>2. last(b.container_stack[i - 1]) = b.container_stack[i]
        BY <1>2, <4>1
      <4>3. W[i - 1] = b.container_stack[i - 1]
        BY <4>1
      <4> QED BY <3>2, <4>2, <4>3
    <3> QED BY <3>1, <3>2
  <2> QED BY <2>1
<1>5. S = [i \in 1 .. N |-> IF i = 1 THEN b.llsd ELSE last(S[i - 1])]
  BY <1>4
<1> HIDE DEF S
<1>6. ASSUME T # {} PROVE FALSE
  <2>1. T \subseteq Nat
    BY <1>1
  <2>2. PICK i \in T : \A j \in T : i <= j
    BY <1>6, <2>1, LeastNat
  <2>3. i # 1
    BY <1>4, <1>5, <2>2
  <2>4. i - 1 \in 1 .. N /\ i - 1 \notin T
    BY <1>1, <2>2, <2>3
  <2>5. S[i - 1] = W[i - 1]
    BY <2>4
  <2>6. i \in 1 .. N /\ S[i] # W[i]
    BY <2>2
  <2>7. S[i] = last(S[i - 1])
    BY <1>5, <2>3, <2>6
  <2>8. W[i] = last(W[i - 1])
    <3> HIDE DEF W
    <3> QED BY <1>4, <2>3, <2>6
  <2> QED BY <2>5, <2>6, <2>7, <2>8, Zenon
<1>7. \A i \in 1 .. N : S[i] = b.container_stack[i]
  BY SMTT(30), <1>6
<1> QED BY <1>1, <1>3, <1>7

(* What grows is what the state stack says has not ended. *)
LEMMA GrowsAtSpine ==
  ASSUME Ind(Values, b), Grows(b, b')
  PROVE  \A o \in Addresses :
           b'.heap[o].kids # b.heap[o].kids =>
             /\ Len(b.state_stack) > 1
             /\ o = Spine[Len(b.state_stack) - 1]
             /\ SubSeq(b'.heap[o].kids, 1, Len(b.heap[o].kids)) = b.heap[o].kids
<1> SUFFICES ASSUME NEW o \in Addresses, b'.heap[o].kids # b.heap[o].kids
             PROVE  /\ Len(b.state_stack) > 1
                    /\ o = Spine[Len(b.state_stack) - 1]
                    /\ SubSeq(b'.heap[o].kids, 1, Len(b.heap[o].kids)) = b.heap[o].kids
  OBVIOUS
<1>1. /\ Depth > 0 /\ o = b.container_stack[Depth]
      /\ SubSeq(b'.heap[o].kids, 1, Len(b.heap[o].kids)) = b.heap[o].kids
  BY DEF Grows, Addresses, Depth
<1>2. Len(b.state_stack) = Depth + 1 /\ Depth \in Nat
  BY IndParts DEF Depth
<1>3. Depth \in 1 .. Depth
  BY <1>1, <1>2
<1>4. Spine[Depth] = b.container_stack[Depth]
  BY <1>3, SpineIsPath
<1> QED BY <1>1, <1>2, <1>4

(* A step is a callback or the end of the parse. *)
LEMMA NextShape ==
  ASSUME StacksGrow, IInv, Next
  PROVE  /\ phase = "parsing"
         /\ \/ phase' = "parsing" /\ Shaped(Values, b, b')
            \/ phase' # "parsing" /\ b' = delete_stacks(b)
<1>1. phase = "parsing" => Ind(Values, b)
  BY DEF IInv
<1>0. Lucks \subseteq Luck
  BY LucksAssumption DEF StacksGrow
<1> DEFINE Shape == phase = "parsing" /\ phase' = "parsing" /\ Shaped(Values, b, b')
<1>2. ASSUME NEW val \in Values, NEW luck \in Lucks, Scalar(val, luck) \/ String(val, luck)
      PROVE  Shape
  BY <1>0, <1>1, <1>2, ValuesShape DEF Scalar, String, Callback
<1>3. ASSUME NEW luck \in Lucks, ArrayBegin(luck) \/ MapBegin(luck)
      PROVE  Shape
  BY <1>0, <1>1, <1>3, ValuesShape DEF ArrayBegin, MapBegin, Callback
<1>4. CASE ArrayValueBegin \/ ArrayValueEnd \/ ArrayEnd
  BY <1>1, <1>4, MovesShape DEF ArrayValueBegin, ArrayValueEnd, ArrayEnd, Callback, Shaped
<1>5. CASE MapKeyBegin \/ MapKeyEnd \/ MapValueBegin \/ MapValueEnd \/ MapEnd
  BY <1>1, <1>5, MovesShape
     DEF MapKeyBegin, MapKeyEnd, MapValueBegin, MapValueEnd, MapEnd, Callback, Shaped
<1>6. ASSUME NEW ok \in BOOLEAN, Finish(ok)
      PROVE  phase = "parsing" /\ phase' # "parsing" /\ b' = delete_stacks(b)
  BY <1>6 DEF Finish, Outcome
<1> QED BY <1>2, <1>3, <1>4, <1>5, <1>6 DEF Next

(* Every step of the builder keeps what objects hold, but for the values it
   puts at the end of the innermost container. *)
LEMMA NextGrows ==
  ASSUME StacksGrow, IInv, Next
  PROVE  Ind(Values, b) /\ Grows(b, b')
<1>1. Ind(Values, b) /\ b \in BuilderType(Values)
  BY NextShape DEF IInv, Ind
<1>2. CASE Shaped(Values, b, b')
  BY <1>1, <1>2, ShapedGrows
<1>3. CASE b' = delete_stacks(b)
  <2>1. \A o \in 1 .. Len(b.heap) : delete_stacks(b).heap[o].kids = b.heap[o].kids
    BY <1>1, DeleteStacksFacts
  <2> QED BY <1>1, <1>3, <2>1 DEF Grows
<1> QED BY <1>2, <1>3, NextShape

(* The end of a parse that has one container open at most releases no object
   for the second time. *)
LEMMA EndReleases ==
  ASSUME StacksGrow, IInv, Next, phase' # "parsing", Depth <= 1, NEW o \in Addresses
  PROVE  b'.heap[o].freed <= 1
<1>1. phase = "parsing" /\ b' = delete_stacks(b)
  BY NextShape
<1>2. Ind(Values, b) /\ Sole(b) /\ ReleasedAtMostOnce(b) /\ b \in BuilderType(Values)
  BY <1>1 DEF IInv, Ind
<1>3. b'.heap[o].freed = b.heap[o].freed + deletions(b, o)
  BY <1>1, <1>2, DeleteStacksFacts DEF Addresses
<1>4. deletions(b, o) = 0 \/ (deletions(b, o) = 1 /\ b.heap[o].freed = 0)
  BY <1>2, DeletedOnce DEF Addresses, Depth
<1>5. b.heap[o].freed \in Nat /\ b.heap[o].freed <= 1
  <2>1. b.heap \in Seq(Object(Values))
    BY <1>2, IndParts
  <2> QED BY <1>2, <2>1, ObjectFields DEF Addresses, ReleasedAtMostOnce
<1> QED BY <1>3, <1>4, <1>5

-----------------------------------------------------------------------------
(* The state of llsd_parser.c is well formed in every parse, whatever the
   front end calls and whichever value or insertion fails, as long as the
   stacks grow. *)
THEOREM TypeCorrect ==
  ASSUME StacksGrow
  PROVE  Spec => []TypeOK
<1>1. IInv => TypeOK
  BY DEF IInv
<1> QED BY <1>1, AlwaysIInv, PTL

(* In llsd_parser.c the state stack and the container stack always fit: the
   checks of add_to_container (llsd_parser.c:46) for a missing container or
   one of the wrong kind can not fail for any front end. *)
THEOREM FramesAlwaysMatch ==
  ASSUME StacksGrow
  PROVE  Spec => []FramesMatchContainers
  BY AlwaysIInv, IInvFrames, PTL

(* In llsd_parser.c a container that is opened has been taken by its parent
   and stays its parent's last value until it is closed. *)
THEOREM OpenContainersAlwaysFormPath ==
  ASSUME StacksGrow
  PROVE  Spec => []OpenContainersFormPath
  BY AlwaysIInv, IInvPath, PTL

(* Whenever update_state in llsd_parser.c files a value in a map there is a
   live key to file it under. *)
THEOREM KeyAlwaysReady ==
  ASSUME StacksGrow
  PROVE  Spec => []KeyReady
  BY AlwaysIInv, IInvKey, PTL

(* No failed callback and no end of a parse in llsd_parser.c releases an
   object of the tree that is being built or has been returned. *)
THEOREM UsedAlwaysLive ==
  ASSUME StacksGrow
  PROVE  Spec => []UsedIsLive
<1>1. IInv => UsedIsLive
  BY DEF IInv
<1> QED BY <1>1, AlwaysIInv, PTL

(* What llsd_parser.c builds is a tree: no value is filed in two places, or
   twice, and neither the pending key nor the value to return is held by a
   container. *)
THEOREM TreeIsATree ==
  ASSUME StacksGrow
  PROVE  Spec => []NoSharing
  BY AlwaysIInv, IInvTree, PTL

(* In llsd_parser.c a container that has ended, or waits for an inner one, is
   never changed: a step adds at the end of the innermost open one. *)
THEOREM OnlyInnermostEverGrows ==
  ASSUME StacksGrow
  PROVE  Spec => OnlyInnermostGrows
<1>1. IInv /\ [Next]_vars =>
        [\A o \in Addresses :
           b'.heap[o].kids # b.heap[o].kids =>
             /\ Len(b.state_stack) > 1
             /\ o = Spine[Len(b.state_stack) - 1]
             /\ SubSeq(b'.heap[o].kids, 1, Len(b.heap[o].kids)) = b.heap[o].kids]_vars
  <2> SUFFICES ASSUME IInv, Next
               PROVE  \A o \in Addresses :
                        b'.heap[o].kids # b.heap[o].kids =>
                          /\ Len(b.state_stack) > 1
                          /\ o = Spine[Len(b.state_stack) - 1]
                          /\ SubSeq(b'.heap[o].kids, 1, Len(b.heap[o].kids)) = b.heap[o].kids
    OBVIOUS
  <2>1. Ind(Values, b) /\ Grows(b, b')
    BY NextGrows
  <2> QED BY <2>1, GrowsAtSpine
<1> QED BY <1>1, AlwaysIInv, PTL DEF Spec, OnlyInnermostGrows

(* llsd_parse_from_file (llsd_parser.c:558) deletes the container stack with
   llsd_delete: when one container is open at most, and so after any document
   that is complete, no object is released twice. *)
THEOREM NothingReleasedTwice ==
  ASSUME StacksGrow
  PROVE  Spec => ReleasedOnce
<1>1. IInv /\ [Next]_vars =>
        [phase = "parsing" /\ phase' # "parsing" /\ Depth <= 1 =>
           \A o \in Addresses : b'.heap[o].freed <= 1]_vars
  BY EndReleases
<1> QED BY <1>1, AlwaysIInv, PTL DEF Spec, ReleasedOnce

-----------------------------------------------------------------------------
(***************************************************************************)
(* The builder implements TreeAssembly.                                    *)
(*                                                                         *)
(* What is seen of an object is a recursive function of the heap: the      *)
(* lemmas up to SeenEqual say that objects which agree, with all that they *)
(* hold, are seen alike, so that a callback changes the containers that    *)
(* are open and nothing else.  Tree is what the argument needs of a        *)
(* builder; Taken, Opened, Ended, Refused and SameTree are what callbacks  *)
(* do to it, and each has its lemma on what is seen after it.              *)
(***************************************************************************)

(* A sequence written as a function. *)
Counted(f, n) == f = [i \in 1 .. n |-> f[i]]

(* A function on 1 .. n is a sequence of length n. *)
LEMMA SeqOfFunction ==
  ASSUME NEW n \in Nat, NEW f, Counted(f, n)
  PROVE  f \in Seq({f[i] : i \in 1 .. n}) /\ Len(f) = n
<1> USE DEF Counted
<1>1. f \in Seq({f[i] : i \in 1 .. n})
  OBVIOUS
<1>2. DOMAIN f = 1 .. n
  OBVIOUS
<1>3. DOMAIN f = 1 .. Len(f) /\ Len(f) \in Nat
  BY <1>1
<1> QED BY <1>1, <1>2, <1>3

(* The object at o is of one kind in two heaps, and its first n kids there
   are seen as the same values. *)
Alike(heap, heap2, o, n, seen, seen2) ==
  /\ n \in Nat
  /\ heap2[o].kind = heap[o].kind
  /\ \A i \in 1 .. n : seen2[heap2[o].kids[i]] = seen[heap[o].kids[i]]

(* Then its first n items are the same. *)
LEMMA ItemsEqual ==
  ASSUME NEW heap, NEW heap2, NEW o, NEW n, NEW seen, NEW seen2,
         Alike(heap, heap2, o, n, seen, seen2)
  PROVE  Items(heap2, o, n, seen2) = Items(heap, o, n, seen)
<1> USE DEF Alike
<1> DEFINE k == heap[o].kids
           k2 == heap2[o].kids
<1>1. CASE heap[o].kind = "map"
  <2>1. ASSUME NEW i \in 1 .. n \div 2
        PROVE  2 * i - 1 \in 1 .. n /\ 2 * i \in 1 .. n
    OBVIOUS
  <2> DEFINE f == [i \in 1 .. n \div 2 |-> <<seen[k[2 * i - 1]], seen[k[2 * i]]>>]
             g == [i \in 1 .. n \div 2 |-> <<seen2[k2[2 * i - 1]], seen2[k2[2 * i]]>>]
  <2>2. ASSUME NEW i \in 1 .. n \div 2
        PROVE  <<seen2[k2[2 * i - 1]], seen2[k2[2 * i]]>> = <<seen[k[2 * i - 1]], seen[k[2 * i]]>>
    <3>1. seen2[k2[2 * i - 1]] = seen[k[2 * i - 1]] /\ seen2[k2[2 * i]] = seen[k[2 * i]]
      BY <2>1
    <3> QED BY <3>1, Zenon
  <2>3. f = g
    <3> HIDE DEF k, k2
    <3> QED BY <2>2, Zenon
  <2> QED BY <1>1, <2>3 DEF Items
<1>2. CASE heap[o].kind # "map"
  BY <1>2 DEF Items
<1> QED BY <1>1, <1>2

(* A heap whose objects hold younger ones only. *)
Founded(heap) ==
  /\ Len(heap) \in Nat
  /\ \A o \in 1 .. Len(heap) :
       /\ Len(heap[o].kids) \in Nat
       /\ \A i \in 1 .. Len(heap[o].kids) :
            heap[o].kids[i] \in 1 .. Len(heap) /\ heap[o].kids[i] > o

(* What the object at o is seen as, given what its kids are seen as. *)
Node(heap, o, seen) ==
  IF heap[o].freed # 0 THEN Dangling
  ELSE [kind |-> heap[o].kind, val |-> heap[o].val,
        items |-> Items(heap, o, Len(heap[o].kids), seen)]

(* It depends on the object and on what its kids are seen as. *)
LEMMA NodeEqual ==
  ASSUME NEW heap, NEW heap2, NEW o, NEW seen, NEW seen2, Len(heap[o].kids) \in Nat,
         heap2[o] = heap[o],
         \A i \in 1 .. Len(heap[o].kids) : seen2[heap[o].kids[i]] = seen[heap[o].kids[i]]
  PROVE  Node(heap2, o, seen2) = Node(heap, o, seen)
<1>1. Items(heap2, o, Len(heap[o].kids), seen2) = Items(heap, o, Len(heap[o].kids), seen)
  BY ItemsEqual DEF Alike
<1> QED BY <1>1 DEF Node

(* Seen, the recursive function for the values in a heap, does satisfy its
   equation: it can be computed from the youngest object on. *)
LEMMA SeenEquation ==
  ASSUME NEW heap, Founded(heap), NEW o \in 1 .. Len(heap)
  PROVE  Seen(heap)[o] = Node(heap, o, Seen(heap))
<1> DEFINE N == Len(heap)
           S == CHOOSE S : S = [a \in 1 .. N |-> Node(heap, a, S)]
           D(n) == N - n + 1 .. N
           Good(n) == \E f : f = [a \in D(n) |-> Node(heap, a, f)]
           T == {n \in 0 .. N : ~Good(n)}
<1>1. N \in Nat
  BY DEF Founded
<1>2. Seen(heap) = S
  BY DEF Seen, Node
<1> HIDE DEF S, N
<1>3. ASSUME T # {} PROVE FALSE
  <2>1. PICK n \in T : \A m \in T : n <= m
    <3>1. T \subseteq Nat
      BY <1>1
    <3> HIDE DEF T
    <3> QED BY <1>3, <3>1, LeastNat
  <2>2. n \in 0 .. N /\ ~Good(n)
    OBVIOUS
  <2>3. n # 0
    <3>1. D(0) = {}
      BY <1>1
    <3> DEFINE f == [a \in {} |-> 0]
    <3>2. f = [a \in {} |-> Node(heap, a, f)]
      OBVIOUS
    <3>3. Good(0)
      <4> HIDE DEF f
      <4> QED BY <3>1, <3>2
    <3> QED BY <2>2, <3>3
  <2>4. n - 1 \in 0 .. N /\ Good(n - 1)
    <3>1. n - 1 \in 0 .. N
      BY <1>1, <2>2, <2>3
    <3>2. n - 1 \notin T
      BY <2>1, <2>2, <3>1
    <3> QED BY <3>1, <3>2
  <2>5. PICK f : f = [a \in D(n - 1) |-> Node(heap, a, f)]
    BY <2>4
  <2> DEFINE g == [a \in D(n) |-> IF a \in D(n - 1) THEN f[a] ELSE Node(heap, a, f)]
  <2>6. ASSUME NEW a \in D(n)
        PROVE  g[a] = Node(heap, a, f)
    BY <2>5
  <2>7. ASSUME NEW a \in D(n)
        PROVE  Node(heap, a, g) = Node(heap, a, f)
    <3>1. a \in 1 .. N /\ a >= N - n + 1
      BY <1>1, <2>2
    <3>2. Len(heap[a].kids) \in Nat
      BY <3>1 DEF Founded, N
    <3>3. ASSUME NEW i \in 1 .. Len(heap[a].kids)
          PROVE  g[heap[a].kids[i]] = f[heap[a].kids[i]]
      <4>1. heap[a].kids[i] \in 1 .. N /\ heap[a].kids[i] > a
        BY <3>1 DEF Founded, N
      <4>2. heap[a].kids[i] \in D(n - 1) /\ heap[a].kids[i] \in D(n)
        BY <1>1, <2>2, <3>1, <4>1
      <4> QED BY <4>2
    <3> HIDE DEF g
    <3> QED BY <3>2, <3>3, NodeEqual
  <2>8. g = [a \in D(n) |-> Node(heap, a, g)]
    <3>1. \A a \in D(n) : g[a] = Node(heap, a, g)
      <4> HIDE DEF g
      <4> QED BY <2>6, <2>7
    <3>2. g = [a \in D(n) |-> g[a]]
      OBVIOUS
    <3> HIDE DEF g, D
    <3> QED BY <3>1, <3>2
  <2> HIDE DEF g
  <2> QED BY <2>2, <2>8
<1>4. Good(N)
  <2>1. N \in 0 .. N
    BY <1>1
  <2>2. N \notin T
    <3> HIDE DEF T
    <3> QED BY <1>3
  <2> HIDE DEF Good
  <2> QED BY <2>1, <2>2
<1>5. D(N) = 1 .. N
  BY <1>1
<1>6. S = [a \in 1 .. N |-> Node(heap, a, S)]
  <2>1. \E f : f = [a \in 1 .. N |-> Node(heap, a, f)]
    <3> HIDE DEF D
    <3> QED BY <1>4, <1>5
  <2> QED BY <2>1 DEF S
<1>7. o \in 1 .. N
  BY DEF N
<1>8. S[o] = Node(heap, o, S)
  BY <1>6, <1>7
<1> QED BY <1>2, <1>8

(* Two heaps have the objects at D in common, which hold no others. *)
Common(heap, heap2, D) ==
  /\ Founded(heap) /\ Founded(heap2)
  /\ D \subseteq 1 .. Len(heap) /\ D \subseteq 1 .. Len(heap2)
  /\ \A o \in D : /\ heap2[o] = heap[o]
                  /\ \A i \in 1 .. Len(heap[o].kids) : heap[o].kids[i] \in D

(* They then show the same values there. *)
LEMMA SeenEqual ==
  ASSUME NEW heap, NEW heap2, NEW D, Common(heap, heap2, D)
  PROVE  \A o \in D : Seen(heap2)[o] = Seen(heap)[o]
<1> DEFINE N == Len(heap)
           f == Seen(heap)
           g == Seen(heap2)
           Bad == {o \in D : g[o] # f[o]}
           T == {N - o : o \in Bad}
<1> USE DEF Common
<1>1. /\ N \in Nat
      /\ \A o \in D : f[o] = Node(heap, o, f) /\ g[o] = Node(heap2, o, g)
  BY SeenEquation DEF Founded
<1>2. ASSUME NEW o \in D
      PROVE  /\ o \in 1 .. N /\ Len(heap[o].kids) \in Nat
             /\ \A i \in 1 .. Len(heap[o].kids) : heap[o].kids[i] \in D /\ heap[o].kids[i] > o
  BY DEF Founded
<1> HIDE DEF N, f, g
<1>3. ASSUME Bad # {} PROVE FALSE
  <2>1. T \subseteq Nat /\ T # {}
    <3>1. ASSUME NEW o \in D PROVE N - o \in Nat
      BY <1>1, <1>2
    <3>2. T \subseteq Nat
      BY <3>1
    <3> QED BY <1>3, <3>2
  <2>2. PICK t \in T : \A u \in T : t <= u
    BY <2>1, LeastNat
  <2>3. PICK o \in Bad : t = N - o
    BY <2>2
  <2>4. ASSUME NEW a \in Bad PROVE a <= o
    <3>1. N - o <= N - a
      BY <2>2, <2>3
    <3>2. a \in 1 .. N /\ o \in 1 .. N
      BY <1>2
    <3> QED BY <1>1, <3>1, <3>2
  <2>5. o \in D /\ g[o] # f[o]
    OBVIOUS
  <2>6. ASSUME NEW i \in 1 .. Len(heap[o].kids)
        PROVE  g[heap[o].kids[i]] = f[heap[o].kids[i]]
    <3>1. heap[o].kids[i] \in D /\ heap[o].kids[i] > o
      BY <1>2, <2>5
    <3>2. heap[o].kids[i] \in 1 .. N /\ o \in 1 .. N
      BY <1>2, <2>5, <3>1
    <3>3. heap[o].kids[i] \notin Bad
      BY SMTT(30), <1>1, <2>4, <3>1, <3>2
    <3> QED BY <3>1, <3>3
  <2>7. Node(heap2, o, g) = Node(heap, o, f)
    BY <1>2, <2>5, <2>6, NodeEqual
  <2> QED BY <1>1, <2>5, <2>7
<1> QED BY <1>3 DEF f, g

-----------------------------------------------------------------------------
(* What a live object carries: containers carry nothing themselves, and maps
   hold pairs. *)
Formed(heap) ==
  \A o \in 1 .. Len(heap) : heap[o].freed = 0 =>
    /\ heap[o].kind \in {"array", "map"} => heap[o].val = "none"
    /\ heap[o].kind = "map" => \E n \in Nat : Len(heap[o].kids) = 2 * n

(* A builder about which the values it stands for can be told. *)
Tree(V, x) == Ind(V, x) /\ Sole(x) /\ Formed(x.heap)

(* The addresses of the objects that are not open containers. *)
Shut(x) ==
  {o \in 1 .. Len(x.heap) : \A i \in 1 .. Len(x.container_stack) : x.container_stack[i] # o}

(* The parts of Tree, each on its own. *)
LEMMA TreeFacts ==
  ASSUME NEW V, NEW x, Tree(V, x)
  PROVE  /\ Founded(x.heap) /\ Len(x.heap) \in Nat /\ Len(x.container_stack) \in Nat
         /\ x.heap \in Seq(Object(V))
         /\ x.state_stack \in Seq(States) /\ Len(x.state_stack) = Len(x.container_stack) + 1
         /\ x.container_stack \in Seq(Nat)
         /\ \A i \in 1 .. Len(x.container_stack) : x.container_stack[i] \in 1 .. Len(x.heap)
         /\ x.key \in 0 .. Len(x.heap) /\ x.llsd \in 0 .. Len(x.heap)
<1>1. Ind(V, x) /\ Sole(x)
  BY DEF Tree
<1>2. /\ x.heap \in Seq(Object(V)) /\ Len(x.heap) \in Nat
      /\ x.state_stack \in Seq(States) /\ Len(x.state_stack) = Len(x.container_stack) + 1
      /\ x.container_stack \in Seq(Nat)
      /\ x.key \in Nat /\ x.llsd \in Nat
      /\ x.key <= Len(x.heap) /\ x.llsd <= Len(x.heap)
      /\ \A i \in 1 .. Len(x.container_stack) : x.container_stack[i] \in 1 .. Len(x.heap)
      /\ \A o \in 1 .. Len(x.heap) :
           /\ x.heap[o].kids \in Seq(Nat)
           /\ \A i \in 1 .. Len(x.heap[o].kids) : x.heap[o].kids[i] \in 1 .. Len(x.heap)
  BY <1>1, IndParts
<1>3. \A o \in 1 .. Len(x.heap) : \A i \in 1 .. Len(x.heap[o].kids) : x.heap[o].kids[i] > o
  BY <1>1 DEF Sole, Ordered
<1>4. \A o \in 1 .. Len(x.heap) : Len(x.heap[o].kids) \in Nat
  BY SMTT(30), <1>2
<1>5. Founded(x.heap)
  BY <1>2, <1>3, <1>4 DEF Founded
<1>6. Len(x.container_stack) \in Nat
  BY <1>2
<1> QED BY <1>2, <1>5, <1>6

(* An open container is held by the one around it, as its last kid, and by
   nothing else. *)
LEMMA OpenHeld ==
  ASSUME NEW V, NEW x, Tree(V, x), NEW o \in 1 .. Len(x.heap),
         NEW j \in 1 .. Len(x.heap[o].kids), NEW k \in 1 .. Len(x.container_stack),
         x.heap[o].kids[j] = x.container_stack[k]
  PROVE  k > 1 /\ o = x.container_stack[k - 1] /\ j = Len(x.heap[o].kids)
<1> DEFINE cs == x.container_stack
           c == cs[k - 1]
<1>1. /\ Len(cs) \in Nat /\ \A i \in 1 .. Len(cs) : cs[i] \in 1 .. Len(x.heap)
  BY TreeFacts
<1>2. /\ Len(cs) > 0 => cs[1] = x.llsd
      /\ \A i \in 1 .. Len(cs) - 1 :
           /\ Len(x.heap[cs[i]].kids) > 0
           /\ x.heap[cs[i]].kids[Len(x.heap[cs[i]].kids)] = cs[i + 1]
  BY DEF Tree, Ind, Path
<1>3. x.heap[o].kids[j] # x.llsd
  BY DEF Tree, Sole, Ordered
<1>4. k # 1 /\ k - 1 \in 1 .. Len(cs) - 1 /\ (k - 1) + 1 = k
  <2>1. k # 1
    BY <1>1, <1>2, <1>3
  <2> QED BY <1>1, <2>1
<1>5. /\ c \in 1 .. Len(x.heap) /\ Len(x.heap[c].kids) > 0
      /\ x.heap[c].kids[Len(x.heap[c].kids)] = cs[k]
  <2>1. k - 1 \in 1 .. Len(cs)
    BY <1>1, <1>4
  <2>2. cs[k - 1] \in 1 .. Len(x.heap)
    BY <1>1, <2>1
  <2> QED BY <1>2, <1>4, <2>2
<1>6. Len(x.heap[c].kids) \in 1 .. Len(x.heap[c].kids)
  <2>1. Len(x.heap[c].kids) \in Nat
    BY <1>5, TreeFacts DEF Founded
  <2> QED BY <1>5, <2>1
<1>7. HeldOnce(x)
  BY DEF Tree, Sole
<1>8. c = o /\ Len(x.heap[c].kids) = j
  <2> HIDE DEF c, cs
  <2>1. x.heap[c].kids[Len(x.heap[c].kids)] = x.heap[o].kids[j]
    BY <1>5 DEF cs
  <2> QED BY <1>5, <1>6, <1>7, <2>1 DEF HeldOnce
<1> QED BY <1>4, <1>8

(* So what an object that is not open holds is not open, and of what an open
   container holds only the last can be. *)
LEMMA ShutKids ==
  ASSUME NEW V, NEW x, Tree(V, x), NEW o \in 1 .. Len(x.heap),
         NEW j \in 1 .. Len(x.heap[o].kids),
         \/ j < Len(x.heap[o].kids)
         \/ o \in Shut(x)
         \/ Len(x.container_stack) > 0 /\ o = x.container_stack[Len(x.container_stack)]
  PROVE  x.heap[o].kids[j] \in Shut(x)
<1> DEFINE cs == x.container_stack
           n == x.heap[o].kids[j]
<1>1. n \in 1 .. Len(x.heap)
  BY TreeFacts DEF Founded
<1>2. ASSUME NEW k \in 1 .. Len(cs), cs[k] = n PROVE FALSE
  <2>1. k > 1 /\ o = cs[k - 1] /\ j = Len(x.heap[o].kids)
    BY <1>2, OpenHeld
  <2>2. Len(cs) \in Nat /\ \A i \in 1 .. Len(cs) : cs[i] \in Nat
    BY SMTT(30), TreeFacts
  <2>3. k - 1 \in 1 .. Len(cs) /\ Len(cs) \in 1 .. Len(cs) /\ k - 1 < Len(cs)
    BY <2>1, <2>2
  <2>4. o \notin Shut(x)
    BY <2>1, <2>3 DEF Shut
  <2>5. o # cs[Len(cs)]
    <3>1. cs[k - 1] < cs[Len(cs)]
      BY <2>3 DEF Tree, Ind, Path
    <3> QED BY <2>1, <2>2, <2>3, <3>1
  <2>6. ~(j < Len(x.heap[o].kids))
    <3>1. Len(x.heap[o].kids) \in Nat
      BY TreeFacts DEF Founded
    <3> QED BY SMTT(30), <2>1, <3>1
  <2> QED BY <2>4, <2>5, <2>6
<1> QED BY <1>1, <1>2 DEF Shut

(* The pending key is not open. *)
LEMMA ShutKey ==
  ASSUME NEW V, NEW x, Tree(V, x), x.key # 0
  PROVE  x.key \in Shut(x)
<1> DEFINE cs == x.container_stack
<1>1. x.key \in 1 .. Len(x.heap) /\ Len(cs) \in Nat
  BY TreeFacts
<1>2. ASSUME NEW k \in 1 .. Len(cs), cs[k] = x.key PROVE FALSE
  <2>1. /\ Len(cs) > 0 => cs[1] = x.llsd
        /\ \A i \in 1 .. Len(cs) - 1 :
             /\ Len(x.heap[cs[i]].kids) > 0
             /\ x.heap[cs[i]].kids[Len(x.heap[cs[i]].kids)] = cs[i + 1]
    BY DEF Tree, Ind, Path
  <2>2. x.key # x.llsd /\ Ordered(x)
    BY DEF Tree, Sole, KeyApart
  <2>3. k # 1
    BY <1>1, <1>2, <2>1, <2>2
  <2>4. k - 1 \in 1 .. Len(cs) - 1 /\ k - 1 \in 1 .. Len(cs) /\ (k - 1) + 1 = k
    BY <1>1, <2>3
  <2>5. cs[k - 1] \in 1 .. Len(x.heap)
    BY <2>4, TreeFacts
  <2> DEFINE m == Len(x.heap[cs[k - 1]].kids)
  <2>6. m \in 1 .. m /\ x.heap[cs[k - 1]].kids[m] = x.key
    <3>1. m \in Nat
      BY <2>5, TreeFacts DEF Founded
    <3>2. m > 0 /\ x.heap[cs[k - 1]].kids[m] = cs[(k - 1) + 1]
      BY <2>1, <2>4
    <3> QED BY <1>2, <2>4, <3>1, <3>2
  <2>7. x.heap[cs[k - 1]].kids[m] # x.key
    <3>1. \A o \in 1 .. Len(x.heap) : \A i \in 1 .. Len(x.heap[o].kids) : x.heap[o].kids[i] # x.key
      BY <2>2 DEF Ordered
    <3>2. \A i \in 1 .. m : x.heap[cs[k - 1]].kids[i] # x.key
      BY <2>5, <3>1, Zenon
    <3> QED BY <2>6, <3>2, Zenon
  <2> QED BY <2>6, <2>7
<1> QED BY <1>1, <1>2 DEF Shut

(* Putting one value behind a sequence that is written as a function. *)
LEMMA AppendFunction ==
  ASSUME NEW n \in Nat, NEW f, Counted(f, n),
         NEW g, Counted(g, n + 1), \A i \in 1 .. n : g[i] = f[i]
  PROVE  g = Append(f, g[n + 1])
<1> DEFINE S == {g[i] : i \in 1 .. n + 1}
           h == Append(f, g[n + 1])
<1>1. g \in Seq(S) /\ Len(g) = n + 1
  BY SeqOfFunction
<1>2. f \in Seq({f[i] : i \in 1 .. n}) /\ Len(f) = n
  BY SeqOfFunction
<1>3. f \in Seq(S)
  <2>1. \A i \in 1 .. n : f[i] \in S
    <3>1. \A i \in 1 .. n : i \in 1 .. n + 1
      OBVIOUS
    <3> QED BY <3>1
  <2>2. {f[i] : i \in 1 .. n} \subseteq S
    BY <2>1
  <2> HIDE DEF S
  <2> QED BY <1>2, <2>2
<1>4. g[n + 1] \in S
  OBVIOUS
<1> HIDE DEF S
<1>5. /\ h \in Seq(S) /\ Len(h) = n + 1 /\ h[n + 1] = g[n + 1]
      /\ \A i \in 1 .. n : h[i] = f[i]
  BY <1>2, <1>3, <1>4
<1>6. \A i \in 1 .. n + 1 : h[i] = g[i]
  <2> SUFFICES ASSUME NEW i \in 1 .. n + 1 PROVE h[i] = g[i]
    OBVIOUS
  <2>1. i \in 1 .. n \/ i = n + 1
    OBVIOUS
  <2> HIDE DEF h
  <2> QED BY <1>5, <2>1
<1> HIDE DEF h
<1>7. g = h
  BY ONLY <1>1, <1>5, <1>6, n \in Nat, SeqEqual
<1> QED BY <1>7 DEF h

(* An array's next kid is its next item. *)
LEMMA NextItem ==
  ASSUME NEW heap, NEW heap2, NEW o, NEW n, NEW seen, NEW seen2,
         Alike(heap, heap2, o, n, seen, seen2), heap[o].kind # "map",
         NEW p, p = n + 1, NEW v, v = heap2[o].kids[p]
  PROVE  Items(heap2, o, p, seen2) = Append(Items(heap, o, n, seen), seen2[v])
<1> USE DEF Alike
<1> DEFINE f == [i \in 1 .. n |-> seen[heap[o].kids[i]]]
           g == [i \in 1 .. n + 1 |-> seen2[heap2[o].kids[i]]]
<1>1. Items(heap, o, n, seen) = f /\ Items(heap2, o, n + 1, seen2) = g
  BY DEF Items
<1>2. Counted(f, n) /\ Counted(g, n + 1)
  BY DEF Counted
<1>3. /\ \A i \in 1 .. n : g[i] = f[i]
      /\ g[n + 1] = seen2[heap2[o].kids[n + 1]]
  OBVIOUS
<1> HIDE DEF f, g
<1>4. g = Append(f, g[n + 1])
  BY <1>2, <1>3, AppendFunction
<1> QED BY <1>1, <1>3, <1>4

(* A map's next two kids are its next pair. *)
LEMMA NextPair ==
  ASSUME NEW heap, NEW heap2, NEW o, NEW n, NEW seen, NEW seen2,
         Alike(heap, heap2, o, n, seen, seen2), heap[o].kind = "map",
         NEW k \in Nat, n = 2 * k,
         NEW q, q = n + 2, NEW u, u = heap2[o].kids[n + 1], NEW v, v = heap2[o].kids[q]
  PROVE  Items(heap2, o, q, seen2) = Append(Items(heap, o, n, seen), <<seen2[u], seen2[v]>>)
<1> USE DEF Alike
<1> DEFINE a(i) == seen[heap[o].kids[i]]
           z(i) == seen2[heap2[o].kids[i]]
           f == [i \in 1 .. k |-> <<a(2 * i - 1), a(2 * i)>>]
           g == [i \in 1 .. k + 1 |-> <<z(2 * i - 1), z(2 * i)>>]
<1>1. n \div 2 = k /\ (n + 2) \div 2 = k + 1
  OBVIOUS
<1>2. Items(heap, o, n, seen) = f /\ Items(heap2, o, n + 2, seen2) = g
  <2>1. Items(heap, o, n, seen) = [i \in 1 .. n \div 2 |-> <<a(2 * i - 1), a(2 * i)>>]
    BY DEF Items
  <2>2. Items(heap2, o, n + 2, seen2)
          = [i \in 1 .. (n + 2) \div 2 |-> <<z(2 * i - 1), z(2 * i)>>]
    BY DEF Items
  <2> HIDE DEF a, z
  <2> QED BY <1>1, <2>1, <2>2
<1>3. \A i \in 1 .. n : z(i) = a(i)
  OBVIOUS
<1> HIDE DEF a, z
<1>4. Counted(f, k) /\ Counted(g, k + 1)
  BY DEF Counted
<1>5. \A i \in 1 .. k : g[i] = f[i]
  <2> SUFFICES ASSUME NEW i \in 1 .. k PROVE g[i] = f[i]
    OBVIOUS
  <2>1. 2 * i - 1 \in 1 .. n /\ 2 * i \in 1 .. n /\ i \in 1 .. k + 1
    OBVIOUS
  <2>2. z(2 * i - 1) = a(2 * i - 1) /\ z(2 * i) = a(2 * i)
    BY <1>3, <2>1
  <2>3. f[i] = <<a(2 * i - 1), a(2 * i)>> /\ g[i] = <<z(2 * i - 1), z(2 * i)>>
    BY <2>1
  <2> HIDE DEF f, g
  <2> QED BY <2>2, <2>3
<1>6. g[k + 1] = <<z(n + 1), z(n + 2)>>
  <2>1. 2 * (k + 1) - 1 = n + 1 /\ 2 * (k + 1) = n + 2 /\ k + 1 \in 1 .. k + 1
    OBVIOUS
  <2>2. g[k + 1] = <<z(2 * (k + 1) - 1), z(2 * (k + 1))>>
    BY <2>1
  <2> HIDE DEF g
  <2> QED BY <2>1, <2>2
<1> HIDE DEF f, g
<1>7. g = Append(f, g[k + 1])
  BY SMTT(30), <1>4, <1>5, AppendFunction
<1> QED BY <1>2, <1>6, <1>7 DEF z

(* What is known of the open container o at depth i, the first m kids of which
   have ended. *)
Opening(x, i, o, m) ==
  /\ o \in 1 .. Len(x.heap) /\ x.heap[o].freed = 0
  /\ x.heap[o].kind \in {"array", "map"} /\ x.heap[o].val = "none"
  /\ Len(x.heap[o].kids) \in Nat
  /\ x.heap[o].kind = "map" => \E n \in Nat : Len(x.heap[o].kids) = 2 * n
  /\ m \in Nat /\ m <= Len(x.heap[o].kids)
  /\ i = Len(x.container_stack) => m = Len(x.heap[o].kids)
  /\ i # Len(x.container_stack) =>
       /\ x.heap[o].kind = "array" => m + 1 = Len(x.heap[o].kids)
       /\ x.heap[o].kind = "map" => m + 2 = Len(x.heap[o].kids)

(* An open container is a live array or map; with another one open inside it
   holds that one, and the key over it if it is a map. *)
LEMMA OpenObject ==
  ASSUME NEW V, NEW x, Tree(V, x), NEW i \in 1 .. Len(x.container_stack),
         NEW o, o = x.container_stack[i], NEW m, m = Len(x.heap[o].kids) - LastKids(x, i)
  PROVE  Opening(x, i, o, m)
<1> USE DEF Opening
<1> DEFINE L == Len(x.heap[o].kids)
<1>1. o \in 1 .. Len(x.heap) /\ L \in Nat /\ Len(x.container_stack) \in Nat
  BY TreeFacts DEF Founded
<1>2. x.heap[o].freed = 0
  BY DEF Tree, Ind, Live
<1>3. x.heap[o].kind \in {"array", "map"}
  BY DEF Tree, Ind, Frames, Suits
<1>4. /\ x.heap[o].val = "none"
      /\ x.heap[o].kind = "map" => \E n \in Nat : L = 2 * n
  BY <1>1, <1>2, <1>3 DEF Tree, Formed
<1>7. L \in Nat
  BY <1>1
<1> HIDE DEF L
<1>5. CASE i = Len(x.container_stack)
  <2>1. m = L
    BY <1>1, <1>5 DEF LastKids, L
  <2> QED BY <1>1, <1>2, <1>3, <1>4, <1>5, <2>1 DEF L
<1>6. CASE i # Len(x.container_stack)
  <2>1. L > 0
    <3>1. i \in 1 .. Len(x.container_stack) - 1
      BY <1>1, <1>6
    <3> QED BY <3>1 DEF Tree, Ind, Path, L
  <2>2. CASE x.heap[o].kind = "map"
    <3>1. m = L - 2
      BY <1>6, <2>2 DEF LastKids, L
    <3>2. L >= 2
      BY <1>4, <2>1, <2>2
    <3>3. m \in Nat /\ m <= L /\ m + 2 = L
      BY ONLY <1>7, <3>1, <3>2
    <3> QED BY <1>1, <1>2, <1>3, <1>4, <1>6, <2>2, <3>3 DEF L
  <2>3. CASE x.heap[o].kind = "array"
    <3>1. m = L - 1
      BY <1>6, <2>3 DEF LastKids, L
    <3>2. m \in Nat /\ m <= L /\ m + 1 = L
      BY SMTT(30), <1>1, <2>1, <3>1
    <3> QED BY <1>1, <1>2, <1>3, <1>4, <1>6, <2>3, <3>2 DEF L
  <2> QED BY <1>3, <2>2, <2>3
<1> QED BY <1>5, <1>6

(* A step that leaves all open containers but the innermost alone, and every
   value that is not open, leaves their entries alone. *)
LEMMA EntriesKept ==
  ASSUME NEW V, NEW x, Tree(V, x), NEW y,
         NEW n \in Nat, n = Len(x.container_stack),
         Len(y.container_stack) \in Nat, Len(y.container_stack) >= n,
         \A i \in 1 .. n : y.container_stack[i] = x.container_stack[i],
         \A i \in 1 .. n - 1 : y.heap[x.container_stack[i]] = x.heap[x.container_stack[i]],
         \A o \in Shut(x) : Seen(y.heap)[o] = Seen(x.heap)[o]
  PROVE  /\ \A i \in 1 .. n - 1 : OpenEntry(y, i) = OpenEntry(x, i)
         /\ \A i \in 1 .. n : KeyOver(y, i) = KeyOver(x, i)
<1>1. ASSUME NEW i \in 1 .. n, i # 1
      PROVE  KeyOver(y, i) = KeyOver(x, i)
  <2> DEFINE L(o) == Len(x.heap[o].kids)
  <2>1. i - 1 \in 1 .. n /\ i - 1 \in 1 .. n - 1 /\ i - 1 # n
    BY <1>1
  <2>0. PICK o : o = x.container_stack[i - 1]
    OBVIOUS
  <2>2. y.container_stack[i - 1] = o /\ y.heap[o] = x.heap[o]
    BY <2>0, <2>1
  <2>3. /\ o \in 1 .. Len(x.heap) /\ x.heap[o].kind \in {"array", "map"} /\ L(o) \in Nat
        /\ x.heap[o].kind = "map" => L(o) >= 2
    <3>1. PICK m : m = L(o) - LastKids(x, i - 1)
      OBVIOUS
    <3>2. i - 1 \in 1 .. Len(x.container_stack) /\ i - 1 # Len(x.container_stack)
      BY <2>1
    <3>3. Opening(x, i - 1, o, m)
      BY <2>0, <3>1, <3>2, OpenObject
    <3> QED BY <3>2, <3>3 DEF Opening
  <2>4. CASE x.heap[o].kind = "array"
    BY SMTT(30), <2>2, <2>4 DEF KeyOver
  <2>5. CASE x.heap[o].kind = "map"
    <3>1. L(o) - 1 \in 1 .. L(o) /\ L(o) - 1 < L(o)
      <4> HIDE DEF L
      <4> QED BY <2>3, <2>5
    <3>2. x.heap[o].kids[L(o) - 1] \in Shut(x)
      BY <2>3, <3>1, ShutKids
    <3>3. KeyOver(x, i) = Seen(x.heap)[x.heap[o].kids[L(o) - 1]]
      BY <1>1, <2>0, <2>5 DEF KeyOver
    <3>4. KeyOver(y, i) = Seen(y.heap)[x.heap[o].kids[L(o) - 1]]
      BY <1>1, <2>2, <2>5 DEF KeyOver
    <3> HIDE DEF L
    <3> QED BY <3>2, <3>3, <3>4
  <2> QED BY <2>3, <2>4, <2>5
<1>2. \A i \in 1 .. n : KeyOver(y, i) = KeyOver(x, i)
  <2>1. KeyOver(y, 1) = Nil /\ KeyOver(x, 1) = Nil
    BY DEF KeyOver
  <2> QED BY <1>1, <2>1
<1>3. ASSUME NEW i \in 1 .. n - 1
      PROVE  OpenEntry(y, i) = OpenEntry(x, i)
  <2>1. i \in 1 .. n /\ i # n /\ i # Len(y.container_stack)
    OBVIOUS
  <2>0. PICK o, m : o = x.container_stack[i] /\ m = Len(x.heap[o].kids) - LastKids(x, i)
    OBVIOUS
  <2> DEFINE I == Items(x.heap, o, m, Seen(x.heap))
             J == Items(y.heap, o, m, Seen(y.heap))
  <2>2. y.container_stack[i] = o /\ y.heap[o] = x.heap[o] /\ KeyOver(y, i) = KeyOver(x, i)
    BY <1>2, <2>0, <2>1
  <2>3. LastKids(y, i) = LastKids(x, i)
    BY <2>0, <2>1, <2>2 DEF LastKids
  <2>4. /\ o \in 1 .. Len(x.heap) /\ m \in Nat /\ m < Len(x.heap[o].kids)
        /\ Len(x.heap[o].kids) \in Nat
    <3>1. i \in 1 .. Len(x.container_stack) /\ i # Len(x.container_stack)
      BY <2>1
    <3>2. Opening(x, i, o, m)
      BY <2>0, <3>1, OpenObject
    <3> QED BY <3>1, <3>2 DEF Opening
  <2>5. ASSUME NEW j \in 1 .. m
        PROVE  Seen(y.heap)[y.heap[o].kids[j]] = Seen(x.heap)[x.heap[o].kids[j]]
    <3>1. j \in 1 .. Len(x.heap[o].kids) /\ j < Len(x.heap[o].kids)
      BY SMTT(30), <2>4
    <3>2. x.heap[o].kids[j] \in Shut(x)
      BY <2>4, <3>1, ShutKids
    <3> QED BY <2>2, <3>2
  <2>6. J = I
    <3>1. PICK h, g : h = x.heap /\ g = y.heap
      OBVIOUS
    <3>2. PICK s, t : s = Seen(h) /\ t = Seen(g)
      OBVIOUS
    <3>3. g[o].kind = h[o].kind
      BY <2>2, <3>1
    <3>4. \A j \in 1 .. m : t[g[o].kids[j]] = s[h[o].kids[j]]
      BY <2>5, <3>1, <3>2
    <3>5. m \in Nat
      BY <2>4
    <3>6. Alike(h, g, o, m, s, t)
      BY <3>3, <3>4, <3>5 DEF Alike
    <3>7. Items(g, o, m, t) = Items(h, o, m, s)
      BY <3>6, ItemsEqual
    <3> QED BY <3>1, <3>2, <3>7
  <2>7. OpenEntry(x, i) = [kind |-> x.heap[o].kind, under |-> KeyOver(x, i), items |-> I]
    BY <2>0 DEF OpenEntry
  <2>8. OpenEntry(y, i) = [kind |-> x.heap[o].kind, under |-> KeyOver(x, i), items |-> J]
    BY <2>0, <2>2, <2>3 DEF OpenEntry
  <2> HIDE DEF I, J
  <2> QED BY <2>6, <2>7, <2>8
<1> QED BY <1>2, <1>3

(* What the state on top of the stack says about the innermost container and
   the pending key. *)
LEMMA TopStates ==
  ASSUME NEW V, NEW x, Tree(V, x), NEW n, n = Len(x.container_stack),
         NEW st, st = Top(x.state_stack)
  PROVE  /\ n \in Nat /\ st \in States
         /\ st = "TOP_LEVEL" => n = 0
         /\ st \in ArrayStates => n > 0 /\ x.heap[x.container_stack[n]].kind = "array"
         /\ st \in MapStates => n > 0 /\ x.heap[x.container_stack[n]].kind = "map"
         /\ st \in NeedsKey => /\ x.key \in 1 .. Len(x.heap)
                               /\ x.heap[x.key].kind = "string" /\ x.heap[x.key].freed = 0
<1> DEFINE ss == x.state_stack
           cs == x.container_stack
<1>1. /\ ss \in Seq(States) /\ Len(ss) = n + 1 /\ n \in Nat
      /\ x.key \in 0 .. Len(x.heap) /\ Len(x.heap) \in Nat
  BY TreeFacts
<1>2. st = ss[n + 1] /\ st \in States
  BY <1>1 DEF Top
<1>3. /\ ss[1] = "TOP_LEVEL"
      /\ \A i \in 1 .. n : Suits(x.heap[cs[i]].kind, ss[i + 1])
      /\ st \in NeedsKey => x.key > 0 /\ x.heap[x.key].kind = "string" /\ x.heap[x.key].freed = 0
  <2>1. Frames(ss, cs, x.heap) /\ Keyed(ss, x.key, x.heap)
    BY DEF Tree, Ind
  <2> QED BY <1>1, <1>2, <2>1 DEF Frames, Keyed
<1>4. CASE n = 0
  <2>1. st = "TOP_LEVEL"
    BY <1>2, <1>3, <1>4
  <2> QED BY <1>1, <1>2, <1>4, <2>1 DEF ArrayStates, MapStates, NeedsKey
<1>5. CASE n # 0
  <2>1. n \in 1 .. n
    BY <1>1, <1>5
  <2>2. Suits(x.heap[cs[n]].kind, st)
    BY <1>2, <1>3, <2>1
  <2> QED BY <1>1, <1>2, <1>3, <1>5, <2>2 DEF Suits, ArrayStates, MapStates
<1> QED BY <1>4, <1>5

(* The pending key and the last value, as they are seen. *)
KeySeen(x) == ValueAt(x.heap, x.key)
ValueSeen(x) == IF Len(x.container_stack) = 0 THEN ValueAt(x.heap, x.llsd) ELSE Nil

(* The innermost open container has all its items. *)
LEMMA InnermostEntry ==
  ASSUME NEW V, NEW x, Tree(V, x), NEW n, n = Len(x.container_stack), n > 0,
         NEW o, o = x.container_stack[n]
  PROVE  /\ OpenEntry(x, n) = [kind  |-> x.heap[o].kind, under |-> KeyOver(x, n),
                               items |-> Items(x.heap, o, Len(x.heap[o].kids), Seen(x.heap))]
         /\ Opening(x, n, o, Len(x.heap[o].kids))
<1>1. n \in Nat /\ n \in 1 .. Len(x.container_stack)
  BY TreeFacts
<1>2. LastKids(x, n) = 0
  BY DEF LastKids
<1>3. PICK m : m = Len(x.heap[o].kids) - LastKids(x, n)
  OBVIOUS
<1>4. Opening(x, n, o, m)
  BY <1>1, <1>3, OpenObject
<1>5. m = Len(x.heap[o].kids)
  BY <1>4 DEF Opening
<1> QED BY <1>3, <1>4, <1>5 DEF OpenEntry

(* OpenNow is a sequence with an entry for each open container. *)
LEMMA OpenNowFacts ==
  ASSUME NEW x, Len(x.container_stack) \in Nat
  PROVE  /\ Counted(OpenNow(x), Len(x.container_stack))
         /\ \A i \in 1 .. Len(x.container_stack) : OpenNow(x)[i] = OpenEntry(x, i)
         /\ Len(OpenNow(x)) = Len(x.container_stack)
         /\ Len(x.container_stack) = 0 => OpenNow(x) = << >>
<1> DEFINE n == Len(x.container_stack)
           f == OpenNow(x)
<1>1. f = [i \in 1 .. n |-> OpenEntry(x, i)]
  BY DEF OpenNow
<1> HIDE DEF f, n
<1>2. \A i \in 1 .. n : f[i] = OpenEntry(x, i)
  BY <1>1
<1>3. Counted(f, n)
  BY <1>1 DEF Counted
<1>4. n \in Nat
  BY DEF n
<1>5. f \in Seq({f[i] : i \in 1 .. n}) /\ Len(f) = n
  BY <1>3, <1>4, SeqOfFunction
<1>6. n = 0 => f = << >>
  BY <1>5
<1> QED BY <1>2, <1>3, <1>5, <1>6 DEF f, n

(* y has every object that x has, and the same containers open. *)
SameObjects(x, y) ==
  /\ Founded(y.heap)
  /\ Len(y.heap) >= Len(x.heap)
  /\ \A o \in 1 .. Len(x.heap) : y.heap[o] = x.heap[o]
  /\ y.container_stack = x.container_stack

(* Then every object and what is open is seen as before. *)
LEMMA SameSeen ==
  ASSUME NEW V, NEW x, Tree(V, x), NEW y, SameObjects(x, y)
  PROVE  /\ OpenNow(y) = OpenNow(x)
         /\ \A o \in 1 .. Len(x.heap) : Seen(y.heap)[o] = Seen(x.heap)[o]
<1> USE DEF SameObjects
<1> DEFINE N == Len(x.heap)
           cs == x.container_stack
<1>1. PICK n : n = Len(cs)
  OBVIOUS
<1>2. /\ N \in Nat /\ Len(y.heap) \in Nat /\ n \in Nat /\ Founded(x.heap)
      /\ x.key \in 0 .. N /\ x.llsd \in 0 .. N
      /\ \A i \in 1 .. n : cs[i] \in 1 .. N
  BY <1>1, TreeFacts DEF Founded
<1>3. \A o \in 1 .. N : Seen(y.heap)[o] = Seen(x.heap)[o]
  <2>1. 1 .. N \subseteq 1 .. Len(y.heap)
    BY <1>2
  <2>2. \A o \in 1 .. N : \A i \in 1 .. Len(x.heap[o].kids) : x.heap[o].kids[i] \in 1 .. N
    BY <1>2 DEF Founded
  <2>3. Common(x.heap, y.heap, 1 .. N)
    BY <1>2, <2>1, <2>2 DEF Common
  <2> QED BY <2>3, SeenEqual
<1>4. \A i \in 1 .. n : KeyOver(y, i) = KeyOver(x, i)
  <2>1. \A o \in Shut(x) : Seen(y.heap)[o] = Seen(x.heap)[o]
    BY <1>3 DEF Shut
  <2>2. /\ Len(y.container_stack) \in Nat /\ Len(y.container_stack) >= n
        /\ \A i \in 1 .. n : y.container_stack[i] = x.container_stack[i]
    BY <1>1, <1>2
  <2>3. \A i \in 1 .. n - 1 : y.heap[x.container_stack[i]] = x.heap[x.container_stack[i]]
    BY <1>2
  <2> QED BY <1>1, <1>2, <2>1, <2>2, <2>3, EntriesKept
<1>5. ASSUME NEW i \in 1 .. n
      PROVE  OpenEntry(y, i) = OpenEntry(x, i)
  <2>1. PICK o, m : o = cs[i] /\ m = Len(x.heap[o].kids) - LastKids(x, i)
    OBVIOUS
  <2>2. Opening(x, i, o, m)
    BY <1>1, <2>1, OpenObject
  <2>3. o \in 1 .. N /\ m \in Nat /\ m <= Len(x.heap[o].kids) /\ Len(x.heap[o].kids) \in Nat
    BY <2>2 DEF Opening
  <2>4. y.heap[o] = x.heap[o] /\ y.container_stack[i] = o
    BY <2>1, <2>3
  <2>5. LastKids(y, i) = LastKids(x, i)
    BY <2>1, <2>4 DEF LastKids
  <2>6. Items(y.heap, o, m, Seen(y.heap)) = Items(x.heap, o, m, Seen(x.heap))
    <3>1. PICK h, g : h = x.heap /\ g = y.heap
      OBVIOUS
    <3>2. PICK s, t : s = Seen(h) /\ t = Seen(g)
      OBVIOUS
    <3>3. g[o].kind = h[o].kind
      BY <2>4, <3>1
    <3>4. ASSUME NEW j \in 1 .. m
          PROVE  t[g[o].kids[j]] = s[h[o].kids[j]]
      <4>1. j \in 1 .. Len(x.heap[o].kids)
        BY <2>3
      <4>2. x.heap[o].kids[j] \in 1 .. N
        BY <1>2, <2>3, <4>1 DEF Founded
      <4> QED BY <1>3, <2>4, <3>1, <3>2, <4>2
    <3>5. m \in Nat
      BY <2>3
    <3>6. Alike(h, g, o, m, s, t)
      BY <3>3, <3>4, <3>5 DEF Alike
    <3>7. Items(g, o, m, t) = Items(h, o, m, s)
      BY <3>6, ItemsEqual
    <3> QED BY <3>1, <3>2, <3>7
  <2>7. KeyOver(y, i) = KeyOver(x, i)
    BY <1>4
  <2> QED BY <2>1, <2>4, <2>5, <2>6, <2>7 DEF OpenEntry
<1>6. OpenNow(y) = OpenNow(x)
  <2>1. OpenNow(x) = [i \in 1 .. n |-> OpenEntry(x, i)]
    BY <1>1 DEF OpenNow
  <2>2. OpenNow(y) = [i \in 1 .. n |-> OpenEntry(y, i)]
    BY <1>1 DEF OpenNow
  <2> QED BY <1>5, <2>1, <2>2
<1> QED BY <1>3, <1>6

(* WithItem, where both stacks are known. *)
LEMMA WithItemIs ==
  ASSUME NEW n \in Nat, n > 0, NEW s, Counted(s, n), NEW t, Counted(t, n),
         \A i \in 1 .. n - 1 : t[i] = s[i],
         NEW k, NEW u, NEW m, NEW item,
         s[n] = [kind |-> k, under |-> u, items |-> m],
         t[n] = [kind |-> k, under |-> u, items |-> Append(m, item)]
  PROVE  t = Assembly!WithItem(s, item)
<1> DEFINE w == Assembly!WithItem(s, item)
<1>1. Len(s) = n
  BY SeqOfFunction
<1>2. w = [s EXCEPT ![n] = [s[n] EXCEPT !.items = Append(s[n].items, item)]]
  BY <1>1 DEF Assembly!WithItem
<1>3. [s[n] EXCEPT !.items = Append(s[n].items, item)] = t[n]
  <2>1. PICK r : r = [kind |-> k, under |-> u, items |-> m]
    OBVIOUS
  <2>2. s[n] = r /\ r.items = m
    BY <2>1
  <2>3. [r EXCEPT !.items = Append(m, item)] = [kind |-> k, under |-> u, items |-> Append(m, item)]
    BY SMTT(30), <2>1
  <2> QED BY <2>2, <2>3, Zenon
<1>4. w = [s EXCEPT ![n] = t[n]]
  BY <1>2, <1>3
<1> HIDE DEF w
<1>5. DOMAIN s = 1 .. n /\ DOMAIN t = 1 .. n
  BY DEF Counted
<1>6. w = [i \in 1 .. n |-> IF i = n THEN t[n] ELSE s[i]]
  BY <1>4, <1>5
<1>7. \A i \in 1 .. n : (IF i = n THEN t[n] ELSE s[i]) = t[i]
  OBVIOUS
<1>8. t = [i \in 1 .. n |-> t[i]]
  BY DEF Counted
<1>9. w = t
  BY ONLY SMTT(30), <1>6, <1>7, <1>8
<1> QED BY <1>9 DEF w

(* c is the innermost open container. *)
Inner(x, c) == Len(x.container_stack) > 0 /\ c = x.container_stack[Len(x.container_stack)]

(* The object at c holds the values of g behind those it held. *)
GivenTo(x, y, c, g) ==
  LET L == Len(x.heap[c].kids)
  IN  /\ y.heap[c].kind = x.heap[c].kind /\ L \in Nat
      /\ Len(y.heap[c].kids) = L + Len(g)
      /\ \A i \in 1 .. L : y.heap[c].kids[i] = x.heap[c].kids[i]
      /\ \A j \in 1 .. Len(g) : y.heap[c].kids[L + j] = g[j]

(* What the innermost container holds once it has been given a value. *)
LEMMA GivenKids ==
  ASSUME NEW V, NEW x, Tree(V, x), NEW y, NEW kind, NEW val, Taken(x, y, kind, val),
         NEW c, Inner(x, c),
         NEW g \in Seq(Nat), g = Given(x, Len(x.heap) + 1)
  PROVE  GivenTo(x, y, c, g)
<1> DEFINE n == Len(x.container_stack)
           k == x.heap[c].kids
           L == Len(x.heap[c].kids)
<1>0. n > 0 /\ c = x.container_stack[n]
  BY DEF Inner
<1>1. n \in Nat /\ n \in 1 .. Len(x.container_stack) /\ x.container_stack \in Seq(Nat)
  BY <1>0, TreeFacts
<1>2. c \in 1 .. Len(x.heap) /\ x.heap \in Seq(Object(V))
  BY <1>0, <1>1, TreeFacts
<1>3. x.heap[c] \in Object(V) /\ k \in Seq(Nat)
  BY <1>2, ObjectFields
<1>4. TopObj(x.container_stack) = c
  BY <1>0, <1>1, TopFacts
<1>5. y.heap[c] = [x.heap[c] EXCEPT !.kids = k \o g]
  BY <1>2, <1>4 DEF Taken
<1> HIDE DEF k
<1>6. y.heap[c].kind = x.heap[c].kind /\ y.heap[c].kids = k \o g
  BY <1>3, <1>5 DEF Object
<1>7. /\ Len(k \o g) = Len(k) + Len(g)
      /\ \A j \in 1 .. Len(k) + Len(g) : (k \o g)[j] = IF j <= Len(k) THEN k[j] ELSE g[j - Len(k)]
  BY <1>3, ConcatProperties
<1>8. L = Len(k) /\ L \in Nat /\ Len(g) \in Nat
  <2>1. L = Len(k)
    BY DEF k
  <2>2. Len(k) \in Nat
    BY <1>3, LenProperties
  <2>3. Len(g) \in Nat
    BY LenProperties
  <2> QED BY <2>1, <2>2, <2>3
<1>9. ASSUME NEW i \in 1 .. L PROVE y.heap[c].kids[i] = k[i]
  <2>1. i \in 1 .. Len(k) + Len(g) /\ i <= Len(k)
    BY <1>8
  <2> QED BY <1>6, <1>7, <2>1
<1>10. ASSUME NEW j \in 1 .. Len(g) PROVE y.heap[c].kids[L + j] = g[j]
  <2>1. L + j \in 1 .. Len(k) + Len(g) /\ ~(L + j <= Len(k)) /\ (L + j) - Len(k) = j
    BY <1>8
  <2> QED BY <1>6, <1>7, <2>1
<1> QED BY <1>6, <1>7, <1>8, <1>9, <1>10 DEF k, GivenTo

(* Of all objects only the innermost container has changed, if any has, and the
   new one is seen as the leaf that it is. *)
ChangedInside(x, y, kind, val) ==
  /\ \A o \in Shut(x) : o \in 1 .. Len(x.heap) /\ Seen(y.heap)[o] = Seen(x.heap)[o]
  /\ \A i \in 1 .. Len(x.container_stack) - 1 :
       y.heap[x.container_stack[i]] = x.heap[x.container_stack[i]]
  /\ Len(x.heap) + 1 \in 1 .. Len(y.heap)
  /\ Seen(y.heap)[Len(x.heap) + 1] = [kind |-> kind, val |-> val, items |-> << >>]
  /\ y.container_stack = x.container_stack

(* That is what taking a value does. *)
LEMMA TakenSeen ==
  ASSUME NEW V, NEW x, Tree(V, x), NEW y, NEW kind, NEW val, Taken(x, y, kind, val),
         Founded(y.heap)
  PROVE  ChangedInside(x, y, kind, val)
<1> DEFINE n == Len(x.container_stack)
           v == Len(x.heap) + 1
           cs == x.container_stack
           c == TopObj(cs)
<1>1. /\ Len(x.heap) \in Nat /\ n \in Nat /\ Founded(x.heap) /\ cs \in Seq(Nat)
      /\ \A i \in 1 .. n : cs[i] \in 1 .. Len(x.heap)
  BY TreeFacts
<1>2. /\ Len(y.heap) = v /\ y.heap[v] = New(kind, val)
      /\ \A o \in 1 .. Len(x.heap) : o # c => y.heap[o] = x.heap[o]
      /\ y.container_stack = cs
  BY DEF Taken
<1>3. v \in 1 .. Len(y.heap)
  BY <1>1, <1>2
<1>4. n > 0 => c = cs[n]
  BY <1>1, TopFacts
<1>5. ASSUME NEW o \in Shut(x) PROVE o \in 1 .. Len(x.heap) /\ y.heap[o] = x.heap[o]
  <2>1. o \in 1 .. Len(x.heap) /\ \A i \in 1 .. n : cs[i] # o
    BY DEF Shut
  <2>2. CASE n > 0
    <3>1. n \in 1 .. n
      BY <1>1, <2>2
    <3> QED BY <1>2, <1>4, <2>1, <2>2, <3>1
  <2>3. CASE n = 0
    <3>1. c \in 0 .. Len(x.heap) /\ (n = 0 => c = 0)
      BY SMTT(30), <1>1 DEF TopObj
    <3> QED BY <1>2, <2>1, <2>3, <3>1
  <2> QED BY <1>1, <2>2, <2>3
<1>6. ASSUME NEW i \in 1 .. n - 1 PROVE y.heap[cs[i]] = x.heap[cs[i]]
  <2>1. i \in 1 .. n /\ n \in 1 .. n /\ i < n /\ n > 0
    BY <1>1
  <2>2. cs[i] < cs[n]
    BY <2>1 DEF Tree, Ind, Path
  <2>3. cs[i] \in 1 .. Len(x.heap) /\ cs[n] \in 1 .. Len(x.heap)
    BY <1>1, <2>1
  <2>4. cs[i] # c
    BY <1>4, <2>1, <2>2, <2>3
  <2> QED BY <1>2, <2>3, <2>4
<1>7. Common(x.heap, y.heap, Shut(x))
  <2>1. Shut(x) \subseteq 1 .. Len(x.heap)
    BY DEF Shut
  <2>2. \A o \in 1 .. Len(x.heap) : o \in 1 .. Len(y.heap)
    BY <1>1, <1>2
  <2>3. ASSUME NEW o \in Shut(x), NEW i \in 1 .. Len(x.heap[o].kids)
        PROVE  x.heap[o].kids[i] \in Shut(x)
    BY <2>1, ShutKids
  <2> QED BY <1>1, <1>5, <2>1, <2>2, <2>3 DEF Common
<1>8. \A o \in Shut(x) : Seen(y.heap)[o] = Seen(x.heap)[o]
  BY <1>7, SeenEqual
<1>9. Seen(y.heap)[v] = [kind |-> kind, val |-> val, items |-> << >>]
  <2>1. Seen(y.heap)[v] = Node(y.heap, v, Seen(y.heap))
    BY <1>3, SeenEquation
  <2>2. /\ y.heap[v].kind = kind /\ y.heap[v].val = val
        /\ y.heap[v].kids = << >> /\ y.heap[v].freed = 0
    BY <1>2 DEF New
  <2>3. Items(y.heap, v, 0, Seen(y.heap)) = << >>
    BY DEF Items
  <2>4. Len(y.heap[v].kids) = 0
    BY <2>2
  <2> QED BY <2>1, <2>2, <2>3, <2>4 DEF Node
<1> QED BY <1>2, <1>3, <1>5, <1>6, <1>8, <1>9 DEF ChangedInside

(* The object at c holds k kids more than it did, which are one item more. *)
MoreItems(x, y, c, k, item) ==
  LET L == Len(x.heap[c].kids)
  IN  /\ L \in Nat /\ Len(y.heap[c].kids) = L + k
      /\ y.heap[c].kind = x.heap[c].kind
      /\ Items(y.heap, c, L, Seen(y.heap)) = Items(x.heap, c, L, Seen(x.heap))
      /\ Items(y.heap, c, L + k, Seen(y.heap))
           = Append(Items(x.heap, c, L, Seen(x.heap)), item)

(* What the innermost container held is still seen in it when a value is taken. *)
LEMMA TakenAlike ==
  ASSUME NEW V, NEW x, Tree(V, x), NEW y, NEW kind, NEW val, Taken(x, y, kind, val),
         Founded(y.heap), NEW c, Inner(x, c),
         NEW L, L = Len(x.heap[c].kids)
  PROVE  Alike(x.heap, y.heap, c, L, Seen(x.heap), Seen(y.heap))
<1>1. c \in 1 .. Len(x.heap) /\ c = x.container_stack[Len(x.container_stack)]
  BY TreeFacts DEF Inner
<1>2. PICK g : g = Given(x, Len(x.heap) + 1)
  OBVIOUS
<1>3. g \in Seq(Nat)
  BY <1>2, GivenApart DEF Tree
<1>6. GivenTo(x, y, c, g)
  BY <1>2, <1>3, GivenKids
<1>4. /\ y.heap[c].kind = x.heap[c].kind /\ L \in Nat
      /\ \A i \in 1 .. L : y.heap[c].kids[i] = x.heap[c].kids[i]
  BY <1>6 DEF GivenTo
<1>7. ChangedInside(x, y, kind, val)
  BY TakenSeen
<1>5. ASSUME NEW i \in 1 .. L
      PROVE  Seen(y.heap)[y.heap[c].kids[i]] = Seen(x.heap)[x.heap[c].kids[i]]
  <2>1. x.heap[c].kids[i] \in Shut(x)
    BY SMTT(30), <1>1, ShutKids DEF Inner
  <2>2. \A o \in Shut(x) : Seen(y.heap)[o] = Seen(x.heap)[o]
    BY <1>7 DEF ChangedInside
  <2> QED BY <1>4, <2>1, <2>2
<1> QED BY <1>4, <1>5 DEF Alike

(* An array that is given a value has one item more. *)
LEMMA ArrayGiven ==
  ASSUME NEW V, NEW x, Tree(V, x), NEW y, NEW kind, NEW val, Taken(x, y, kind, val),
         Founded(y.heap), NEW c, Inner(x, c),
         NEW leaf, leaf = [kind |-> kind, val |-> val, items |-> << >>],
         Top(x.state_stack) = "ARRAY_VALUE_BEGIN"
  PROVE  x.heap[c].kind = "array" /\ MoreItems(x, y, c, 1, leaf)
<1>1. PICK v, L, g : v = Len(x.heap) + 1 /\ L = Len(x.heap[c].kids) /\ g = Given(x, v)
  OBVIOUS
<1>2. Len(x.heap) \in Nat /\ x.heap[c].kind = "array"
  BY SMTT(30), TreeFacts, TopStates DEF ArrayStates, Inner
<1>3. g = <<v>>
  BY <1>1 DEF Given
<1>4. g \in Seq(Nat) /\ Len(g) = 1 /\ g[1] = v
  <2>1. v \in Nat
    BY <1>1, <1>2
  <2> QED BY <1>3, <2>1
<1>5. /\ y.heap[c].kind = x.heap[c].kind /\ L \in Nat
      /\ Len(y.heap[c].kids) = L + Len(g)
      /\ \A j \in 1 .. Len(g) : y.heap[c].kids[L + j] = g[j]
  <2>1. GivenTo(x, y, c, g)
    BY <1>1, <1>4, GivenKids
  <2> QED BY <1>1, <2>1 DEF GivenTo
<1>6. PICK p : p = L + 1
  OBVIOUS
<1>7. Len(y.heap[c].kids) = p /\ y.heap[c].kids[p] = v
  <2>1. 1 \in 1 .. Len(g)
    BY <1>4
  <2>2. y.heap[c].kids[L + 1] = g[1]
    BY <1>5, <2>1
  <2> QED BY <1>4, <1>5, <1>6, <2>2
<1>8. Seen(y.heap)[v] = leaf
  <2>1. ChangedInside(x, y, kind, val)
    BY TakenSeen
  <2> QED BY <1>1, <2>1, Zenon DEF ChangedInside
<1>9. PICK h1, h2, s, t : h1 = x.heap /\ h2 = y.heap /\ s = Seen(h1) /\ t = Seen(h2)
  OBVIOUS
<1>10. Alike(h1, h2, c, L, s, t)
  BY <1>1, <1>9, TakenAlike
<1>11. Items(h2, c, L, t) = Items(h1, c, L, s)
  BY <1>10, ItemsEqual
<1>12. h1[c].kind # "map" /\ v = h2[c].kids[p]
  BY <1>2, <1>7, <1>9
<1>13. Items(h2, c, p, t) = Append(Items(h1, c, L, s), t[v])
  BY ONLY <1>6, <1>10, <1>12, NextItem
<1> QED BY <1>1, <1>2, <1>5, <1>6, <1>7, <1>8, <1>9, <1>11, <1>13 DEF MoreItems

(* A map that is given a value has one pair more, the key of which is the
   pending key. *)
LEMMA MapGiven ==
  ASSUME NEW V, NEW x, Tree(V, x), NEW y, NEW kind, NEW val, Taken(x, y, kind, val),
         Founded(y.heap), NEW c, Inner(x, c),
         NEW pair, pair = <<KeySeen(x), [kind |-> kind, val |-> val, items |-> << >>]>>,
         Top(x.state_stack) = "MAP_VALUE_BEGIN"
  PROVE  /\ x.heap[c].kind = "map" /\ MoreItems(x, y, c, 2, pair)
         /\ Seen(y.heap)[y.heap[c].kids[Len(y.heap[c].kids) - 1]] = KeySeen(x)
<1>1. PICK v, L, g, k : /\ v = Len(x.heap) + 1 /\ L = Len(x.heap[c].kids)
                        /\ k = x.key /\ g = Given(x, v)
  OBVIOUS
<1>2. Len(x.heap) \in Nat /\ k \in Nat /\ k # 0 /\ x.heap[c].kind = "map"
  <2>1. Len(x.heap) \in Nat /\ x.key \in 0 .. Len(x.heap)
    BY TreeFacts
  <2>2. x.key # 0 /\ x.heap[c].kind = "map"
    BY TopStates DEF MapStates, NeedsKey, Inner
  <2> QED BY <1>1, <2>1, <2>2
<1>3. g = <<k, v>>
  BY <1>1 DEF Given
<1>4. g \in Seq(Nat) /\ Len(g) = 2 /\ g[1] = k /\ g[2] = v
  <2>1. v \in Nat
    BY <1>1, <1>2
  <2> QED BY <1>2, <1>3, <2>1
<1>5. /\ y.heap[c].kind = x.heap[c].kind /\ L \in Nat
      /\ Len(y.heap[c].kids) = L + Len(g)
      /\ \A j \in 1 .. Len(g) : y.heap[c].kids[L + j] = g[j]
  <2>1. GivenTo(x, y, c, g)
    BY <1>1, <1>4, GivenKids
  <2> QED BY <1>1, <2>1 DEF GivenTo
<1>6. PICK q : q = L + 2
  OBVIOUS
<1>7. Len(y.heap[c].kids) = q /\ y.heap[c].kids[L + 1] = k /\ y.heap[c].kids[q] = v
  <2>1. 1 \in 1 .. Len(g) /\ 2 \in 1 .. Len(g)
    BY <1>4
  <2>2. y.heap[c].kids[L + 1] = g[1] /\ y.heap[c].kids[L + 2] = g[2]
    BY <1>5, <2>1
  <2> QED BY <1>4, <1>5, <1>6, <2>2
<1>8. /\ Seen(y.heap)[v] = [kind |-> kind, val |-> val, items |-> << >>]
      /\ Seen(y.heap)[k] = KeySeen(x)
  <2>1. /\ Seen(y.heap)[v] = [kind |-> kind, val |-> val, items |-> << >>]
        /\ \A o \in Shut(x) : Seen(y.heap)[o] = Seen(x.heap)[o]
    <3>1. ChangedInside(x, y, kind, val)
      BY TakenSeen
    <3> QED BY <1>1, <3>1, Zenon DEF ChangedInside
  <2>2. k \in Shut(x)
    BY <1>1, <1>2, ShutKey
  <2> QED BY <1>1, <1>2, <2>1, <2>2 DEF KeySeen, ValueAt
<1>9. PICK h1, h2, s, t : h1 = x.heap /\ h2 = y.heap /\ s = Seen(h1) /\ t = Seen(h2)
  OBVIOUS
<1>10. Alike(h1, h2, c, L, s, t)
  BY <1>1, <1>9, TakenAlike
<1>11. Items(h2, c, L, t) = Items(h1, c, L, s)
  BY <1>10, ItemsEqual
<1>12. h1[c].kind = "map" /\ k = h2[c].kids[L + 1] /\ v = h2[c].kids[q]
  BY <1>2, <1>7, <1>9
<1>13. PICK p \in Nat : L = 2 * p
  <2>1. Opening(x, Len(x.container_stack), c, L)
    BY <1>1, InnermostEntry DEF Inner
  <2> QED BY <1>1, <1>2, <2>1 DEF Opening
<1>14. Items(h2, c, q, t) = Append(Items(h1, c, L, s), <<t[k], t[v]>>)
  BY ONLY <1>6, <1>10, <1>12, <1>13, NextPair
<1>15. <<t[k], t[v]>> = pair
  BY <1>8, <1>9, Zenon
<1>16. MoreItems(x, y, c, 2, pair)
  BY <1>1, <1>5, <1>6, <1>7, <1>9, <1>11, <1>14, <1>15 DEF MoreItems
<1>17. Len(y.heap[c].kids) - 1 = L + 1
  BY <1>5, <1>6, <1>7
<1> QED BY <1>2, <1>7, <1>8, <1>16, <1>17

(* The key and the value that are pending stay what they are where they are. *)
LEMMA KeptSeen ==
  ASSUME NEW V, NEW x, Tree(V, x), NEW y, y.key = x.key,
         \A o \in Shut(x) : Seen(y.heap)[o] = Seen(x.heap)[o]
  PROVE  KeySeen(y) = KeySeen(x)
<1>1. x.key # 0 => x.key \in Shut(x)
  BY ShutKey
<1> QED BY <1>1 DEF KeySeen, ValueAt

(* Further out nothing changes when a value is taken. *)
LEMMA TakenOutward ==
  ASSUME NEW V, NEW x, Tree(V, x), NEW d, NEW kind, NEW val, Taken(x, d, kind, val),
         Founded(d.heap), NEW n, n = Len(x.container_stack),
         NEW y, y.heap = d.heap, Len(y.container_stack) \in Nat, Len(y.container_stack) >= n,
         \A i \in 1 .. n : y.container_stack[i] = x.container_stack[i]
  PROVE  /\ n \in Nat
         /\ \A i \in 1 .. n - 1 : OpenEntry(y, i) = OpenEntry(x, i)
         /\ \A i \in 1 .. n : KeyOver(y, i) = KeyOver(x, i)
<1>1. n \in Nat
  BY TreeFacts
<1>2. ChangedInside(x, d, kind, val)
  BY TakenSeen
<1>3. /\ \A o \in Shut(x) : Seen(y.heap)[o] = Seen(x.heap)[o]
      /\ \A i \in 1 .. n - 1 : y.heap[x.container_stack[i]] = x.heap[x.container_stack[i]]
  BY <1>2, Zenon DEF ChangedInside
<1> QED BY ZenonT(60), <1>1, <1>3, EntriesKept

(* The innermost container of y, which has the same containers open as x, has
   an item more than that of x; the others are as they were. *)
OneMore(x, y, n, c, item) ==
  /\ n \in Nat /\ n > 0
  /\ n = Len(x.container_stack) /\ c = x.container_stack[n]
  /\ y.container_stack = x.container_stack
  /\ \A i \in 1 .. n - 1 : OpenEntry(y, i) = OpenEntry(x, i)
  /\ KeyOver(y, n) = KeyOver(x, n)
  /\ y.heap[c].kind = x.heap[c].kind
  /\ Items(y.heap, c, Len(y.heap[c].kids), Seen(y.heap))
       = Append(Items(x.heap, c, Len(x.heap[c].kids), Seen(x.heap)), item)

(* So what is open is what was, with that item. *)
LEMMA OneItemMore ==
  ASSUME NEW V, NEW x, Tree(V, x), NEW y, Tree(V, y), NEW n, NEW c, NEW item,
         OneMore(x, y, n, c, item)
  PROVE  OpenNow(y) = Assembly!WithItem(OpenNow(x), item)
<1>1. PICK s, t : s = OpenNow(x) /\ t = OpenNow(y)
  OBVIOUS
<1>0. n \in Nat /\ n > 0
  BY Zenon DEF OneMore
<1>2. n \in Nat /\ n > 0 /\ n \in 1 .. n
  BY ONLY <1>0
<1>3. /\ n = Len(x.container_stack) /\ n = Len(y.container_stack)
      /\ c = x.container_stack[n] /\ c = y.container_stack[n]
  BY Zenon DEF OneMore
<1>4. Counted(s, n) /\ \A i \in 1 .. n : s[i] = OpenEntry(x, i)
  BY <1>1, <1>2, <1>3, OpenNowFacts
<1>5. Counted(t, n) /\ \A i \in 1 .. n : t[i] = OpenEntry(y, i)
  BY <1>1, <1>2, <1>3, OpenNowFacts
<1>6. PICK k, u, m : /\ k = x.heap[c].kind /\ u = KeyOver(x, n)
                     /\ m = Items(x.heap, c, Len(x.heap[c].kids), Seen(x.heap))
  OBVIOUS
<1>7. OpenEntry(x, n) = [kind |-> k, under |-> u, items |-> m]
  BY <1>2, <1>3, <1>6, InnermostEntry
<1>8. OpenEntry(y, n) = [kind |-> k, under |-> u, items |-> Append(m, item)]
  <2>1. OpenEntry(y, n) = [kind |-> y.heap[c].kind, under |-> KeyOver(y, n),
                           items |-> Items(y.heap, c, Len(y.heap[c].kids), Seen(y.heap))]
    BY <1>2, <1>3, InnermostEntry
  <2> QED BY <1>6, <2>1, Zenon DEF OneMore
<1>9. \A i \in 1 .. n - 1 : t[i] = s[i]
  <2>1. \A i \in 1 .. n - 1 : i \in 1 .. n
    BY <1>2
  <2> QED BY <1>4, <1>5, <2>1, Zenon DEF OneMore
<1>10. s[n] = [kind |-> k, under |-> u, items |-> m]
  BY <1>2, <1>4, <1>7, Zenon
<1>11. t[n] = [kind |-> k, under |-> u, items |-> Append(m, item)]
  BY <1>2, <1>5, <1>8, Zenon
<1>12. t = Assembly!WithItem(s, item)
  BY ONLY <1>2, <1>4, <1>5, <1>9, <1>10, <1>11, WithItemIs
<1> QED BY <1>1, <1>12

(* The innermost entry is of the kind of the innermost container. *)
LEMMA InnerKind ==
  ASSUME NEW V, NEW x, Tree(V, x), NEW c, Inner(x, c)
  PROVE  /\ Len(x.container_stack) \in Nat /\ Len(x.container_stack) > 0
         /\ Len(OpenNow(x)) = Len(x.container_stack)
         /\ OpenNow(x) # << >>
         /\ OpenNow(x)[Len(OpenNow(x))].kind = x.heap[c].kind
<1> DEFINE n == Len(x.container_stack)
<1>1. n > 0 /\ c = x.container_stack[n]
  BY DEF Inner
<1>2. n \in Nat
  BY TreeFacts
<1>3. Len(OpenNow(x)) = n /\ \A i \in 1 .. n : OpenNow(x)[i] = OpenEntry(x, i)
  BY <1>2, OpenNowFacts
<1>4. n \in 1 .. n
  BY ONLY <1>1, <1>2
<1>5. OpenNow(x)[n] = OpenEntry(x, n)
  BY <1>3, <1>4
<1>6. OpenEntry(x, n).kind = x.heap[c].kind
  BY <1>1 DEF OpenEntry
<1>7. OpenNow(x) # << >>
  BY <1>1, <1>3
<1> QED BY <1>1, <1>2, <1>3, <1>5, <1>6, <1>7

(* There is an innermost container unless nothing is open. *)
LEMMA InnerExists ==
  ASSUME NEW V, NEW x, Tree(V, x), Top(x.state_stack) # "TOP_LEVEL"
  PROVE  \E c : Inner(x, c)
<1>1. Len(x.container_stack) > 0
  <2>1. Top(x.state_stack) \in ArrayStates \/ Top(x.state_stack) \in MapStates
    <3>1. Top(x.state_stack) \in States
      BY TopStates
    <3> QED BY <3>1 DEF States, ArrayStates, MapStates
  <2> QED BY <2>1, TopStates
<1> QED BY <1>1 DEF Inner

(* A leaf at the top is the value the parse has. *)
LEMMA TopTakes ==
  ASSUME NEW V, NEW x, Tree(V, x), NEW y, Tree(V, y), NEW kind, NEW val, Taken(x, y, kind, val),
         Top(x.state_stack) = "TOP_LEVEL"
  PROVE  /\ OpenNow(x) = << >> /\ OpenNow(y) = << >>
         /\ KeySeen(y) = KeySeen(x)
         /\ ValueSeen(y) = Assembly!Leaf(kind, val)
<1>1. Len(x.container_stack) = 0 /\ Founded(y.heap)
  <2>1. Len(x.container_stack) = 0
    <3>1. PICK n, st : n = Len(x.container_stack) /\ st = Top(x.state_stack)
      OBVIOUS
    <3>2. st = "TOP_LEVEL" => n = 0
      BY <3>1, TopStates
    <3> QED BY <3>1, <3>2
  <2>2. Founded(y.heap)
    BY TreeFacts
  <2> QED BY <2>1, <2>2
<1>2. ChangedInside(x, y, kind, val)
  BY <1>1, TakenSeen
<1>3. y.container_stack = x.container_stack /\ Len(y.container_stack) = 0
  BY <1>1 DEF Taken
<1>4. OpenNow(x) = << >> /\ OpenNow(y) = << >>
  BY <1>1, <1>3, OpenNowFacts
<1>5. y.key = x.key /\ y.llsd = Len(x.heap) + 1
  BY DEF Taken, AtTop, AsKey, InArray, InMap
<1>6. KeySeen(y) = KeySeen(x)
  BY <1>2, <1>5, KeptSeen DEF ChangedInside
<1>7. Len(x.heap) + 1 # 0
  BY TreeFacts
<1>8. Seen(y.heap)[Len(x.heap) + 1] = [kind |-> kind, val |-> val, items |-> << >>]
  BY <1>2, Zenon DEF ChangedInside
<1>9. ValueSeen(y) = [kind |-> kind, val |-> val, items |-> << >>]
  BY <1>3, <1>5, <1>7, <1>8 DEF ValueSeen, ValueAt
<1> QED BY <1>4, <1>6, <1>9 DEF Assembly!Leaf

(* A key that is taken waits for its value. *)
LEMMA KeyTakes ==
  ASSUME NEW V, NEW x, Tree(V, x), NEW y, Tree(V, y), NEW kind, NEW val, Taken(x, y, kind, val),
         Top(x.state_stack) = "MAP_KEY_BEGIN"
  PROVE  /\ OpenNow(x) # << >> /\ OpenNow(x)[Len(OpenNow(x))].kind = "map"
         /\ OpenNow(y) = OpenNow(x)
         /\ KeySeen(y) = Assembly!Leaf(kind, val)
         /\ ValueSeen(y) = ValueSeen(x)
<1> DEFINE v == Len(x.heap) + 1
<1>1. PICK c : Inner(x, c)
  BY InnerExists
<1>2. /\ OpenNow(x) # << >> /\ OpenNow(x)[Len(OpenNow(x))].kind = x.heap[c].kind
      /\ Len(x.container_stack) > 0
  BY <1>1, InnerKind
<1>3. x.heap[c].kind = "map"
  BY <1>1, TopStates DEF MapStates, Inner
<1>4. /\ y.container_stack = x.container_stack /\ y.key = v
      /\ Len(y.heap) = v
      /\ \A o \in 1 .. Len(x.heap) :
           y.heap[o] = x.heap[o] \/ y.heap[o] = [x.heap[o] EXCEPT !.kids = @ \o << >>]
  <2>1. Given(x, v) = << >>
    BY DEF Given
  <2> QED BY <2>1 DEF Taken, AtTop, AsKey, InArray, InMap
<1>5. /\ Len(x.heap) \in Nat /\ Founded(y.heap)
      /\ \A o \in 1 .. Len(x.heap) : x.heap[o] \in Object(V) /\ x.heap[o].kids \in Seq(Nat)
  <2>1. x.heap \in Seq(Object(V)) /\ Len(x.heap) \in Nat /\ Founded(y.heap)
    BY TreeFacts
  <2> QED BY <2>1, ObjectFields
<1>6. ASSUME NEW o \in 1 .. Len(x.heap) PROVE y.heap[o] = x.heap[o]
  <2>1. PICK k : k = x.heap[o].kids
    OBVIOUS
  <2>2. k \in Seq(Nat) /\ x.heap[o] \in Object(V)
    BY <1>5, <2>1
  <2>3. k \o << >> = k
    BY <2>2
  <2>4. [x.heap[o] EXCEPT !.kids = k] = x.heap[o]
    BY <2>1, <2>2 DEF Object
  <2> QED BY <1>4, <2>1, <2>3, <2>4
<1>7. SameObjects(x, y)
  <2>1. Len(y.heap) >= Len(x.heap)
    BY <1>4, <1>5
  <2> QED BY <1>4, <1>5, <1>6, <2>1 DEF SameObjects
<1>8. OpenNow(y) = OpenNow(x)
  BY <1>7, SameSeen
<1>9. KeySeen(y) = [kind |-> kind, val |-> val, items |-> << >>]
  <2>1. ChangedInside(x, y, kind, val)
    BY <1>5, TakenSeen
  <2>2. Seen(y.heap)[v] = [kind |-> kind, val |-> val, items |-> << >>]
    BY <2>1, Zenon DEF ChangedInside
  <2>3. v # 0
    BY <1>5
  <2> QED BY <1>4, <2>2, <2>3 DEF KeySeen, ValueAt
<1>10. ValueSeen(y) = ValueSeen(x)
  BY <1>2, <1>4 DEF ValueSeen
<1> QED BY <1>2, <1>3, <1>8, <1>9, <1>10 DEF Assembly!Leaf

(* What a container that takes a value keeps as it was. *)
LEMMA InnerTakes ==
  ASSUME NEW V, NEW x, Tree(V, x), NEW y, Tree(V, y), NEW kind, NEW val, Taken(x, y, kind, val),
         NEW c, Inner(x, c), NEW k, NEW item, MoreItems(x, y, c, k, item)
  PROVE  /\ OpenNow(y) = Assembly!WithItem(OpenNow(x), item)
         /\ ValueSeen(y) = ValueSeen(x)
<1>1. PICK n : n = Len(x.container_stack)
  OBVIOUS
<1>2. n \in Nat /\ n > 0 /\ c = x.container_stack[n] /\ n \in 1 .. n
  <2>1. n \in Nat /\ n > 0 /\ c = x.container_stack[n]
    BY <1>1, TreeFacts DEF Inner
  <2> QED BY <2>1
<1>3. y.container_stack = x.container_stack /\ Founded(y.heap)
  BY TreeFacts DEF Taken
<1>4. /\ \A i \in 1 .. n - 1 : OpenEntry(y, i) = OpenEntry(x, i)
      /\ \A i \in 1 .. n : KeyOver(y, i) = KeyOver(x, i)
  <2>1. Len(y.container_stack) \in Nat /\ Len(y.container_stack) >= n
    BY <1>1, <1>2, <1>3
  <2> QED BY <1>1, <1>3, <2>1, TakenOutward
<1>5. KeyOver(y, n) = KeyOver(x, n)
  BY <1>2, <1>4
<1>6. PICK L : L = Len(x.heap[c].kids)
  OBVIOUS
<1>7. /\ L + k = Len(y.heap[c].kids) /\ y.heap[c].kind = x.heap[c].kind
      /\ Items(y.heap, c, L + k, Seen(y.heap)) = Append(Items(x.heap, c, L, Seen(x.heap)), item)
  BY <1>6, Zenon DEF MoreItems
<1>8. Items(y.heap, c, Len(y.heap[c].kids), Seen(y.heap))
        = Append(Items(x.heap, c, Len(x.heap[c].kids), Seen(x.heap)), item)
  BY <1>6, <1>7, Zenon
<1>9. OneMore(x, y, n, c, item)
  BY <1>1, <1>2, <1>3, <1>4, <1>5, <1>7, <1>8, Zenon DEF OneMore
<1>10. OpenNow(y) = Assembly!WithItem(OpenNow(x), item)
  BY <1>9, OneItemMore
<1>11. ValueSeen(y) = ValueSeen(x)
  BY <1>1, <1>2, <1>3 DEF ValueSeen
<1> QED BY <1>10, <1>11

(* A value that an array takes is its next item. *)
LEMMA ArrayTakes ==
  ASSUME NEW V, NEW x, Tree(V, x), NEW y, Tree(V, y), NEW kind, NEW val, Taken(x, y, kind, val),
         Top(x.state_stack) = "ARRAY_VALUE_BEGIN"
  PROVE  /\ OpenNow(x) # << >> /\ OpenNow(x)[Len(OpenNow(x))].kind = "array"
         /\ OpenNow(y) = Assembly!WithItem(OpenNow(x), Assembly!Leaf(kind, val))
         /\ KeySeen(y) = KeySeen(x)
         /\ ValueSeen(y) = ValueSeen(x)
<1>1. PICK c : Inner(x, c)
  BY InnerExists
<1>2. Founded(y.heap)
  BY TreeFacts
<1>3. PICK leaf : leaf = [kind |-> kind, val |-> val, items |-> << >>]
  OBVIOUS
<1>4. x.heap[c].kind = "array" /\ MoreItems(x, y, c, 1, leaf)
  BY <1>1, <1>2, <1>3, ArrayGiven
<1>5. /\ OpenNow(y) = Assembly!WithItem(OpenNow(x), leaf)
      /\ ValueSeen(y) = ValueSeen(x)
  BY <1>1, <1>4, InnerTakes
<1>6. OpenNow(x) # << >> /\ OpenNow(x)[Len(OpenNow(x))].kind = "array"
  BY <1>1, <1>4, InnerKind
<1>7. KeySeen(y) = KeySeen(x)
  <2>1. ChangedInside(x, y, kind, val)
    BY <1>2, TakenSeen
  <2>2. y.key = x.key
    BY DEF Taken, AtTop, AsKey, InArray, InMap
  <2>3. \A o \in Shut(x) : Seen(y.heap)[o] = Seen(x.heap)[o]
    BY <2>1, Zenon DEF ChangedInside
  <2> QED BY <2>2, <2>3, KeptSeen
<1>8. Assembly!Leaf(kind, val) = leaf
  BY <1>3 DEF Assembly!Leaf
<1> QED BY <1>5, <1>6, <1>7, <1>8

(* The pending key is something while a map waits for a value. *)
LEMMA KeyThere ==
  ASSUME NEW V, NEW x, Tree(V, x), Top(x.state_stack) \in NeedsKey
  PROVE  KeySeen(x) # Nil
<1>1. /\ x.key \in 1 .. Len(x.heap) /\ x.heap[x.key].kind = "string"
      /\ x.heap[x.key].freed = 0 /\ x.key # 0 /\ Founded(x.heap)
  <2>1. /\ x.key \in 1 .. Len(x.heap) /\ x.heap[x.key].kind = "string"
        /\ x.heap[x.key].freed = 0
    BY TopStates
  <2>2. Founded(x.heap) /\ Len(x.heap) \in Nat
    BY TreeFacts
  <2> QED BY <2>1, <2>2
<1>2. KeySeen(x) = Node(x.heap, x.key, Seen(x.heap))
  BY <1>1, SeenEquation DEF KeySeen, ValueAt
<1>3. KeySeen(x).kind = "string"
  BY <1>1, <1>2 DEF Node
<1> QED BY <1>3 DEF Nil

(* A value that a map takes is filed in it under the pending key, which is
   then used up. *)
LEMMA MapTakes ==
  ASSUME NEW V, NEW x, Tree(V, x), NEW y, Tree(V, y), NEW kind, NEW val, Taken(x, y, kind, val),
         Top(x.state_stack) = "MAP_VALUE_BEGIN"
  PROVE  /\ OpenNow(x) # << >> /\ OpenNow(x)[Len(OpenNow(x))].kind = "map"
         /\ KeySeen(x) # Nil
         /\ OpenNow(y) = Assembly!WithItem(OpenNow(x), <<KeySeen(x), Assembly!Leaf(kind, val)>>)
         /\ KeySeen(y) = Nil
         /\ ValueSeen(y) = ValueSeen(x)
<1>1. PICK c : Inner(x, c)
  BY InnerExists
<1>2. Founded(y.heap)
  BY TreeFacts
<1>3. PICK pair : pair = <<KeySeen(x), [kind |-> kind, val |-> val, items |-> << >>]>>
  OBVIOUS
<1>4. x.heap[c].kind = "map" /\ MoreItems(x, y, c, 2, pair)
  BY <1>1, <1>2, <1>3, MapGiven
<1>5. /\ OpenNow(y) = Assembly!WithItem(OpenNow(x), pair)
      /\ ValueSeen(y) = ValueSeen(x)
  BY <1>1, <1>4, InnerTakes
<1>6. OpenNow(x) # << >> /\ OpenNow(x)[Len(OpenNow(x))].kind = "map"
  BY <1>1, <1>4, InnerKind
<1>7. KeySeen(y) = Nil
  <2>1. y.key = 0
    BY DEF Taken, AtTop, AsKey, InArray, InMap
  <2> QED BY <2>1 DEF KeySeen, ValueAt
<1>8. <<KeySeen(x), Assembly!Leaf(kind, val)>> = pair
  BY <1>3 DEF Assembly!Leaf
<1>9. KeySeen(x) # Nil
  BY KeyThere DEF NeedsKey
<1> QED BY <1>5, <1>6, <1>7, <1>8, <1>9

-----------------------------------------------------------------------------
(* y is x with one more container open, which has just been taken. *)
Started(x, d, y) ==
  /\ y.heap = d.heap /\ y.key = d.key /\ y.llsd = d.llsd
  /\ y.container_stack = Push(x.container_stack, Len(x.heap) + 1)

(* The containers open in x are open in y, at the same depth. *)
LEMMA BegunStack ==
  ASSUME NEW V, NEW x, Tree(V, x), NEW d, NEW y, Started(x, d, y), NEW n, n = Len(x.container_stack)
  PROVE  /\ n \in Nat /\ Len(y.container_stack) = n + 1
         /\ y.container_stack[n + 1] = Len(x.heap) + 1
         /\ \A i \in 1 .. n : y.container_stack[i] = x.container_stack[i]
<1>1. x.container_stack \in Seq(Nat) /\ Len(x.heap) + 1 \in Nat
  BY TreeFacts
<1>2. PICK cs, v : cs = x.container_stack /\ v = Len(x.heap) + 1
  OBVIOUS
<1>3. cs \in Seq(Nat) /\ v \in Nat
  BY <1>1, <1>2
<1>4. /\ Len(Push(cs, v)) = Len(cs) + 1
      /\ Push(cs, v)[Len(cs) + 1] = v
      /\ \A i \in 1 .. Len(cs) : Push(cs, v)[i] = cs[i]
  BY ONLY <1>3 DEF Push
<1>5. y.container_stack = Push(cs, v) /\ n = Len(cs)
  BY <1>2 DEF Started
<1>6. n \in Nat
  BY <1>3, <1>5
<1> QED BY <1>2, <1>4, <1>5, <1>6

(* What is open in y is what was open in x, with one entry more, provided the
   container around the new one shows what it did. *)
LEMMA OneMoreOpen ==
  ASSUME NEW V, NEW x, Tree(V, x), NEW y, NEW n \in Nat, n = Len(x.container_stack),
         Len(y.container_stack) = n + 1,
         \A i \in 1 .. n : OpenEntry(y, i) = OpenEntry(x, i),
         NEW e, e = OpenEntry(y, n + 1)
  PROVE  OpenNow(y) = Append(OpenNow(x), e)
<1>1. PICK s, t : s = OpenNow(x) /\ t = OpenNow(y)
  OBVIOUS
<1>2. Counted(s, n) /\ \A i \in 1 .. n : s[i] = OpenEntry(x, i)
  BY <1>1, OpenNowFacts
<1>3. Counted(t, n + 1) /\ \A i \in 1 .. n + 1 : t[i] = OpenEntry(y, i)
  BY <1>1, OpenNowFacts
<1>4. \A i \in 1 .. n : t[i] = s[i]
  <2>1. \A i \in 1 .. n : i \in 1 .. n + 1
    OBVIOUS
  <2> QED BY <1>2, <1>3, <2>1, Zenon
<1>5. t[n + 1] = e
  <2>1. n + 1 \in 1 .. n + 1
    OBVIOUS
  <2> QED BY <1>3, <2>1, Zenon
<1>6. n \in Nat
  OBVIOUS
<1>7. t = Append(s, t[n + 1])
  BY ONLY <1>2, <1>3, <1>4, <1>6, AppendFunction
<1> QED BY <1>1, <1>5, <1>7

(* The container around one that begins shows what it did: the new one, and
   the key over it, are not among its items yet. *)
LEMMA AroundBegun ==
  ASSUME NEW V, NEW x, Tree(V, x), NEW d, NEW kind, NEW val, Taken(x, d, kind, val),
         Founded(d.heap), NEW y, Started(x, d, y), NEW c, Inner(x, c),
         NEW k \in {1, 2}, k = (IF x.heap[c].kind = "map" THEN 2 ELSE 1),
         NEW item, MoreItems(x, d, c, k, item)
  PROVE  OpenEntry(y, Len(x.container_stack)) = OpenEntry(x, Len(x.container_stack))
<1>1. PICK n : n = Len(x.container_stack)
  OBVIOUS
<1>2. n \in Nat /\ n > 0 /\ c = x.container_stack[n] /\ n \in 1 .. n /\ n # n + 1
  <2>1. n \in Nat /\ n > 0 /\ c = x.container_stack[n]
    BY <1>1, TreeFacts DEF Inner
  <2> QED BY <2>1
<1>3. /\ Len(y.container_stack) = n + 1
      /\ \A i \in 1 .. n : y.container_stack[i] = x.container_stack[i]
  BY <1>1, BegunStack
<1>4. y.container_stack[n] = c
  BY <1>2, <1>3
<1>5. y.heap = d.heap
  BY DEF Started
<1>6. KeyOver(y, n) = KeyOver(x, n)
  <2>1. Len(y.container_stack) \in Nat /\ Len(y.container_stack) >= n
    BY <1>2, <1>3
  <2>2. \A i \in 1 .. n : KeyOver(y, i) = KeyOver(x, i)
    BY <1>1, <1>3, <1>5, <2>1, TakenOutward
  <2> QED BY <1>2, <2>2
<1>7. PICK L : L = Len(x.heap[c].kids)
  OBVIOUS
<1>8. /\ L \in Nat /\ Len(y.heap[c].kids) = L + k /\ y.heap[c].kind = x.heap[c].kind
      /\ Items(y.heap, c, L, Seen(y.heap)) = Items(x.heap, c, L, Seen(x.heap))
  BY <1>5, <1>7, Zenon DEF MoreItems
<1>9. LastKids(y, n) = k
  BY <1>2, <1>3, <1>4, <1>8 DEF LastKids
<1>10. Len(y.heap[c].kids) - LastKids(y, n) = L
  BY <1>8, <1>9
<1>11. OpenEntry(y, n) = [kind |-> y.heap[c].kind, under |-> KeyOver(y, n),
                          items |-> Items(y.heap, c, L, Seen(y.heap))]
  BY <1>4, <1>10, Zenon DEF OpenEntry
<1>12. OpenEntry(x, n) = [kind |-> x.heap[c].kind, under |-> KeyOver(x, n),
                          items |-> Items(x.heap, c, L, Seen(x.heap))]
  BY <1>1, <1>2, <1>7, InnermostEntry
<1> QED BY <1>1, <1>6, <1>8, <1>11, <1>12, Zenon

(* A container that begins is empty. *)
LEMMA BegunEntry ==
  ASSUME NEW V, NEW x, Tree(V, x), NEW d, NEW kind, NEW val, Taken(x, d, kind, val),
         NEW y, Started(x, d, y), NEW n, n = Len(x.container_stack),
         NEW u, u = KeyOver(y, n + 1)
  PROVE  OpenEntry(y, n + 1) = [kind |-> kind, under |-> u, items |-> << >>]
<1>1. PICK v : v = Len(x.heap) + 1
  OBVIOUS
<1>2. Len(y.container_stack) = n + 1 /\ y.container_stack[n + 1] = v
  BY <1>1, BegunStack
<1>3. y.heap[v] = New(kind, val)
  BY <1>1 DEF Started, Taken
<1>4. y.heap[v].kind = kind /\ Len(y.heap[v].kids) = 0
  BY <1>3 DEF New
<1>5. LastKids(y, n + 1) = 0
  BY <1>2 DEF LastKids
<1>6. Len(y.heap[v].kids) - LastKids(y, n + 1) = 0
  BY <1>4, <1>5
<1>7. Items(y.heap, v, 0, Seen(y.heap)) = << >>
  BY DEF Items
<1> QED BY <1>2, <1>4, <1>6, <1>7, Zenon DEF OpenEntry

(* What begins takes its place in the innermost container, and its key. *)
LEMMA Begins ==
  ASSUME NEW V, NEW x, Tree(V, x), NEW y, Tree(V, y), NEW kind, NEW first,
         Opened(V, x, y, kind, first),
         NEW inmap, inmap = (OpenNow(x) # << >> /\ OpenNow(x)[Len(OpenNow(x))].kind = "map"),
         NEW u, u = (IF inmap THEN KeySeen(x) ELSE Nil)
  PROVE  /\ inmap => KeySeen(x) # Nil
         /\ OpenNow(y) = Append(OpenNow(x), [kind |-> kind, items |-> << >>, under |-> u])
         /\ KeySeen(y) = IF inmap THEN Nil ELSE KeySeen(x)
         /\ ValueSeen(y) = Nil
         /\ OpenNow(x) # << >> => ValueSeen(x) = Nil
<1>1. PICK d : /\ Ind(V, d) /\ Taken(x, d, kind, "none")
               /\ Top(x.state_stack) \in VALUE_STATES
               /\ y.heap = d.heap /\ y.key = d.key /\ y.llsd = d.llsd
               /\ y.container_stack = Push(x.container_stack, Len(x.heap) + 1)
  BY DEF Opened
<1>2. Founded(d.heap) /\ Started(x, d, y)
  <2>1. Founded(y.heap)
    BY TreeFacts
  <2> QED BY <1>1, <2>1 DEF Started
<1>3. PICK n : n = Len(x.container_stack)
  OBVIOUS
<1>4. /\ n \in Nat /\ Len(y.container_stack) = n + 1
      /\ \A i \in 1 .. n : y.container_stack[i] = x.container_stack[i]
  BY <1>2, <1>3, BegunStack
<1>5. \A i \in 1 .. n - 1 : OpenEntry(y, i) = OpenEntry(x, i)
  <2>1. Len(y.container_stack) \in Nat /\ Len(y.container_stack) >= n
    BY <1>4
  <2>2. Taken(x, d, kind, "none") /\ Founded(d.heap) /\ y.heap = d.heap
    BY <1>1, <1>2
  <2>3. \A i \in 1 .. n : y.container_stack[i] = x.container_stack[i]
    BY <1>4
  <2> QED BY <1>3, <2>1, <2>2, <2>3, TakenOutward
<1>6. ValueSeen(y) = Nil /\ (n > 0 => ValueSeen(x) = Nil)
  BY <1>3, <1>4 DEF ValueSeen
<1>7. OpenNow(x) # << >> => n > 0
  <2>1. n = 0 => OpenNow(x) = << >>
    BY <1>3, <1>4, OpenNowFacts
  <2> QED BY <1>4, <2>1
<1>8. ASSUME NEW w, KeyOver(y, n + 1) = w, n > 0 => OpenEntry(y, n) = OpenEntry(x, n)
      PROVE  OpenNow(y) = Append(OpenNow(x), [kind |-> kind, items |-> << >>, under |-> w])
  <2>1. PICK e : e = [kind |-> kind, items |-> << >>, under |-> w]
    OBVIOUS
  <2>2. OpenEntry(y, n + 1) = [kind |-> kind, under |-> w, items |-> << >>]
    BY <1>1, <1>2, <1>3, <1>8, BegunEntry
  <2>3. OpenEntry(y, n + 1) = e
    BY <2>1, <2>2
  <2>4. ASSUME NEW i \in 1 .. n PROVE OpenEntry(y, i) = OpenEntry(x, i)
    <3>1. i \in 1 .. n - 1 \/ (i = n /\ n > 0)
      BY <1>4
    <3> QED BY <1>5, <1>8, <3>1
  <2>5. OpenNow(y) = Append(OpenNow(x), e)
    BY <1>3, <1>4, <2>3, <2>4, OneMoreOpen
  <2> QED BY <2>1, <2>5
<1>9. CASE Top(x.state_stack) = "TOP_LEVEL"
  <2>1. n = 0 /\ OpenNow(x) = << >>
    <3>1. n = 0
      BY <1>3, <1>9, TopStates
    <3> QED BY <1>3, <1>4, <3>1, OpenNowFacts
  <2>2. KeyOver(y, n + 1) = Nil
    BY <2>1 DEF KeyOver
  <2>3. u = Nil /\ ~inmap
    BY <2>1
  <2>4. y.key = x.key
    BY <1>1, <1>9 DEF Taken, AtTop, AsKey, InArray, InMap
  <2>5. KeySeen(y) = KeySeen(x)
    <3>1. ChangedInside(x, d, kind, "none")
      BY <1>1, <1>2, TakenSeen
    <3>2. \A o \in Shut(x) : Seen(y.heap)[o] = Seen(x.heap)[o]
      BY <1>1, <3>1, Zenon DEF ChangedInside
    <3> QED BY <2>4, <3>2, KeptSeen
  <2>6. OpenNow(y) = Append(OpenNow(x), [kind |-> kind, items |-> << >>, under |-> Nil])
    BY <1>8, <2>1, <2>2
  <2> QED BY <1>6, <1>7, <2>3, <2>5, <2>6
<1>10. CASE Top(x.state_stack) = "ARRAY_VALUE_BEGIN"
  <2>1. PICK c : Inner(x, c)
    BY <1>10, InnerExists
  <2>2. PICK leaf : leaf = [kind |-> kind, val |-> "none", items |-> << >>]
    OBVIOUS
  <2>3. x.heap[c].kind = "array" /\ MoreItems(x, d, c, 1, leaf)
    BY <1>1, <1>2, <1>10, <2>1, <2>2, ArrayGiven
  <2>4. /\ OpenNow(x) # << >> /\ OpenNow(x)[Len(OpenNow(x))].kind = "array"
        /\ n > 0 /\ c = x.container_stack[n]
    BY <1>3, <2>1, <2>3, InnerKind DEF Inner
  <2>5. OpenEntry(y, n) = OpenEntry(x, n)
    BY SMTT(30), <1>1, <1>2, <1>3, <2>1, <2>3, AroundBegun
  <2>6. KeyOver(y, n + 1) = Nil
    <3>1. (n + 1) - 1 = n /\ y.container_stack[n] = c
      BY <1>4, <2>4
    <3>2. y.heap[c].kind = "array"
      BY <1>1, <2>3 DEF MoreItems
    <3> QED BY <3>1, <3>2 DEF KeyOver
  <2>7. u = Nil /\ ~inmap
    BY <2>4
  <2>8. y.key = x.key
    BY <1>1, <1>10 DEF Taken, AtTop, AsKey, InArray, InMap
  <2>9. KeySeen(y) = KeySeen(x)
    <3>1. ChangedInside(x, d, kind, "none")
      BY <1>1, <1>2, TakenSeen
    <3>2. \A o \in Shut(x) : Seen(y.heap)[o] = Seen(x.heap)[o]
      BY <1>1, <3>1, Zenon DEF ChangedInside
    <3> QED BY <2>8, <3>2, KeptSeen
  <2>10. OpenNow(y) = Append(OpenNow(x), [kind |-> kind, items |-> << >>, under |-> Nil])
    BY <1>8, <2>5, <2>6
  <2> QED BY <1>6, <1>7, <2>7, <2>9, <2>10
<1>11. CASE Top(x.state_stack) = "MAP_VALUE_BEGIN"
  <2>1. PICK c : Inner(x, c)
    BY <1>11, InnerExists
  <2>2. PICK pair : pair = <<KeySeen(x), [kind |-> kind, val |-> "none", items |-> << >>]>>
    OBVIOUS
  <2>3. /\ x.heap[c].kind = "map" /\ MoreItems(x, d, c, 2, pair)
        /\ Seen(d.heap)[d.heap[c].kids[Len(d.heap[c].kids) - 1]] = KeySeen(x)
    BY <1>1, <1>2, <1>11, <2>1, <2>2, MapGiven
  <2>4. /\ OpenNow(x) # << >> /\ OpenNow(x)[Len(OpenNow(x))].kind = "map"
        /\ n > 0 /\ c = x.container_stack[n]
    BY <1>3, <2>1, <2>3, InnerKind DEF Inner
  <2>5. OpenEntry(y, n) = OpenEntry(x, n)
    BY SMTT(30), <1>1, <1>2, <1>3, <2>1, <2>3, AroundBegun
  <2>6. KeyOver(y, n + 1) = KeySeen(x)
    <3>1. (n + 1) - 1 = n /\ y.container_stack[n] = c /\ n + 1 # 1
      BY <1>4, <2>4
    <3>2. y.heap[c].kind = "map"
      BY <1>1, <2>3 DEF MoreItems
    <3> QED BY <1>1, <2>3, <3>1, <3>2 DEF KeyOver
  <2>7. u = KeySeen(x) /\ inmap
    BY <2>4
  <2>8. KeySeen(y) = Nil
    <3>1. y.key = 0
      BY <1>1, <1>11 DEF Taken, AtTop, AsKey, InArray, InMap
    <3> QED BY <3>1 DEF KeySeen, ValueAt
  <2>9. KeySeen(x) # Nil
    BY <1>11, KeyThere DEF NeedsKey
  <2>10. OpenNow(y) = Append(OpenNow(x), [kind |-> kind, items |-> << >>, under |-> KeySeen(x)])
    BY <1>8, <2>5, <2>6
  <2> QED BY <1>6, <1>7, <2>7, <2>8, <2>9, <2>10
<1> QED BY <1>1, <1>9, <1>10, <1>11 DEF VALUE_STATES

(* No object is seen as nothing. *)
LEMMA SeenThere ==
  ASSUME NEW V, NEW x, Tree(V, x), NEW o \in 1 .. Len(x.heap)
  PROVE  Seen(x.heap)[o] # Nil
<1>1. Founded(x.heap) /\ x.heap \in Seq(Object(V))
  BY TreeFacts
<1>2. x.heap[o].kind \in Kinds
  BY <1>1, ObjectFields
<1>3. Seen(x.heap)[o] = Node(x.heap, o, Seen(x.heap))
  BY <1>1, SeenEquation
<1>4. Seen(x.heap)[o].kind \in Kinds \union {"dangling"}
  BY <1>2, <1>3 DEF Node, Dangling
<1> QED BY <1>4 DEF Nil, Kinds

(* The innermost container is seen as the value that its items make. *)
LEMMA InnerSeen ==
  ASSUME NEW V, NEW x, Tree(V, x), NEW n, n = Len(x.container_stack), n > 0,
         NEW c, c = x.container_stack[n], NEW e, e = OpenEntry(x, n)
  PROVE  Seen(x.heap)[c] = Assembly!Container(e.kind, e.items)
<1>1. /\ e = [kind  |-> x.heap[c].kind, under |-> KeyOver(x, n),
              items |-> Items(x.heap, c, Len(x.heap[c].kids), Seen(x.heap))]
      /\ Opening(x, n, c, Len(x.heap[c].kids))
  BY InnermostEntry
<1>2. c \in 1 .. Len(x.heap) /\ x.heap[c].freed = 0 /\ x.heap[c].val = "none"
  BY <1>1 DEF Opening
<1>3. Founded(x.heap)
  BY TreeFacts
<1>4. Seen(x.heap)[c] = Node(x.heap, c, Seen(x.heap))
  BY <1>2, <1>3, SeenEquation
<1>5. Seen(x.heap)[c] = [kind |-> x.heap[c].kind, val |-> "none",
                         items |-> Items(x.heap, c, Len(x.heap[c].kids), Seen(x.heap))]
  BY <1>2, <1>4 DEF Node
<1>6. /\ e.kind = x.heap[c].kind
      /\ e.items = Items(x.heap, c, Len(x.heap[c].kids), Seen(x.heap))
  BY <1>1
<1> QED BY <1>5, <1>6, Zenon DEF Assembly!Container

(* The item that an open container becomes of the one around it. *)
ItemOf(u, val) == IF u = Nil THEN val ELSE <<u, val>>

(* The container open at depth n has the one inside it as its last item. *)
HasLast(x, n) ==
  LET p == x.container_stack[n]
      c == x.container_stack[n + 1]
      L == Len(x.heap[p].kids)
      s == Seen(x.heap)
  IN  Items(x.heap, p, L, s)
        = Append(Items(x.heap, p, L - LastKids(x, n), s), ItemOf(KeyOver(x, n + 1), s[c]))

(* The innermost container is that of the one around it once it has ended. *)
LEMMA LastItem ==
  ASSUME NEW V, NEW x, Tree(V, x), NEW n \in Nat, n + 1 = Len(x.container_stack), n > 0
  PROVE  HasLast(x, n)
<1>0. PICK p, c, L, s : /\ p = x.container_stack[n] /\ c = x.container_stack[n + 1]
                        /\ L = Len(x.heap[p].kids) /\ s = Seen(x.heap)
  OBVIOUS
<1> SUFFICES Items(x.heap, p, L, s)
               = Append(Items(x.heap, p, L - LastKids(x, n), s),
                        ItemOf(KeyOver(x, n + 1), s[c]))
  BY <1>0, Zenon DEF HasLast
<1>1. PICK m, h : m = L - LastKids(x, n) /\ h = x.heap
  OBVIOUS
<1>2. n \in 1 .. Len(x.container_stack) /\ n # Len(x.container_stack)
  OBVIOUS
<1>3. Opening(x, n, p, m)
  BY SMTT(30), <1>0, <1>1, <1>2, OpenObject
<1>4. /\ p \in 1 .. Len(h) /\ L \in Nat /\ m \in Nat /\ m <= L
      /\ h[p].kind \in {"array", "map"}
      /\ h[p].kind = "array" => m + 1 = L
      /\ h[p].kind = "map" => m + 2 = L /\ \E k \in Nat : L = 2 * k
  BY <1>0, <1>1, <1>2, <1>3 DEF Opening
<1>5. h[p].kids[L] = c
  <2>1. n \in 1 .. Len(x.container_stack) - 1
    OBVIOUS
  <2> QED BY <1>0, <1>1, <2>1 DEF Tree, Ind, Path
<1>6. KeyOver(x, n + 1) = IF h[p].kind = "array" THEN Nil ELSE s[h[p].kids[L - 1]]
  <2>1. n + 1 # 1 /\ (n + 1) - 1 = n
    OBVIOUS
  <2> QED BY <1>0, <1>1, <2>1 DEF KeyOver
<1>7. Alike(h, h, p, m, s, s)
  BY <1>4 DEF Alike
<1>8. CASE h[p].kind = "array"
  <2>1. h[p].kind # "map" /\ L = m + 1 /\ c = h[p].kids[L]
    BY <1>4, <1>5, <1>8
  <2>2. Items(h, p, L, s) = Append(Items(h, p, m, s), s[c])
    BY ONLY <1>7, <2>1, NextItem
  <2>3. ItemOf(KeyOver(x, n + 1), s[c]) = s[c]
    BY <1>6, <1>8 DEF ItemOf
  <2> QED BY <1>1, <2>2, <2>3
<1>9. CASE h[p].kind = "map"
  <2>0. L = m + 2 /\ c = h[p].kids[L] /\ L \in Nat /\ m \in Nat
    BY <1>4, <1>5, <1>9
  <2>1. L - 1 = m + 1 /\ L - 1 \in 1 .. L
    BY ONLY <2>0
  <2>2. PICK u : u = h[p].kids[m + 1]
    OBVIOUS
  <2>3. PICK k \in Nat : m = 2 * k
    <3>1. PICK j \in Nat : L = 2 * j
      BY <1>4, <1>9
    <3>2. j - 1 \in Nat /\ m = 2 * (j - 1)
      BY ONLY <2>0, <3>1
    <3> QED BY <3>2
  <2>4. Items(h, p, L, s) = Append(Items(h, p, m, s), <<s[u], s[c]>>)
    <3>1. L = m + 2 /\ c = h[p].kids[L] /\ m = 2 * k /\ k \in Nat
      BY <2>0, <2>3
    <3> QED BY ONLY <1>7, <1>9, <2>2, <3>1, NextPair
  <2>5. s[u] # Nil
    <3>1. u \in 1 .. Len(x.heap)
      BY <1>0, <1>1, <1>4, <2>0, <2>1, <2>2, TreeFacts DEF Founded
    <3> QED BY SMTT(30), <1>0, <3>1, SeenThere
  <2>6. KeyOver(x, n + 1) = s[u]
    BY <1>6, <1>9, <2>1, <2>2
  <2>7. ItemOf(KeyOver(x, n + 1), s[c]) = <<s[u], s[c]>>
    BY <2>5, <2>6 DEF ItemOf
  <2> QED BY <1>1, <2>4, <2>7
<1> QED BY <1>4, <1>8, <1>9

(* A stack that is written as a function, without its last element. *)
LEMMA FrontOfFunction ==
  ASSUME NEW n \in Nat, NEW s, Counted(s, n + 1), NEW t, t = SubSeq(s, 1, n)
  PROVE  /\ Counted(t, n) /\ Len(t) = n
         /\ \A i \in 1 .. n : t[i] = s[i]
<1>1. s \in Seq({s[i] : i \in 1 .. n + 1}) /\ Len(s) = n + 1
  BY SeqOfFunction
<1>2. t = [i \in 1 .. n |-> s[i]]
  BY <1>1
<1>3. \A i \in 1 .. n : t[i] = s[i]
  BY <1>2
<1>4. Counted(t, n)
  BY <1>2, <1>3 DEF Counted
<1>5. Len(t) = n
  BY <1>4, SeqOfFunction
<1> QED BY <1>3, <1>4, <1>5

(* y is x without its innermost container among those open. *)
Ended(x, y) ==
  /\ SameTree(x, y)
  /\ Len(x.container_stack) > 0
  /\ y.container_stack = Pop(x.container_stack)

(* The others are open at the depth they were. *)
LEMMA EndedStack ==
  ASSUME NEW V, NEW x, Tree(V, x), NEW y, Ended(x, y)
  PROVE  \E n \in Nat : /\ Len(x.container_stack) = n + 1
                        /\ Len(y.container_stack) = n
                        /\ \A i \in 1 .. n : y.container_stack[i] = x.container_stack[i]
<1>1. PICK cs : cs = x.container_stack
  OBVIOUS
<1>2. cs \in Seq(Nat) /\ Len(cs) > 0 /\ y.container_stack = Pop(cs)
  BY <1>1, TreeFacts DEF Ended
<1>3. /\ Len(Pop(cs)) = Len(cs) - 1
      /\ \A i \in 1 .. Len(cs) - 1 : Pop(cs)[i] = cs[i]
  BY ONLY <1>2, PopFacts
<1>4. Len(cs) - 1 \in Nat /\ Len(cs) = (Len(cs) - 1) + 1
  BY <1>2
<1> QED BY <1>1, <1>2, <1>3, <1>4

(* What is seen when the innermost container, which is done, ends. *)
EndsIn(x, y, s, outer, done) ==
  /\ s # << >>
  /\ outer # << >> => OpenNow(y) = Assembly!WithItem(outer, ItemOf(s[Len(s)].under, done))
  /\ outer = << >> => OpenNow(y) = << >>
  /\ ValueSeen(y) = IF outer = << >> THEN done ELSE ValueSeen(x)
  /\ KeySeen(y) = KeySeen(x)

(* What ends is the value of its items; it becomes an item of the container
   around it, under the key it began with, or the value the parse has. *)
LEMMA Ends ==
  ASSUME NEW V, NEW x, Tree(V, x), NEW y, Tree(V, y), Ended(x, y),
         NEW s, s = OpenNow(x), NEW front, front = Len(s) - 1,
         NEW outer, outer = SubSeq(s, 1, front),
         NEW done, done = Assembly!Container(s[Len(s)].kind, s[Len(s)].items)
  PROVE  EndsIn(x, y, s, outer, done)
<1> USE DEF EndsIn
<1>1. PICK n \in Nat : /\ Len(x.container_stack) = n + 1
                       /\ Len(y.container_stack) = n
                       /\ \A i \in 1 .. n : y.container_stack[i] = x.container_stack[i]
  BY EndedStack
<1>2. y.heap = x.heap /\ y.key = x.key /\ y.llsd = x.llsd
  BY DEF Ended, SameTree
<1>3. /\ Counted(s, n + 1) /\ Len(s) = n + 1
      /\ \A i \in 1 .. n + 1 : s[i] = OpenEntry(x, i)
  <2>1. n + 1 \in Nat
    OBVIOUS
  <2> QED BY <1>1, <2>1, OpenNowFacts
<1>4. s # << >> /\ n + 1 \in 1 .. n + 1
  BY <1>3
<1>5. PICK c, e : c = x.container_stack[n + 1] /\ e = OpenEntry(x, n + 1)
  OBVIOUS
<1>6. s[Len(s)] = e
  BY <1>3, <1>4, <1>5
<1>7. Seen(x.heap)[c] = done
  <2>1. n + 1 > 0
    OBVIOUS
  <2>2. Seen(x.heap)[c] = Assembly!Container(e.kind, e.items)
    BY <1>1, <1>5, <2>1, InnerSeen
  <2> QED BY <1>6, <2>2
<1>8. KeySeen(y) = KeySeen(x)
  BY <1>2 DEF KeySeen
<1>9. outer = SubSeq(s, 1, n)
  BY <1>3
<1>10. /\ Counted(outer, n) /\ Len(outer) = n
       /\ \A i \in 1 .. n : outer[i] = s[i]
  BY <1>3, <1>9, FrontOfFunction
<1>11. CASE n = 0
  <2>1. OpenNow(y) = << >>
    BY <1>1, <1>11, OpenNowFacts
  <2>2. outer = << >>
    BY <1>10, <1>11 DEF Counted
  <2>3. ValueSeen(y) = done
    <3>1. c = x.llsd
      BY <1>1, <1>5, <1>11 DEF Tree, Ind, Path
    <3>2. x.llsd # 0
      <4>1. 1 \in 1 .. Len(x.container_stack)
        BY <1>1, <1>11
      <4>2. x.container_stack[1] \in 1 .. Len(x.heap)
        BY <4>1, TreeFacts
      <4> QED BY <1>5, <1>11, <3>1, <4>2
    <3> QED BY <1>1, <1>2, <1>7, <1>11, <3>1, <3>2 DEF ValueSeen, ValueAt
  <2> QED BY <1>4, <1>8, <2>1, <2>2, <2>3
<1>12. CASE n # 0
  <2>0. n > 0 /\ n \in 1 .. n /\ n \in 1 .. n + 1
    BY <1>12
  <2>1. outer # << >>
    <3>1. Len(outer) = n /\ n > 0 /\ n \in Nat
      BY <1>10, <2>0
    <3> QED BY ONLY <3>1
  <2>2. ValueSeen(y) = Nil /\ ValueSeen(x) = Nil
    BY <1>1, <1>12 DEF ValueSeen
  <2>3. PICK t, p, L, h, u : /\ t = OpenNow(y) /\ p = x.container_stack[n] /\ h = x.heap
                             /\ L = Len(h[p].kids) /\ u = KeyOver(x, n)
    OBVIOUS
  <2>4. Counted(t, n) /\ \A i \in 1 .. n : t[i] = OpenEntry(y, i)
    BY <1>1, <2>3, OpenNowFacts
  <2>5. /\ \A i \in 1 .. n - 1 : OpenEntry(x, i) = OpenEntry(y, i)
        /\ \A i \in 1 .. n : KeyOver(x, i) = KeyOver(y, i)
    <3>1. Len(x.container_stack) \in Nat /\ Len(x.container_stack) >= n
      BY <1>1
    <3>2. \A i \in 1 .. n : x.container_stack[i] = y.container_stack[i]
      BY <1>1
    <3>3. /\ \A i \in 1 .. n - 1 : x.heap[y.container_stack[i]] = y.heap[y.container_stack[i]]
          /\ \A o \in Shut(y) : Seen(x.heap)[o] = Seen(y.heap)[o]
      BY <1>2
    <3> QED BY <1>1, <3>1, <3>2, <3>3, EntriesKept
  <2>6. KeyOver(y, n) = u
    BY <2>0, <2>3, <2>5
  <2>7. PICK k, m, item : /\ k = h[p].kind
                          /\ m = Items(h, p, L - LastKids(x, n), Seen(h))
                          /\ item = ItemOf(KeyOver(x, n + 1), Seen(h)[c])
    BY SMTT(30)
  <2>8. Items(h, p, L, Seen(h)) = Append(m, item)
    <3>1. PICK q : q = Seen(x.heap)
      OBVIOUS
    <3>2. n + 1 = Len(x.container_stack) /\ n > 0
      BY ONLY <1>1, <2>0
    <3>3. L = Len(x.heap[p].kids) /\ p = x.container_stack[n] /\ c = x.container_stack[n + 1]
      BY <1>5, <2>3
    <3>4. HasLast(x, n)
      BY <3>2, LastItem
    <3>5. Items(x.heap, p, L, q)
            = Append(Items(x.heap, p, L - LastKids(x, n), q), ItemOf(KeyOver(x, n + 1), q[c]))
      BY <3>1, <3>3, <3>4, Zenon DEF HasLast
    <3> QED BY <2>3, <2>7, <3>1, <3>5
  <2>9. outer[n] = [kind |-> k, under |-> u, items |-> m]
    <3>1. outer[n] = OpenEntry(x, n)
      BY <1>3, <1>10, <2>0
    <3> QED BY <2>3, <2>7, <3>1, Zenon DEF OpenEntry
  <2>10. t[n] = [kind |-> k, under |-> u, items |-> Append(m, item)]
    <3>1. t[n] = OpenEntry(y, n)
      BY <2>0, <2>4
    <3>2. y.container_stack[n] = p
      BY <1>1, <2>0, <2>3
    <3>3. OpenEntry(y, n) = [kind |-> h[p].kind, under |-> KeyOver(y, n),
                             items |-> Items(h, p, L, Seen(h))]
      BY SMTT(30), <1>1, <1>2, <2>0, <2>3, <3>2, InnermostEntry
    <3> QED BY <2>6, <2>7, <2>8, <3>1, <3>3, Zenon
  <2>11. \A i \in 1 .. n - 1 : t[i] = outer[i]
    <3> SUFFICES ASSUME NEW i \in 1 .. n - 1 PROVE t[i] = outer[i]
      OBVIOUS
    <3>1. i \in 1 .. n /\ i \in 1 .. n + 1
      OBVIOUS
    <3>2. t[i] = OpenEntry(y, i)
      BY <2>4, <3>1
    <3>3. outer[i] = OpenEntry(x, i)
      BY <1>3, <1>10, <3>1
    <3> QED BY <2>5, <3>2, <3>3
  <2>12. Counted(outer, n) /\ n \in Nat
    BY <1>10
  <2>13. t = Assembly!WithItem(outer, item)
    BY ONLY SMTT(30), <2>0, <2>4, <2>9, <2>10, <2>11, <2>12, WithItemIs
  <2>14. item = ItemOf(e.under, done)
    BY <1>5, <1>7, <2>3, <2>7 DEF OpenEntry
  <2> QED BY <1>4, <1>6, <1>8, <2>1, <2>2, <2>3, <2>13, <2>14
<1> QED BY <1>11, <1>12

(* A callback that fails changes nothing that is seen. *)
LEMMA RefusedSeen ==
  ASSUME NEW V, NEW x, Tree(V, x), NEW y, Tree(V, y), Refused(x, y)
  PROVE  OpenNow(y) = OpenNow(x) /\ KeySeen(y) = KeySeen(x) /\ ValueSeen(y) = ValueSeen(x)
<1>1. /\ y.container_stack = x.container_stack /\ y.key = x.key /\ y.llsd = x.llsd
      /\ Len(y.heap) \in {Len(x.heap), Len(x.heap) + 1}
      /\ \A o \in 1 .. Len(x.heap) : y.heap[o] = x.heap[o]
  BY DEF Refused
<1>2. Founded(y.heap)
  BY TreeFacts
<1>3. Len(x.heap) \in Nat /\ x.key \in 0 .. Len(x.heap) /\ x.llsd \in 0 .. Len(x.heap)
  BY TreeFacts
<1>4. SameObjects(x, y)
  <2>1. Len(y.heap) >= Len(x.heap)
    BY <1>1, <1>3
  <2> QED BY <1>1, <1>2, <2>1 DEF SameObjects
<1>5. /\ OpenNow(y) = OpenNow(x)
      /\ \A o \in 1 .. Len(x.heap) : Seen(y.heap)[o] = Seen(x.heap)[o]
  BY <1>4, SameSeen
<1>6. x.key # 0 => x.key \in 1 .. Len(x.heap)
  BY ONLY <1>3
<1>7. x.llsd # 0 => x.llsd \in 1 .. Len(x.heap)
  BY ONLY <1>3
<1>8. KeySeen(y) = KeySeen(x)
  BY <1>1, <1>5, <1>6 DEF KeySeen, ValueAt
<1>9. ValueSeen(y) = ValueSeen(x)
  BY <1>1, <1>5, <1>7 DEF ValueSeen, ValueAt
<1> QED BY <1>5, <1>8, <1>9

(* So does one that only moves a frame. *)
LEMMA MovedSeen ==
  ASSUME NEW x, NEW y, SameTree(x, y), y.container_stack = x.container_stack
  PROVE  OpenNow(y) = OpenNow(x) /\ KeySeen(y) = KeySeen(x) /\ ValueSeen(y) = ValueSeen(x)
  BY DEF SameTree, OpenNow, OpenEntry, KeyOver, LastKids, KeySeen, ValueSeen

(* A value that is taken leaves every live object with what its kind carries. *)
LEMMA TakenFormed ==
  ASSUME NEW V, NEW x, Tree(V, x), NEW y, NEW kind, NEW val, Taken(x, y, kind, val),
         kind \in {"array", "map"} => val = "none"
  PROVE  Formed(y.heap)
<1>1. PICK v, cc, g : v = Len(x.heap) + 1 /\ cc = TopObj(x.container_stack) /\ g = Given(x, v)
  OBVIOUS
<1>2. /\ Len(x.heap) \in Nat /\ x.heap \in Seq(Object(V)) /\ x.container_stack \in Seq(Nat)
  BY TreeFacts
<1>3. /\ Len(y.heap) = v /\ y.heap[v] = New(kind, val)
      /\ \A o \in 1 .. Len(x.heap) :
           /\ o # cc => y.heap[o] = x.heap[o]
           /\ o = cc => y.heap[o] = [x.heap[o] EXCEPT !.kids = @ \o g]
  BY <1>1 DEF Taken
<1>4. \A o \in 1 .. Len(x.heap) : x.heap[o].freed = 0 =>
        /\ x.heap[o].kind \in {"array", "map"} => x.heap[o].val = "none"
        /\ x.heap[o].kind = "map" => \E n \in Nat : Len(x.heap[o].kids) = 2 * n
  BY DEF Tree, Formed
<1> SUFFICES ASSUME NEW o \in 1 .. Len(y.heap), y.heap[o].freed = 0
             PROVE  /\ y.heap[o].kind \in {"array", "map"} => y.heap[o].val = "none"
                    /\ y.heap[o].kind = "map" => \E n \in Nat : Len(y.heap[o].kids) = 2 * n
  BY Zenon DEF Formed
<1>5. o = v \/ o \in 1 .. Len(x.heap)
  BY <1>1, <1>2, <1>3
<1>6. CASE o = v
  <2>1. y.heap[o].kind = kind /\ y.heap[o].val = val /\ Len(y.heap[o].kids) = 0
    BY <1>3, <1>6 DEF New
  <2>2. 0 \in Nat /\ 0 = 2 * 0
    OBVIOUS
  <2> QED BY <2>1, <2>2
<1>7. CASE o \in 1 .. Len(x.heap) /\ o # cc
  BY <1>3, <1>4, <1>7
<1>8. CASE o \in 1 .. Len(x.heap) /\ o = cc
  <2>1. x.heap[o] \in Object(V)
    BY <1>2, <1>8
  <2>2. y.heap[o] = [x.heap[o] EXCEPT !.kids = @ \o g]
    BY <1>3, <1>8
  <2>3. /\ y.heap[o].kind = x.heap[o].kind /\ y.heap[o].val = x.heap[o].val
        /\ y.heap[o].freed = x.heap[o].freed
    BY <2>1, <2>2 DEF Object
  <2>4. Inner(x, o)
    <3>1. Len(x.container_stack) = 0 => cc = 0
      BY <1>1, <1>2 DEF TopObj
    <3>2. Len(x.container_stack) > 0 => cc = x.container_stack[Len(x.container_stack)]
      BY <1>1, <1>2, TopFacts
    <3>3. Len(x.container_stack) \in Nat
      BY <1>2
    <3> QED BY <1>2, <1>8, <3>1, <3>2, <3>3 DEF Inner
  <2>5. g \in Seq(Nat)
    BY <1>1, GivenApart DEF Tree
  <2>6. GivenTo(x, y, o, g)
    BY <1>1, <2>4, <2>5, GivenKids
  <2>7. Len(x.heap[o].kids) \in Nat /\ Len(y.heap[o].kids) = Len(x.heap[o].kids) + Len(g)
    BY <2>6, Zenon DEF GivenTo
  <2>8. ASSUME x.heap[o].kind = "map" PROVE Len(g) = 0 \/ Len(g) = 2
    <3>1. Top(x.state_stack) # "ARRAY_VALUE_BEGIN"
      BY <2>4, <2>8, TopStates DEF ArrayStates, Inner
    <3>2. g = << >> \/ g = <<x.key, v>>
      BY <1>1, <3>1 DEF Given
    <3> QED BY <3>2
  <2>9. ASSUME x.heap[o].kind = "map"
        PROVE  \E n \in Nat : Len(y.heap[o].kids) = 2 * n
    <3>1. PICK n \in Nat : Len(x.heap[o].kids) = 2 * n
      BY <1>4, <1>8, <2>3, <2>9
    <3>2. PICK l, m : l = Len(g) /\ m = Len(y.heap[o].kids)
      OBVIOUS
    <3>3. l = 0 \/ l = 2
      BY <2>8, <2>9, <3>2
    <3>4. m = 2 * n + l
      BY <2>7, <3>1, <3>2
    <3>5. m = 2 * n \/ m = 2 * (n + 1)
      BY ONLY <3>3, <3>4, n \in Nat
    <3>6. n + 1 \in Nat
      OBVIOUS
    <3> QED BY <3>2, <3>5, <3>6, Zenon
  <2> QED BY <1>4, <1>8, <2>3, <2>9
<1> QED BY <1>5, <1>6, <1>7, <1>8

(* What each callback leaves behind, told apart as far as values differ. *)
TreeStep(V, x, y) ==
  \/ Refused(x, y)
  \/ \E kind \in {"scalar", "string"}, val \in V :
       Taken(x, y, kind, val) /\ (Top(x.state_stack) = "MAP_KEY_BEGIN" => kind = "string")
  \/ \E kind \in {"array", "map"} : \E first : Opened(V, x, y, kind, first)
  \/ SameTree(x, y) /\ y.container_stack = x.container_stack
  \/ Ended(x, y)

(* The callbacks that deliver a value make one of these steps. *)
LEMMA ValuesStep ==
  ASSUME NEW V, NEW x, Ind(V, x), NEW luck \in Luck
  PROVE  /\ \A val \in V : TreeStep(V, x, scalar_fn(x, val, luck).b)
         /\ \A val \in V : TreeStep(V, x, llsd_string_fn(x, val, luck).b)
         /\ TreeStep(V, x, llsd_array_begin_fn(x, luck).b)
         /\ TreeStep(V, x, llsd_map_begin_fn(x, luck).b)
<1>1. ASSUME NEW kind \in {"scalar", "string"}, NEW val \in V,
             NEW valid_states \in {VALUE_STATES, STRING_STATES},
             valid_states = STRING_STATES => kind = "string"
      PROVE  TreeStep(V, x, Deliver(x, kind, val, valid_states, luck).b)
  <2>1. PICK r : r = Deliver(x, kind, val, valid_states, luck)
    OBVIOUS
  <2>2. kind \in Kinds /\ val \in V \union {"none"}
    BY DEF Kinds
  <2>3. /\ r.ok \in BOOLEAN
        /\ ~r.ok => Refused(x, r.b)
        /\ r.ok => Top(x.state_stack) \in valid_states /\ Taken(x, r.b, kind, val)
    BY <1>1, <2>1, <2>2, DeliverShape
  <2>4. ASSUME Top(x.state_stack) = "MAP_KEY_BEGIN", r.ok PROVE kind = "string"
    <3>1. valid_states # VALUE_STATES
      BY <2>3, <2>4 DEF VALUE_STATES
    <3> QED BY <1>1, <3>1
  <2> QED BY <2>1, <2>3, <2>4 DEF TreeStep
<1>2. ASSUME NEW kind \in {"array", "map"}, NEW first
      PROVE  TreeStep(V, x, OpenContainer(x, kind, first, luck).b)
  <2>1. PICK r : r = OpenContainer(x, kind, first, luck)
    OBVIOUS
  <2>2. /\ r.ok \in BOOLEAN
        /\ ~r.ok => Refused(x, r.b)
        /\ r.ok => Opened(V, x, r.b, kind, first)
    BY <2>1, OpenShape
  <2> QED BY <2>1, <2>2 DEF TreeStep
<1>3. VALUE_STATES # STRING_STATES
  BY DEF VALUE_STATES, STRING_STATES
<1>4. /\ \A val \in V : TreeStep(V, x, scalar_fn(x, val, luck).b)
      /\ \A val \in V : TreeStep(V, x, llsd_string_fn(x, val, luck).b)
  BY <1>1, <1>3 DEF scalar_fn, llsd_string_fn
<1>5. TreeStep(V, x, llsd_array_begin_fn(x, luck).b) /\ TreeStep(V, x, llsd_map_begin_fn(x, luck).b)
  BY <1>2 DEF llsd_array_begin_fn, llsd_map_begin_fn
<1> QED BY <1>4, <1>5

(* So do the others. *)
LEMMA MovesStep ==
  ASSUME NEW V, NEW x, Tree(V, x)
  PROVE  /\ TreeStep(V, x, llsd_array_value_begin_fn(x).b)
         /\ TreeStep(V, x, llsd_array_value_end_fn(x).b)
         /\ TreeStep(V, x, llsd_array_end_fn(x).b)
         /\ TreeStep(V, x, llsd_map_key_begin_fn(x).b)
         /\ TreeStep(V, x, llsd_map_key_end_fn(x).b)
         /\ TreeStep(V, x, llsd_map_value_begin_fn(x).b)
         /\ TreeStep(V, x, llsd_map_value_end_fn(x).b)
         /\ TreeStep(V, x, llsd_map_end_fn(x).b)
<1>0. Ind(V, x)
  BY DEF Tree
<1>1. ASSUME NEW valid_states, NEW next
      PROVE  TreeStep(V, x, Move(x, valid_states, next).b)
  BY <1>0, MoveShape DEF TreeStep
<1>2. ASSUME NEW valid_states, "TOP_LEVEL" \notin valid_states
      PROVE  TreeStep(V, x, CloseContainer(x, valid_states).b)
  <2>1. PICK r : r = CloseContainer(x, valid_states)
    OBVIOUS
  <2>2. /\ r.ok \in BOOLEAN
        /\ r.ok <=> Top(x.state_stack) \in valid_states
        /\ SameTree(x, r.b)
        /\ r.b.container_stack = IF r.ok THEN Pop(x.container_stack) ELSE x.container_stack
    BY <1>0, <2>1, CloseShape
  <2>3. CASE r.ok
    <3>1. Top(x.state_stack) # "TOP_LEVEL"
      BY <1>2, <2>2, <2>3
    <3>2. Len(x.container_stack) > 0
      BY <3>1, InnerExists DEF Inner
    <3> QED BY <2>1, <2>2, <2>3, <3>2 DEF TreeStep, Ended
  <2>4. CASE ~r.ok
    BY <2>1, <2>2, <2>4 DEF TreeStep
  <2> QED BY <2>3, <2>4
<1>3. /\ TreeStep(V, x, llsd_array_value_begin_fn(x).b)
      /\ TreeStep(V, x, llsd_array_value_end_fn(x).b)
      /\ TreeStep(V, x, llsd_map_key_begin_fn(x).b)
      /\ TreeStep(V, x, llsd_map_key_end_fn(x).b)
      /\ TreeStep(V, x, llsd_map_value_begin_fn(x).b)
      /\ TreeStep(V, x, llsd_map_value_end_fn(x).b)
  BY <1>1 DEF llsd_array_value_begin_fn, llsd_array_value_end_fn, llsd_map_key_begin_fn,
              llsd_map_key_end_fn, llsd_map_value_begin_fn, llsd_map_value_end_fn
<1>4. TreeStep(V, x, llsd_array_end_fn(x).b) /\ TreeStep(V, x, llsd_map_end_fn(x).b)
  BY <1>2 DEF llsd_array_end_fn, llsd_map_end_fn
<1> QED BY <1>3, <1>4

(* None of them takes from a live object what its kind carries. *)
LEMMA StepFormed ==
  ASSUME NEW V, NEW x, Tree(V, x), NEW y, TreeStep(V, x, y)
  PROVE  Formed(y.heap)
<1>1. CASE Refused(x, y)
  <2>1. /\ Len(y.heap) \in {Len(x.heap), Len(x.heap) + 1} /\ Len(x.heap) \in Nat
        /\ \A o \in 1 .. Len(x.heap) : y.heap[o] = x.heap[o]
        /\ \A o \in Len(x.heap) + 1 .. Len(y.heap) : y.heap[o].freed = 1
    BY <1>1, TreeFacts DEF Refused
  <2>2. ASSUME NEW o \in 1 .. Len(y.heap), y.heap[o].freed = 0
        PROVE  o \in 1 .. Len(x.heap) /\ y.heap[o] = x.heap[o]
    <3>1. o \in 1 .. Len(x.heap) \/ o \in Len(x.heap) + 1 .. Len(y.heap)
      BY <2>1
    <3> QED BY <2>1, <2>2, <3>1
  <2>3. Formed(x.heap)
    BY DEF Tree
  <2> QED BY <2>2, <2>3 DEF Formed
<1>2. ASSUME NEW kind \in {"scalar", "string"}, NEW val \in V, Taken(x, y, kind, val)
      PROVE  Formed(y.heap)
  <2>1. kind \notin {"array", "map"}
    OBVIOUS
  <2> QED BY <1>2, <2>1, TakenFormed
<1>3. ASSUME NEW kind \in {"array", "map"}, NEW first, Opened(V, x, y, kind, first)
      PROVE  Formed(y.heap)
  <2>1. PICK d : Taken(x, d, kind, "none") /\ y.heap = d.heap
    BY <1>3 DEF Opened
  <2>2. Formed(d.heap)
    BY <2>1, TakenFormed
  <2> QED BY <2>1, <2>2
<1>4. CASE SameTree(x, y)
  BY <1>4 DEF SameTree, Tree
<1>5. CASE Ended(x, y)
  BY <1>5 DEF Ended, SameTree, Tree
<1> QED BY <1>1, <1>2, <1>3, <1>4, <1>5 DEF TreeStep

(* The inductive invariant for the values that the heap stands for. *)
RInv == IInv /\ (phase = "parsing" => Formed(b.heap))

(* A value that is taken is put where the document is, or waits as a key. *)
LEMMA TakenImplements ==
  ASSUME Tree(Values, b), Tree(Values, b'), phase = "parsing", phase' = "parsing",
         NEW kind \in {"scalar", "string"}, NEW val \in Values, Taken(b, b', kind, val),
         Top(b.state_stack) = "MAP_KEY_BEGIN" => kind = "string"
  PROVE  Assembly!PutLeaf(Assembly!Leaf(kind, val)) \/ Assembly!PutKey(val)
<1> USE DEF Assembly!PutLeaf, Assembly!PutKey, Assembly!Ready, Assembly!InArray, Assembly!InMap,
            Assembly!Nothing, Nil, Parsing, Depth
<1>1. CASE Top(b.state_stack) = "TOP_LEVEL"
  <2>1. /\ OpenNow(b) = << >> /\ OpenNow(b') = << >>
        /\ KeySeen(b') = KeySeen(b)
        /\ ValueSeen(b') = Assembly!Leaf(kind, val)
    BY <1>1, TopTakes
  <2>2. Assembly!PutLeaf(Assembly!Leaf(kind, val))
    BY <2>1 DEF KeySeen, ValueSeen
  <2> QED BY <2>2
<1>2. CASE Top(b.state_stack) = "MAP_KEY_BEGIN"
  <2>1. /\ OpenNow(b) # << >> /\ OpenNow(b)[Len(OpenNow(b))].kind = "map"
        /\ OpenNow(b') = OpenNow(b)
        /\ KeySeen(b') = Assembly!Leaf(kind, val)
        /\ ValueSeen(b') = ValueSeen(b)
    BY <1>2, KeyTakes
  <2>2. Assembly!PutKey(val)
    BY <1>2, <2>1 DEF KeySeen, ValueSeen
  <2> QED BY <2>2
<1>3. CASE Top(b.state_stack) = "ARRAY_VALUE_BEGIN"
  <2>1. /\ OpenNow(b) # << >> /\ OpenNow(b)[Len(OpenNow(b))].kind = "array"
        /\ OpenNow(b') = Assembly!WithItem(OpenNow(b), Assembly!Leaf(kind, val))
        /\ KeySeen(b') = KeySeen(b)
        /\ ValueSeen(b') = ValueSeen(b)
    BY <1>3, ArrayTakes
  <2>2. Assembly!PutLeaf(Assembly!Leaf(kind, val))
    BY <2>1 DEF KeySeen, ValueSeen
  <2> QED BY <2>2
<1>4. CASE Top(b.state_stack) = "MAP_VALUE_BEGIN"
  <2>1. /\ OpenNow(b) # << >> /\ OpenNow(b)[Len(OpenNow(b))].kind = "map"
        /\ KeySeen(b) # Nil
        /\ OpenNow(b') = Assembly!WithItem(OpenNow(b), <<KeySeen(b), Assembly!Leaf(kind, val)>>)
        /\ KeySeen(b') = Nil
        /\ ValueSeen(b') = ValueSeen(b)
    BY <1>4, MapTakes
  <2>2. Assembly!PutLeaf(Assembly!Leaf(kind, val))
    BY <2>1 DEF KeySeen, ValueSeen
  <2> QED BY <2>2
<1>5. Top(b.state_stack) \in {"TOP_LEVEL", "MAP_KEY_BEGIN", "ARRAY_VALUE_BEGIN", "MAP_VALUE_BEGIN"}
  BY DEF Taken, AtTop, AsKey, InArray, InMap
<1> QED BY <1>1, <1>2, <1>3, <1>4, <1>5

(* A container that is opened begins. *)
LEMMA OpenedImplements ==
  ASSUME Tree(Values, b), Tree(Values, b'), phase = "parsing", phase' = "parsing",
         NEW kind, NEW first, Opened(Values, b, b', kind, first)
  PROVE  Assembly!Begin(kind)
<1>1. PICK s, inmap, u : /\ s = OpenNow(b)
                         /\ inmap = (s # << >> /\ s[Len(s)].kind = "map")
                         /\ u = (IF inmap THEN KeySeen(b) ELSE Nil)
  OBVIOUS
<1>2. /\ inmap => KeySeen(b) # Nil
      /\ OpenNow(b') = Append(s, [kind |-> kind, items |-> << >>, under |-> u])
      /\ KeySeen(b') = IF inmap THEN Nil ELSE KeySeen(b)
      /\ ValueSeen(b') = Nil
      /\ s # << >> => ValueSeen(b) = Nil
  BY <1>1, Begins
<1>3. inmap \in BOOLEAN
  BY <1>1
<1> QED
  BY <1>1, <1>2, <1>3
     DEF Assembly!Begin, Assembly!Ready, Assembly!InMap, Assembly!Nothing, Nil, Parsing, Depth,
         KeySeen, ValueSeen

(* A container that is closed ends. *)
LEMMA EndedImplements ==
  ASSUME Tree(Values, b), Tree(Values, b'), phase = "parsing", phase' = "parsing",
         Ended(b, b')
  PROVE  Assembly!End
<1>1. PICK s, m : s = OpenNow(b) /\ m = Len(s) - 1
  OBVIOUS
<1>2. PICK outer : outer = SubSeq(s, 1, m)
  OBVIOUS
<1>3. PICK done : done = Assembly!Container(s[Len(s)].kind, s[Len(s)].items)
  OBVIOUS
<1>4. EndsIn(b, b', s, outer, done)
  BY <1>1, <1>2, <1>3, Ends
<1> QED
  BY <1>1, <1>2, <1>3, <1>4
     DEF EndsIn, Assembly!End, Assembly!Ready, Assembly!Nothing, Nil, ItemOf, Parsing, Depth,
         KeySeen, ValueSeen

(* Each callback is a step of the assembly, or changes nothing of it. *)
LEMMA StepImplements ==
  ASSUME Tree(Values, b), Tree(Values, b'), phase = "parsing", phase' = "parsing",
         TreeStep(Values, b, b')
  PROVE  [Assembly!Next]_(Assembly!vars)
<1>1. ASSUME OpenNow(b') = OpenNow(b), KeySeen(b') = KeySeen(b), ValueSeen(b') = ValueSeen(b)
      PROVE  UNCHANGED Assembly!vars
  BY <1>1 DEF Assembly!vars, Parsing, Depth, KeySeen, ValueSeen
<1>2. CASE Refused(b, b')
  BY <1>1, <1>2, RefusedSeen
<1>3. CASE SameTree(b, b') /\ b'.container_stack = b.container_stack
  BY <1>1, <1>3, MovedSeen
<1>4. ASSUME NEW kind \in {"scalar", "string"}, NEW val \in Values, Taken(b, b', kind, val),
             Top(b.state_stack) = "MAP_KEY_BEGIN" => kind = "string"
      PROVE  Assembly!Next
  BY <1>4, TakenImplements DEF Assembly!Next
<1>5. ASSUME NEW kind \in {"array", "map"}, NEW first, Opened(Values, b, b', kind, first)
      PROVE  Assembly!Next
  BY <1>5, OpenedImplements DEF Assembly!Next
<1>6. CASE Ended(b, b')
  BY <1>6, EndedImplements DEF Assembly!Next
<1> QED BY <1>2, <1>3, <1>4, <1>5, <1>6 DEF TreeStep

(* The end of llsd_parse_from_file releases nothing when nothing is open. *)
LEMMA NothingToDelete ==
  ASSUME NEW V, NEW x \in BuilderType(V), x.container_stack = << >>
  PROVE  delete_stacks(x).heap = x.heap
<1>1. PICK h, g : h = x.heap /\ g = delete_stacks(x).heap
  OBVIOUS
<1>2. h \in Seq(Object(V)) /\ DOMAIN h = 1 .. Len(h)
  BY <1>1, BuilderFields
<1>3. g = [o \in DOMAIN h |-> [h[o] EXCEPT !.freed = @ + deletions(x, o)]]
  <2>1. x = [x EXCEPT !.heap = x.heap]
    BY DEF BuilderType
  <2> QED BY <1>1 DEF delete_stacks, BuilderType
<1>4. ASSUME NEW o \in DOMAIN h
      PROVE  g[o] = h[o]
  <2>1. PICK w, d, m : w = h[o] /\ d = deletions(x, o) /\ m = w.freed
    OBVIOUS
  <2>2. w \in Object(V) /\ m \in Nat
    <3>1. h[o] \in Object(V)
      BY <1>2, <1>4
    <3> QED BY <2>1, <3>1 DEF Object
  <2>3. g[o] = [w EXCEPT !.freed = m + d]
    BY <1>3, <1>4, <2>1
  <2>4. g[o].freed = m
    BY <1>1, <1>2, <1>4, <2>1, DeleteStacksFacts
  <2>5. m + d = m
    BY <2>2, <2>3, <2>4 DEF Object
  <2>6. g[o] = [w EXCEPT !.freed = m]
    BY <2>3, <2>5
  <2>7. [w EXCEPT !.freed = m] = w
    BY <2>1, <2>2 DEF Object
  <2> QED BY <2>1, <2>6, <2>7
<1>5. DOMAIN g = DOMAIN h /\ \A o \in DOMAIN h : g[o] = h[o]
  BY <1>3, <1>4
<1>6. g = [o \in DOMAIN h |-> h[o]] /\ h = [o \in DOMAIN h |-> h[o]]
  <2>1. h = [o \in DOMAIN h |-> h[o]]
    BY <1>2
  <2>2. g = [o \in DOMAIN h |-> g[o]]
    BY <1>3
  <2> QED BY <1>5, <2>1, <2>2
<1> QED BY <1>1, <1>6

(* The end of a parse hands out the finished value, or nothing. *)
LEMMA FinishImplements ==
  ASSUME b \in BuilderType(Values), NEW ok \in BOOLEAN, Finish(ok)
  PROVE  Assembly!Finish
<1>1. phase = "parsing" /\ b' = delete_stacks(b) /\ phase' \in {"returned", "null"}
  BY DEF Finish, Outcome
<1>2. ASSUME phase' = "returned"
      PROVE  b.container_stack = << >> /\ b'.heap = b.heap /\ b'.llsd = b.llsd
  <2>1. b.container_stack = << >>
    BY <1>2 DEF Finish, Outcome, CompleteParse
  <2> QED BY <1>1, <2>1, NothingToDelete, DeleteStacksFacts
<1>3. b.container_stack = << >> => OpenNow(b) = << >> /\ Depth = 0
  BY DEF OpenNow, Depth
<1> QED BY <1>1, <1>2, <1>3 DEF Assembly!Finish, Assembly!Nothing, Nil, Parsing

(* Each callback that runs makes one of the steps that TreeStep tells apart. *)
LEMMA NextStep ==
  ASSUME StacksGrow, phase = "parsing", Tree(Values, b), Next
  PROVE  \/ phase' = "parsing" /\ TreeStep(Values, b, b')
         \/ \E ok \in BOOLEAN : Finish(ok)
<1>0. Lucks \subseteq Luck
  BY LucksAssumption DEF StacksGrow
<1>1. Ind(Values, b)
  BY DEF Tree
<1> DEFINE HasStepped == phase' = "parsing" /\ TreeStep(Values, b, b')
<1>2. ASSUME NEW val \in Values, NEW luck \in Lucks, Scalar(val, luck) \/ String(val, luck)
      PROVE  HasStepped
  BY <1>0, <1>1, <1>2, ValuesStep DEF Scalar, String, Callback
<1>3. ASSUME NEW luck \in Lucks, ArrayBegin(luck) \/ MapBegin(luck)
      PROVE  HasStepped
  BY <1>0, <1>1, <1>3, ValuesStep DEF ArrayBegin, MapBegin, Callback
<1>4. CASE ArrayValueBegin \/ ArrayValueEnd \/ ArrayEnd
  BY <1>4, MovesStep DEF ArrayValueBegin, ArrayValueEnd, ArrayEnd, Callback
<1>5. CASE MapKeyBegin \/ MapKeyEnd \/ MapValueBegin \/ MapValueEnd \/ MapEnd
  BY <1>5, MovesStep DEF MapKeyBegin, MapKeyEnd, MapValueBegin, MapValueEnd, MapEnd, Callback
<1>6. ASSUME NEW ok \in BOOLEAN, Finish(ok)
      PROVE  \E any \in BOOLEAN : Finish(any)
  BY <1>6
<1> QED BY <1>2, <1>3, <1>4, <1>5, <1>6 DEF Next

(* While the parse runs, the invariant says that the heap is a tree. *)
LEMMA RInvTree == RInv /\ phase = "parsing" => Tree(Values, b)
  BY DEF RInv, IInv, Tree

(* It holds when the parse begins. *)
LEMMA InitRInv == Init => RInv
<1> SUFFICES ASSUME Init PROVE RInv
  OBVIOUS
<1>1. Len(b.heap) = 0
  BY DEF Init, EmptyBuilder
<1>2. Formed(b.heap)
  BY <1>1 DEF Formed
<1> QED BY <1>2, InitIInv DEF RInv

(* Every step keeps it. *)
LEMMA NextRInv ==
  ASSUME StacksGrow
  PROVE  RInv /\ [Next]_vars => RInv'
<1> SUFFICES ASSUME RInv, [Next]_vars PROVE RInv'
  OBVIOUS
<1>1. IInv'
  BY NextIInv DEF RInv
<1>2. CASE UNCHANGED vars
  BY <1>1, <1>2 DEF vars, RInv
<1>3. CASE Next
  <2>1. phase = "parsing"
    BY <1>3, NextShape DEF RInv
  <2>2. Tree(Values, b)
    BY <2>1, RInvTree
  <2>3. CASE phase' = "parsing" /\ TreeStep(Values, b, b')
    <3>1. Formed(b'.heap)
      BY <2>2, <2>3, StepFormed
    <3> QED BY <1>1, <3>1 DEF RInv
  <2>4. ASSUME NEW ok \in BOOLEAN, Finish(ok) PROVE phase' # "parsing"
    BY <2>4 DEF Finish, Outcome
  <2>5. CASE \E ok \in BOOLEAN : Finish(ok)
    BY <1>1, <2>4, <2>5 DEF RInv
  <2> QED BY <1>3, <2>1, <2>2, <2>3, <2>5, NextStep
<1> QED BY <1>2, <1>3

(* The parse begins where the assembly does. *)
LEMMA InitImplements == Init => Assembly!Init
<1> SUFFICES ASSUME Init PROVE Assembly!Init
  OBVIOUS
<1>1. b.container_stack = << >> /\ b.key = 0 /\ b.llsd = 0 /\ phase = "parsing"
  BY DEF Init, EmptyBuilder
<1>2. OpenNow(b) = << >> /\ Depth = 0
  BY <1>1 DEF OpenNow, Depth
<1> QED BY <1>1, <1>2 DEF Assembly!Init, Assembly!Nothing, Nil, ValueAt, Parsing

(* Every step of the builder is one of the assembly, or changes nothing of it. *)
LEMMA NextImplements ==
  ASSUME StacksGrow
  PROVE  RInv /\ RInv' /\ [Next]_vars =>
           [Assembly!Next]_(Assembly!vars)
<1> SUFFICES ASSUME RInv, RInv', [Next]_vars PROVE [Assembly!Next]_(Assembly!vars)
  OBVIOUS
<1>1. CASE UNCHANGED vars
  <2>1. UNCHANGED Assembly!vars
    BY <1>1 DEF vars, Assembly!vars, Parsing, Depth
  <2> QED BY <2>1
<1>2. CASE Next
  <2>1. phase = "parsing"
    BY <1>2, NextShape DEF RInv
  <2>2. Tree(Values, b) /\ b \in BuilderType(Values)
    BY <2>1, RInvTree, TreeFacts DEF Tree, Ind
  <2>3. CASE phase' = "parsing" /\ TreeStep(Values, b, b')
    <3>1. Tree(Values, b')
      BY <2>3 DEF RInv, IInv, Tree
    <3> QED BY <2>1, <2>2, <2>3, <3>1, StepImplements
  <2>4. ASSUME NEW ok \in BOOLEAN, Finish(ok) PROVE Assembly!Next
    BY <2>2, <2>4, FinishImplements DEF Assembly!Next
  <2>5. CASE \E ok \in BOOLEAN : Finish(ok)
    BY <2>4, <2>5
  <2> QED BY <1>2, <2>1, <2>2, <2>3, <2>5, NextStep
<1> QED BY <1>1, <1>2

(* Whatever a front end calls and whatever fails on the way but the growth
   of a stack, llsd_parser.c builds the values TreeAssembly describes: items
   in their order, values under the key read before them, containers from the
   inside out, and to the caller a finished value with nothing released in it,
   or nothing. *)
THEOREM BuilderImplementsAssembly ==
  ASSUME StacksGrow
  PROVE  Spec => ImplementsAssembly
  BY InitRInv, NextRInv, InitImplements, NextImplements, PTL
     DEF Spec, ImplementsAssembly, Assembly!Spec
=============================================================================
