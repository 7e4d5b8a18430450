----------------------------- MODULE Serializer -----------------------------
(***************************************************************************)
(* llsd_serialize_to_file: the recursive walk of llsd_serializer.c over a  *)
(* value, calling one of the four serializers.                             *)
(*                                                                         *)
(* The C stack of llsd_serialize is the sequence calls.  A call whose      *)
(* callback or inner call fails goes to fail_llsd_serialize: it serializes *)
(* its value once more, from the start and into the same file, forgets     *)
(* what comes of that, and returns FALSE.  A second attempt has a second   *)
(* attempt of its own, so nothing but the C stack bounds how many there    *)
(* are: a call too many ends the process.                                  *)
(***************************************************************************)
EXTENDS TextSerializer, XmlSerializer, BinarySerializer, FiniteSets

CONSTANTS
  Documents,    \* values to serialize
  Formats,      \* the serializers: "notation", "json", "xml", "binary"
  MaxFaults,    \* writes that fail in one serialization (bounds the run)
  CStack        \* calls of llsd_serialize the C stack has room for

ASSUME FormatsAssumption == Formats \subseteq {"notation", "json", "xml", "binary"}
ASSUME MaxFaultsAssumption == MaxFaults \in Nat
ASSUME CStackAssumption == CStack \in Nat \ {0}

VARIABLES
  fmt,          \* the serializer asked for
  doc,          \* the value to serialize
  calls,        \* the calls of llsd_serialize in progress, innermost last
  st,           \* the serializer's state and the file, see SerializerOps
  faults,       \* writes that have failed so far
  failed,       \* a callback has returned FALSE
  verdict       \* "none", "running", then what the caller got: "TRUE" or
                \* "FALSE", or nothing: "crashed"

vars == <<fmt, doc, calls, st, faults, failed, verdict>>

(***************************************************************************)
(* map_value is FALSE in a new process, and whatever a serialization that  *)
(* failed has left in a later one.                                         *)
(***************************************************************************)
Init ==
  /\ fmt \in Formats
  /\ doc \in Documents
  /\ calls = << >>
  /\ \E pretty, map_value \in BOOLEAN :
       st = [out |-> << >>, count_stack |-> << >>,
             multiline_stack |-> <<fmt = "xml">>,
             indent |-> IF fmt = "xml" THEN 1 ELSE 0,
             key |-> FALSE, map_value |-> map_value, pretty |-> pretty,
             lost |-> FALSE]
  /\ faults = 0
  /\ failed = FALSE
  /\ verdict = "none"

init_fn(s) ==
  CASE fmt = "notation" -> notation_init(s)
    [] fmt = "json"     -> json_init(s)
    [] fmt = "xml"      -> xml_init(s)
    [] fmt = "binary"   -> binary_init(s)

callback(s, call, node) ==
  CASE fmt \in {"notation", "json"} -> text_callback(s, call, node)
    [] fmt = "xml"                  -> xml_callback(s, call, node)
    [] fmt = "binary"               -> binary_callback(s, call, node)

deinit_fn(s) ==
  CASE fmt \in {"notation", "json"} -> text_deinit(s)
    [] fmt = "xml"                  -> xml_deinit(s)
    [] fmt = "binary"               -> s

(***************************************************************************)
(* What the call for a value does, one step after the other: the callback  *)
(* that begins a container, three steps for each kid, the callback that    *)
(* ends it.                                                                *)
(***************************************************************************)
Around(kind, kid) ==
  CASE kind = "array" ->
         <<"array_value_begin", "llsd_serialize", "array_value_end">>
    [] kind = "map" /\ kid % 2 = 1 ->
         <<"map_key_begin", "llsd_serialize", "map_key_end">>
    [] kind = "map" /\ kid % 2 = 0 ->
         <<"map_value_begin", "llsd_serialize", "map_value_end">>

LastStep(node) == IF HasKids(node) THEN 3 * Len(node.kids) + 2 ELSE 1
KidAt(at)      == ((at - 2) \div 3) + 1
StepAt(node, at) ==
  CASE ~HasKids(node)      -> "value"
    [] HasKids(node) /\ at = 1 ->
         IF node.kind = "array" THEN "array_begin" ELSE "map_begin"
    [] HasKids(node) /\ at = LastStep(node) ->
         IF node.kind = "array" THEN "array_end" ELSE "map_end"
    [] OTHER -> Around(node.kind, KidAt(at))[((at - 2) % 3) + 1]

Call(node) == [node |-> node, at |-> 1, failed |-> FALSE]
Innermost  == calls[Len(calls)]

Advance(fs) == [fs EXCEPT ![Len(fs)].at = @ + 1]

(* Bug for the checks: what the second attempt returns is returned. *)
Fail_ForgetsWhy(fs) == Replace(fs, Call(fs[Len(fs)].node))
Fail(fs) ==
  Push([fs EXCEPT ![Len(fs)].failed = TRUE], Call(fs[Len(fs)].node))

(***************************************************************************)
(* The fault a callback is struck by, if any.  None makes more than four   *)
(* writes.                                                                 *)
(***************************************************************************)
MaxWrites == 4
Faults ==
  {[left |-> n, noticed |-> noticed] : n \in 1 .. MaxWrites,
                                       noticed \in BOOLEAN} \union {NoFault}

Struck(s, fault) ==
  IF fault = NoFault
  THEN UNCHANGED faults
  ELSE faults < MaxFaults /\ s.fault.left = 0 /\ faults' = faults + 1

(***************************************************************************)
(* The serializer's init function runs, and the outermost call starts.     *)
(***************************************************************************)
Begin(fault) ==
  LET s == init_fn(Run(st, fault))
  IN  /\ verdict = "none"
      /\ Struck(s, fault)
      /\ st' = s.st
      /\ calls' = IF s.ok THEN <<Call(doc)>> ELSE << >>
      /\ verdict' = IF s.ok THEN "running" ELSE "FALSE"
      /\ failed' = ~s.ok
      /\ UNCHANGED <<fmt, doc>>

Running == verdict = "running" /\ calls # << >>
CallsMustFit == verdict' = IF Len(calls') <= CStack THEN verdict ELSE "crashed"
MayStep == Running /\ ~Innermost.failed /\ Innermost.at <= LastStep(Innermost.node)

Callback(fault) ==
  LET call == StepAt(Innermost.node, Innermost.at)
      s    == callback(Run(st, fault), call, Innermost.node)
  IN  /\ MayStep
      /\ call # "llsd_serialize"
      /\ Struck(s, fault)
      /\ st' = s.st
      /\ calls' = IF s.ok THEN Advance(calls) ELSE Fail(calls)
      /\ CallsMustFit
      /\ failed' = (failed \/ ~s.ok)
      /\ UNCHANGED <<fmt, doc>>

Descend ==
  /\ MayStep
  /\ StepAt(Innermost.node, Innermost.at) = "llsd_serialize"
  /\ calls' = Push(calls, Call(Innermost.node.kids[KidAt(Innermost.at)]))
  /\ CallsMustFit
  /\ UNCHANGED <<fmt, doc, st, faults, failed>>

(***************************************************************************)
(* The innermost call returns, TRUE when all its steps are done and FALSE  *)
(* when its second attempt is over.  That attempt is the call below a      *)
(* failed one, and its own result is dropped.                              *)
(***************************************************************************)
Return ==
  LET caller == calls[Len(calls) - 1]
      below  == Pop(calls)
  IN  /\ Running
      /\ ~MayStep
      /\ Len(calls) > 1
      /\ calls' = CASE caller.failed -> below
                    [] ~caller.failed /\ ~Innermost.failed -> Advance(below)
                    [] ~caller.failed /\ Innermost.failed  -> Fail(below)
      /\ UNCHANGED <<fmt, doc, st, faults, failed, verdict>>

(***************************************************************************)
(* The outermost call has returned.  The serializer's deinit function runs *)
(* only when it has returned TRUE.                                         *)
(***************************************************************************)
Finish(fault) ==
  LET s == IF Innermost.failed THEN Run(st, NoFault)
                               ELSE deinit_fn(Run(st, fault))
  IN  /\ Running
      /\ ~MayStep
      /\ Len(calls) = 1
      /\ Struck(s, fault)
      /\ st' = s.st
      /\ calls' = << >>
      /\ verdict' = IF Innermost.failed \/ ~s.ok THEN "FALSE" ELSE "TRUE"
      /\ UNCHANGED <<fmt, doc, failed>>

Next ==
  \/ \E fault \in Faults : Begin(fault) \/ Callback(fault) \/ Finish(fault)
  \/ Descend \/ Return

(***************************************************************************)
(* One thread runs the walk and nothing in it waits, so it always steps.   *)
(***************************************************************************)
Spec == Init /\ [][Next]_vars /\ WF_vars(Next)

-----------------------------------------------------------------------------
TypeOK ==
  /\ fmt \in Formats /\ doc \in Documents
  /\ \A i \in 1 .. Len(calls) : calls[i].at \in 1 .. LastStep(calls[i].node) + 1
  /\ st.indent \in Nat
  /\ st.count_stack \in Seq(Nat) /\ st.multiline_stack \in Seq(BOOLEAN)
  /\ faults \in 0 .. MaxFaults /\ failed \in BOOLEAN
  /\ verdict \in {"none", "running", "TRUE", "FALSE", "crashed"}

(***************************************************************************)
(* The calls whose container has begun and not ended, outermost first, and *)
(* how many entries such a call has completed.  Only the innermost call    *)
(* may be before its container's beginning or after its end; the others    *)
(* wait for the call for one of their kids.                                *)
(***************************************************************************)
IsOpen(c) == HasKids(c.node) /\ c.at \in 2 .. LastStep(c.node)
OpenCalls == IF IsOpen(Innermost) THEN calls ELSE Pop(calls)
EntriesOf(c) ==
  LET kids == (c.at - 2) \div 3
  IN  IF c.node.kind = "map" THEN kids \div 2 ELSE kids

(***************************************************************************)
(* Until something fails, the stacks a serializer pushes and pops in its   *)
(* own callbacks mirror the calls of llsd_serialize, which it can not see: *)
(* one frame per open container, with the number of entries completed, so  *)
(* that a comma is written before every entry but the first.               *)
(***************************************************************************)
StacksMirrorCalls ==
  ~failed /\ verdict = "running" /\ fmt # "binary" =>
    /\ \A i \in DOMAIN OpenCalls : IsOpen(OpenCalls[i])
    /\ Len(st.multiline_stack) = Len(OpenCalls) + 1
    /\ st.pretty => st.indent = Len(OpenCalls) + (IF fmt = "xml" THEN 1 ELSE 0)
    /\ fmt # "xml" =>
         st.count_stack = [i \in DOMAIN OpenCalls |-> EntriesOf(OpenCalls[i])]

(***************************************************************************)
(* llsd_serialize_to_file returns TRUE exactly when every callback has: no *)
(* second attempt, however it went, hides that the first one failed, and   *)
(* the deinit functions find the stacks as they left them.                 *)
(***************************************************************************)
FailureIsReported ==
  verdict \in {"TRUE", "FALSE"} => (verdict = "TRUE" <=> ~failed)

(***************************************************************************)
(* A binary file that is reported written is written, every byte of it.    *)
(* The other formats ignore the result of some writes; see the README.     *)
(***************************************************************************)
BinaryIsComplete == verdict = "TRUE" /\ fmt = "binary" => ~st.lost

(***************************************************************************)
(* A second attempt is under way only where a write has failed for it: no  *)
(* callback refuses a value because of what a first attempt has left in    *)
(* the serializer's state.  So the C stack need be no deeper than the      *)
(* value and the failed writes together.                                   *)
(***************************************************************************)
SecondAttempts == {i \in DOMAIN calls : calls[i].failed}
AttemptsHaveCauses == Cardinality(SecondAttempts) <= faults
=============================================================================
