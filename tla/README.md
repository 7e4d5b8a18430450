# A TLA+ verification of cllsd

cllsd reads and writes LLSD values (undef, boolean, integer, real, uuid,
string, date, uri, binary, array, map) in four encodings: binary, notation,
XML and JSON. This directory holds TLA+ models of its parsers, of the tree
builder behind them and of its serializers, TLC runs that check them on small
instances, and TLAPS proofs about the tree builder, the parsers, the
serializers and the codecs for every size and every input.

## 1. The system

### Components, their state and their operations

| Component | Code | State | Operations |
|---|---|---|---|
| tree builder | `src/src/llsd_parser.c` | `parser_state_t`: `state_stack`, `container_stack`, `key`, `llsd`; the values created so far | nineteen callbacks (`llsd_ops_t`), `llsd_parse_from_file` |
| event protocol | `src/src/llsd.h` | `state_t`, thirteen states used as bits of masks | none |
| binary parser | `src/src/llsd_binary_parser.c` | own `state_stack` | one turn of a loop per marker |
| notation, JSON parser | `src/src/llsd_notation_parser.c`, `llsd_json_parser.c` | own `state_stack` and `count_stack` | one turn of a loop per token |
| XML parser | `src/src/llsd_xml_parser.c` | own `state_stack`, text buffer `buf` | start tag, end tag and text handlers that expat calls |
| serializer driver | `src/src/llsd_serializer.c` | the C stack of `llsd_serialize` | the recursive walk with its second attempts |
| four serializers | `src/src/llsd_*_serializer.c` | stacks of counts and of "multiline" flags, indentation, a key flag (XML), the static `map_value` (text formats) | the same nineteen callbacks, init, deinit |
| value API | `src/src/llsd.c` | `llsd_t` with its payload | create, delete, append, insert, look up, iterate, convert, compare |
| codecs | `src/src/base16.c`, `base64.c`, `base85.c` | none | encode, decode, lengths |
| wrappers | `src/c++`, `src/go`, `src/php`, `src/python`, `src/ruby` | none | forward to the C API |
| cutil, expat | external | lists, hash tables, buffers; the XML reader | |

### How they interact

`llsd_parse_from_file` looks at a file's signature, picks a parser and hands
it the builder's callback table. The parser turns tokens into callbacks:
begin a value, the value, end it, begin and end a container. Both sides keep
a stack of `state_t` and neither reads the other's. They move on different
events: the builder moves the frame of a container's parent when the container
*begins*, the parser when it has *ended*. When the parser is done,
`llsd_parse_from_file` decides from the builder's stacks alone whether the
parse was complete, and deletes the stacks, whose destructor deletes the
containers still open.

On the way out `llsd_serialize` walks a value and calls one of four tables of
the same callbacks. A serializer sees callbacks only and tracks nesting on
stacks of its own. A call that fails serializes its value *again* into the
same file (`fail_llsd_serialize`), drops what comes of that, and returns FALSE.

### What is hard here

The program is sequential. What is hard to test in it is partial failure and
protocol: three to four stacks in two files that have to move together, an
allocation or an insertion that fails between two moves, a stack that fails to
grow without anybody noticing, a value that is deleted while something refers to it, a handler whose failure is ignored
(XML) and which leaves half of its work behind, a second attempt that works on
stacks the first one has left half pushed. The rest is in the spelling of
payloads, where one side escapes, measures and rounds by its own rules and the
other side by other ones, and in the value API, whose results point into
values or into static buffers. PROJECT.json lists these hazards at
their lines with the properties about them.

### What makes each component correct

- **builder**: the two stacks fit each other; open containers are a path of
  the tree; a key is there when a map needs one; nothing in use is released;
  the tree is a tree and its maps hold pairs; containers that have ended do not
  change.
- **parsers**: their stack and the builder's agree between any two tokens; the
  documents accepted are exactly those of the grammar, and what is returned is
  the tree they denote, or NULL.
- **serializers**: their stacks follow the recursion they cannot see; a
  failure reaches the caller; the walk ends.
- **both together**: what is written comes back.
- **codecs and payloads**: a payload comes back from its text, through buffers
  of the right size; where it cannot, it is known exactly when.
- **value API**: every value has one owner and is released once; `llsd_equal`
  is equality of values; what a conversion returns can be used until its
  storage is used again.

## 2. The modules

| Module | Models | Correspondence |
|---|---|---|
| `LLSDTypes` | `llsd.h`, the macros `PUSH`, `POP`, `TOP` | A state is a string, a mask a set of strings. `BeginOf`, `ValueOf`, `EndOf` are the switches of `begin_value`, `value`, `end_value`. |
| `BuilderOps` | `llsd_parser.c` and what it uses of `llsd.c` | One operator per callback: from a builder record to its result and the record it leaves, changed or not. The heap makes references and releases visible: an object's index is its address. |
| `Builder` | `llsd_parser.c` under an arbitrary front end | One action per callback, in any order, whatever it returned; `Finish` is the end of `llsd_parse_from_file`. |
| `TreeAssembly` | what `llsd_parser.c` promises | Abstract: containers begun and not ended, with their items, a key and a value. No heap, no event protocol, no failures. |
| `BuilderRefinement` | | The heap of `Builder` seen as values; `Assembly == INSTANCE TreeAssembly WITH ...`. |
| `CallbackProofs` | | Proofs about the callbacks of `BuilderOps`, for any caller, and about `ParserOps`, for any parser. |
| `BuilderProofs` | | Proofs about `Builder`. |
| `ParserOps` | `begin_value`, `value`, `end_value` | The four parsers hold private copies of these three functions, alike but for a count; they are modelled once. A handler is a run that does nothing more after its first failed check. |
| `TextParser` | notation and JSON parser with the builder | One action per kind of token. |
| `BinaryParser` | binary parser with the builder | One action per kind of marker. |
| `XmlParser` | XML parser with the builder | One action per handler and element type; `warned` records that a handler has failed. |
| `TextParserProofs`, `BinaryParserProofs`, `XmlParserProofs` | | Proofs about the three parser modules. |
| `LLSDTrees` | | Trees, and sequences of tokens taken apart; used by the grammars. |
| `SerializerOps` | the macros of the serializers, writes that fail | |
| `TextSerializer`, `XmlSerializer`, `BinarySerializer` | the callbacks of the serializers | Notation and JSON write the same punctuation from the same state and are modelled once. |
| `Serializer` | `llsd_serialize_to_file`, `llsd_serialize` | `calls` is the C stack: for each call its value, the step it is at, whether it has gone to `fail_llsd_serialize`. |
| `SerializerProofs` | | Proofs about `Serializer` with each of the serializers. |
| `RoundTrip` | `llsd_serialize_to_file`, then `llsd_parse_from_file` | `INSTANCE`s of `Serializer` and of the three parsers over one file, and what a parser does not see of it. |
| `Codecs` | `base16.c`, `base64.c`, `base85.c` | One operator per function, from a sequence of bytes to the result and the bytes written. Bits are quotients and remainders. |
| `CodecProofs` | | Proofs about `Codecs`. |
| `TextPayloads` | the functions of the text formats that write and read strings, uris and dates | One operator per function; text is a sequence of character codes. |
| `Payloads` | the serializers' callbacks of strings, uris, dates and binaries, and the cases of the parsers' loops that read them | `file` is what is between the quotes or tags; one action per callback and per way to read. |
| `ValueApi` | `llsd.c` under an arbitrary lawful program | One action per function that changes or converts a value; `heap` makes ownership and releases visible, `static` holds the static variables. |
| `ValueApiProofs` | | Proofs about `ValueApi`. |
| `MC*`, `RoundTripDocuments` | | Grammars, documents and bounds for TLC. |

The builder callbacks are shared: `Builder` calls the operators of
`BuilderOps` in any order, the parsers call the same operators in the order of
their tokens. What is proved of `Builder` therefore holds whatever a parser
does, including the XML parser after a failure.

### Abstractions

- Undef, boolean, integer, real, uuid, date, uri and binary are one kind,
  "scalar": the event protocol does not tell them apart. Strings are a kind of
  their own because they may be keys.
- In `Payloads` and `Codecs` nothing of a text is abstracted but these: the
  name the calendar has for a second (`gmtime` and `mktime` are taken as
  inverses), `sscanf` of a date that is well formed, and an entity in XML, which is
  one character with a mark. Expat resolves entities and makes line feeds of
  carriage returns.
- In `ValueApi` a text or a number is a model value with the kind it was made
  from, so it can be told what a result still points to. Strings are compared
  by their text alone, as `STRCMP` does; binaries made of values of different
  kinds count as different. Reals and dates are left out. A lawful
  program gives away and deletes what it owns and uses nothing it has deleted.
  `list_pop_tail` returns what it takes out without deleting it, as the
  builder's use of the same list for its stack shows; `ht_insert` refuses a key
  that is there.
- A token is what one turn of a parser's loop reads. Text that gives no token
  is "garbage". Payloads are model values.
- Calls outside `src/` that may fail are given their outcome, `luck`:
  "no_memory" when a value cannot be created, "refused" when a list or hash
  table does not take it (no memory, or a key it already has), "malformed" when
  the text of an XML scalar does not convert, "no_buffer" when the XML text
  buffer cannot grow. The runs let each call fail on its own.
- The results of `PUSH` and `PUSHC` are ignored by the code. When a container
  begins, a stack that cannot grow loses its frame: the builder's
  ("no_container", "no_state"), the parser's ("no_frame", "no_count"), or all of
  them ("no_stacks"). `StacksGrow` says that none of these happens; the theorems
  about the builder and the parsers assume it, and run `text_parser_lost_push`
  does without. Two pushes are taken to succeed always: one that
  follows a `POP` of the same stack, for which the pop has made room, and the
  first one, of TOP_LEVEL, into a list made with room for it (in XML, where every
  `llsd` tag pushes, that one may be lost too). The serializers push counts and
  flags in the same way; theirs are taken to succeed.
- An XML string is taken from the buffer with a zero appended to it. When that
  fails, `TextsRead` lets the string go on with anything.
- A failing write leads to a second attempt, a call of `llsd_serialize` that does
  not return before its value has been tried again. `CStack` is the number of
  calls the C stack has room for; beyond it the program is "crashed".
- A failing write is a `fault` that strikes after some number of writes of a
  callback. Whether the code looks at the result is modelled write by write;
  for a scalar in a text format it depends on the type, and is a choice.
- Expat lets through what is well nested below one root, and stops calling
  back at the end of the file or at a syntax error.
- `llsd_array_append` has no `return` (`llsd.c:404`). The value of the call is
  what a compiler leaves in the return register, the result of
  `list_push_tail`; the model takes that outcome.

## 3. The runs

| Run | Asks | Instance |
|---|---|---|
| `builder` | Do the builder's invariants hold for any order of callbacks and any failures? | 5 objects |
| `text_parser` | Is exactly the grammar accepted, is the tree right, do the stacks agree, are the counts the numbers of values? | every sequence of up to 9 tokens, calls failing anywhere |
| `text_parser_lost_push` | Is the tree still the document's when the container stack fails to grow? (violated) | up to 6 tokens |
| `binary_parser` | The same without counts, for a parser that itself accepts any end of file | every sequence of up to 7 tokens, calls failing anywhere |
| `xml_parser` | Do documents give their tree, each leaf with its own text, without a warning; how far do the stacks agree; is a file read without a warning a document? | up to 4 elements of six types, one text, conversions and calls failing |
| `xml_incomplete` | Does a value returned mean that the file was read to its end? (violated) | up to 4 elements |
| `serializer` | Do the serializers' stacks follow the walk, are failures reported, has every second attempt a cause, how many failing writes does the C stack survive? | nine values up to three containers deep, four formats, up to 2 failing writes, room for 5 calls |
| `round_trip` | Does what is written come back? | 298 values with up to three levels, four formats, with line breaks and without |
| `payloads` | Do strings, uris, dates and binaries come back from their texts, are texts by hand read as what they stand for, do they fit the buffers measured for them? | all values of up to 3 or 4 characters over alphabets of what is special to some format, boundary cases of dates, `BufLen = 3` |
| `milliseconds` | Are the milliseconds of a date added, as the comments say? (violated) | the dates of `payloads` |
| `value_api` | Does every value keep one owner, is `llsd_equal` equality, how long are results good? | two parsed values of 11 shapes or none, up to 3 objects made, 2 conversions |
| `uuid_text` | Does `llsd_as_uuid` take a text of the form 8-4-4-4-12? (violated) | a uuid |

### Why these bounds are enough

`MaxObjects = 5` allows containers three deep with a key and a value at the
bottom, a map with two pairs, and a refused value at each of these places. The
builder's code looks at the innermost frame and the innermost container only,
and the containers above it matter at two moments, when one is opened and when
one is closed; both happen at every depth up to three, and the theorems of
section 5 take over from there.

`MaxTokens = 9` reaches `[[[v,v]]]`, `{k:{k:v}}`, a pair after an inner
container, and for each of these all sequences that differ from it in any
token. Binary documents need no separators, so 7 markers reach further than 9
text tokens. In the parsers' runs a failed call ends the parse, so failures
cost little and are part of the same runs; `lucky` tells the property that
speaks of the grammar whether one has happened.

In `xml_parser` failures do not end the parse and every later handler runs on
what is left; four elements are the root, two containers and a leaf that fails
in the inner one, with the closing tags of both after it, or a container, a leaf
that fails and two elements more. `lucky` tells documents during which
nothing has failed, for the property that says that they are taken.

`MaxFaults = 2` lets a second attempt fail as well. `CStack = 5` has
room for the four calls of the deepest value and one failing write, or for any
other of the values and two, so that what is deep enough and what is not are both in
the run. `MaxWrites` is the largest
number of writes one callback makes, `Endless` in `RoundTrip` is larger than
any file the documents give.

`BufLen = 3` stands for 1024: the readers look at most one character back, so
a boundary has to fall at, before and after a backslash and a quote, which
texts of four and five characters give with a buffer of three. The codecs work
in groups of three, four and five; binaries of up to seven bytes reach the
second group and every length of the last one. Bytes are the extremes of each
bit field with zero and the space, which base85 spells in a way of their own.
The escapes of JSON are tried for the first and last code point of every length of
UTF-8, in twos. `Undefined` holds two of the values a function that returns
none may leave.

`MaxObjects = 3` in `value_api` allows a container, a key and a value beside
one another, or one inside another; larger trees are in the parsed values,
whose containers are nested and differ in one place each.

`StopsOnlyAtDeadEnds` speaks of texts some document begins with. `Viable`
looks for a completion among the shortest ones: at most the rest of one entry
and the closing brackets.

### Fairness and deadlock

Safety of the parsers needs no fairness. `Serializer` has `WF_vars(Next)`: one
thread runs the walk and nothing in it waits. `Terminates` says
that the call returns as long as the C stack has room for the value and one
attempt for each failing write (`Height(doc) + faults <= CStack`);
`AttemptsHaveCauses` says that there are no other attempts, that is, that what an
attempt leaves in the serializer's state never makes a callback fail. When
writes go on failing each second attempt makes one of its own until the C stack is
full: then the call does not return, and `verdict` is "crashed".

`RoundTrip` needs no fairness either: its run checks for deadlock, so a parser
that could take neither the next token nor the end of the file would be
reported, and with `MaxFaults = 0` neither the walk nor the parse can go on forever. In
the other runs the system stops when the parse or the serialization has
returned, and deadlock is not checked.

## 4. What the checks show

**It holds.** The builder keeps its stacks, key and tree consistent for every
order of callbacks. Text and binary parsers, with the builder behind them, accept
exactly their grammar as long as no stack fails to grow, although the binary
parser itself returns TRUE wherever its file ends and pops frames without looking
at them. XML documents give
their tree with every text in its place; until a handler fails the stacks
agree, and no file that is ill-nested, or lacks a key or a value, is read to
its end without a warning. The serializers' stacks follow the walk, failures
are reported, binary files reported written are complete, and values come back
from all four formats even if `map_value` is left over from a serialization
that failed.

The builder implements `TreeAssembly`: whatever is called and whatever fails,
each step is a step of an assembly of one value from the inside out, or
changes nothing that counts, and the caller gets a finished value with nothing
released in it, or NULL.

Binaries come back from every encoding through buffers that are filled exactly;
strings come back from the notation always, from JSON unless they are spelt like
a value of another type. The value functions keep ownership clear, the removal of a
pair by its own key included, and `llsd_equal` is equality up to the order of
pairs.

**Disagreements** between what the repository says and what the code does, each
with a run that shows it:

1. `llsd_parse_from_file` says "make sure we had a complete parse"
   (`llsd_parser.c:544`). An XML file that ends, or has a syntax error, behind its
   first complete value is returned as that value: `llsd_xml_parse_file` logs the
   error and returns TRUE, and the builder does not know of the `llsd` element
   that is still open. Run `xml_incomplete`.
2. The same comment, when the container stack cannot grow for the inner array of
   `[[v]]` (`llsd_parser.c:298`): `v` goes to the outer one and a wrong tree is
   returned. Run `text_parser_lost_push`.
3. "add in the miliseconds" (`llsd_json_parser.c:402`, `llsd_notation_parser.c:507`,
   `llsd_xml_parser.c:573`): they are multiplied by 1000 where they should be
   divided. Run `milliseconds`.
4. "check for 8-4-4-4-12" (`llsd.c:828`): the check refuses every text of that form.
   Run `uuid_text`.

**Others that were met while modelling.** The models do what the code does
here, and the properties leave it out, so that a correction of the code would not
break them:

- The README says (`src/README:8-10`) that its JSON "fixes the lossiness" of the
  draft's. A string spelt like a date, a uuid, `||b64||...` or `||uri||...` comes
  back as a value of that type, and as a map key makes the whole parse fail
  (`RoundTrip!TokenRead`).
- The comments of `llsd_json_decode_uri` say "url encoded" and "do % decoding"
  (`llsd_json_parser.c:501`, `:518`). The second digit of an escape is read
  once more, as a character: `%2F` gives `/F`.
- "this results in a 2-byte UTF-8 sequence" (`llsd_json_parser.c:645`), and of
  surrogate pairs, a 4-byte one (`:618`). The bits are shifted by other numbers
  than UTF-8 has them: U+0100 to U+07FF and all pairs become other bytes.
- "zero terminate the string" (`llsd_xml_parser.c:829`): nobody looks at whether
  the zero was appended (`XmlParser!TextsRead`).
- The tests expect FALSE of a serialization that fails
  (`tests/test_common.c:508`). On a full disk `llsd_serialize` calls itself
  (`llsd_serializer.c:221`) until the C stack is full.
- When neither of the builder's stacks can grow, a binary file cut off inside
  its array is returned as the empty array, for the binary parser itself accepts
  every end (`llsd_binary_parser.c:308`).

**Limits of what is stated**, where the code does less than one might expect:

- `ReleasedOnce` speaks of parses that end with at most one open container.
  With two or more, the container stack's destructor deletes the outer one with
  all it holds, the inner one among it, and then the inner one again.
- A parse that fails does not delete `state.llsd` (unless it is an open
  container) nor the pending key, and of several values at top level only the
  last is kept. These are leaks, which no property is about.
- `LockStepUntilWarned` excludes files with a second `llsd` element. Each
  pushes a TOP_LEVEL frame in the parser and none in the builder.
- `UnwarnedIsDocument` allows a leaf at top level to enclose other elements:
  in state TOP_LEVEL the handlers do not notice. It looks through `llsd` and
  unknown elements, as the handlers do.
- Tokens are what the readers make of a file. In notation that may be more files
  than its syntax has, for how a boolean ends is not looked at (section 6).
- `DatesComeBack` is about whole seconds from 1970 to 2106. Of earlier and later
  dates nothing is said: the seconds go through a uint32.
- `UrisComeBack` says which uris come back: the serializers write them as they
  are, so quotes and backslashes are taken for something else unless they happen
  to fit the reader's rules. In JSON it leaves out uris with a percent sign, which
  the reader takes for an escape.
- `StringsComeBack`: XML drops control characters and has line feeds for
  carriage returns. The strings of the run are too short to be spelt like a date
  or a uuid, which do not come back from JSON.
- `BinariesComeBack` excludes base85 of a short last group of zeros, which
  grows to four, and base85 in the notation when the text has a quote or a
  backslash in it. The library writes base64 only.
- `EscapesDecode` leaves out what escapes of U+0100 to U+07FF and surrogate pairs
  are decoded to; it does say that they fit the buffer.
- `ConversionsComeBack` leaves out FALSE, which becomes a text or a byte that is
  not empty and so counts as TRUE, and uuids (`uuid_text`).
- `BinaryIsComplete` is about the binary format, and about writes to the stream:
  `fwrite` fills the stream's buffer, and the code neither flushes nor closes it.
  The other formats do not look at the results of the writes of commas, colons,
  white space, strings and tags, so a full disk can give a damaged file and TRUE.
- `AcceptsTheGrammar`, `ReturnsTheTree` and `LockStep`, and what the run `builder`
  checks, are about stacks that grow.
- `RoundTripPreserves` says nothing of strings in JSON that are spelt like a value
  of another type.
- `ReturnsTheTree` of XML is about files during which nothing fails. Behind a
  failed handler the texts of two elements run together.

Each property of a run has a variant of the code that breaks it (`mutants` in
PROJECT.json, the operators commented "Bug for the checks"): a dropped guard,
a stack that is not popped, a key or flag that is not reset, a result that is
not looked at.

## 5. What is proved

All proofs are about the specifications the runs check, for every value of
their constants. The assumptions are the `ASSUME`s of the modules: a bound is a
natural number, "none", the payload of a container, is not a payload of a
scalar, the ways in which calls fail are those `Luck` names, and a program that
uses values starts from heaps as a parse leaves them (`AsParsed`, which is what
`TreeIsATree` and `UsedAlwaysLive` say of the builder). The theorems about the
builder and the parsers have one more, stated in each of them: `StacksGrow`. No
proof uses a bound, so each theorem holds for heaps, documents and numbers of failures of
any size.

| Module | Theorem | States |
|---|---|---|
| `BuilderProofs` | `TypeCorrect` | `[]TypeOK` |
| | `FramesAlwaysMatch` | `[]FramesMatchContainers` |
| | `OpenContainersAlwaysFormPath` | `[]OpenContainersFormPath` |
| | `KeyAlwaysReady` | `[]KeyReady` |
| | `UsedAlwaysLive` | `[]UsedIsLive` |
| | `TreeIsATree` | `[]NoSharing` |
| | `OnlyInnermostEverGrows` | `OnlyInnermostGrows` (action property) |
| | `NothingReleasedTwice` | `ReleasedOnce` (action property, part of no run) |
| | `BuilderImplementsAssembly` | `ImplementsAssembly`: `Builder` refines `TreeAssembly` |
| `BinaryParserProofs` | `TypeCorrect`, `AlwaysInLockStep` | `[]TypeOK`, `[]LockStep` |
| `TextParserProofs` | `TypeCorrect`, `AlwaysInLockStep`, `CountsAlwaysValues` | `[]TypeOK`, `[]LockStep`, `[]CountsAreValues` |
| `XmlParserProofs` | `TypeCorrect`, `InLockStepUntilWarned` | `[]TypeOK`, `[]LockStepUntilWarned` |
| `SerializerProofs` | `TypeCorrect`, `StacksAlwaysMirror` | `[]TypeOK`, `[]StacksMirrorCalls` |
| | `FailureAlwaysReported`, `BinaryAlwaysComplete` | `[]FailureIsReported`, `[]BinaryIsComplete` |
| | `AttemptsAlwaysHaveCauses` | `[]AttemptsHaveCauses` |
| `ValueApiProofs` | `ValuesTypeOK`, `ValuesOwnedOnce` | `[]TypeOK`, `[]OwnedOnce` |
| | `EqualStructural`, `ComesBack` | `[]EqualIsStructural`, `[]ConversionsComeBack` |
| `CodecProofs` | `Base16ComesBack` | `base16_decode` after `base16_encode` is the identity, with the length `base16_decoded_len` computes |
| | `QuartetComesBack` | `decode_quartet` after `encode_quartet` is the identity for groups of one to three bytes |
| | `Base64LengthComesBack` | the text has `BASE64_LENGTH` characters, and `base64_decoded_len` computes the number of bytes from it |
| | `QuintetComesBack` | `decode_quintet`, of what `encode_quintet` writes filled up with 'u', is the identity for groups of one to four bytes without a short form; the sum fits a uint32 and every character is in range |

### The builder

None of the builder's invariants is inductive alone. To show that a refused
value can be released (`UsedIsLive`), one has to know that nothing refers to
it; that it was offered to the innermost open container and not to one that is
gone (`FramesMatchContainers`, `OpenContainersFormPath`); and that the key it
came with is alive (`KeyReady`). `Ind` (in `CallbackProofs`, about any builder
record, so that the parsers can use it too) is the conjunction of the type and
four parts:

- `Frames`: one frame per open container above TOP_LEVEL, in a state of the
  container's kind;
- `Path`: each open container is the last kid of the one before, which waits
  for it in ARRAY_VALUE or MAP_VALUE, and addresses grow inwards. The last
  clause is what makes the open containers distinct, so that a value appended
  to the innermost one does not disturb the links above it;
- `Keyed`: in MAP_KEY, MAP_KEY_END and MAP_VALUE_BEGIN the key is a live string;
- `Live`: what is returned, what is open and what any object holds is live.

`NoSharing` needs `Sole` beside it: a container is older than what it holds
(`Ordered`), nothing is held at two places (`HeldOnce`), and neither the value
to return nor the pending key is held at all (`KeyApart`; a key that were held
already would be held twice once its value comes). With `Sole`,
`ReleasedOnce` follows without a recursion over the tree: the destructor
releases the objects *reached from* the open container, `Ordered` makes
"holds" well founded, so of the objects released twice there would be an
oldest one, which would have two holders.

`OnlyInnermostGrows` speaks of the right spine of the tree from the value to
return, a recursive function; `SpineIsPath` shows by a least counterexample that it
is the path of open containers.

The lemmas go bottom up: sequences and records (`PushFacts`, `PopFacts`,
`BuilderFields`, `HeapFacts`), each part under each elementary change
(`FramesStep`, `PathStep`, `LiveCreate`, `LiveDelete`, `LiveHold`), the helpers
of the code in the order they call each other (`CreateInd`, `MoveInd`, `AddInd`,
`KeyInd`, `UpdateInd`, `DeliverInd`, `OpenContainerInd`, `CloseContainerInd`),
then what each callback does to the tree and the stacks in one formula
(`Shaped`: `Refused`, `Taken`, `Opened`, or `SameTree`), then one step per action.

### The builder as an assembly of values

`BuilderImplementsAssembly` is the one theorem about what is built, not only
that it is well formed. Its refinement mapping sees an object of the heap as a
value through a recursive function, `Seen`, and each open container as the
items it has so far (`OpenNow`), leaving out the container inside it and that
one's key, which the code files at the begin and which count as an item only
at the end. The steps of the argument are:

- `SeenEquation`: `Seen` satisfies the equation it is defined by. Containers are
  older than what they hold (`Ordered`), so a function that satisfies it exists
  on the youngest n objects for each n; the first n without one is refuted.
- `SeenEqual`: two heaps that have a set of objects in common, closed under
  "holds", show the same values there. Of two objects seen differently the
  youngest would differ in nothing that its value depends on.
- `TreeFacts`, `OpenHeld`, `ShutKids`: by `Sole` and `Path` an object that is not open
  holds nothing that is open, so a callback that adds to the innermost container
  changes what is seen of open containers only (`TakenSeen`), and of those
  only the last entry (`TakenOutward`, `EntriesKept`).
- `RInv` adds `Formed` to `IInv`: a live map holds pairs and a container has no
  payload of its own. Without it the items of a map are not the pairs that were
  put into it: a kid more or less would move every key to a value's place.
- One lemma per move of the assembly: `TopTakes`, `ArrayTakes`, `MapTakes` for
  `PutLeaf`, `KeyTakes` for `PutKey`, `Begins`, `Ends`, and `RefusedSeen`, `MovedSeen` for
  the callbacks that show nothing. `TreeStep` says which of them a callback makes,
  and `NothingToDelete` that the destructor of the stacks leaves a finished
  value alone, which is `Finish`.

### The parsers

The second part of `CallbackProofs` is about the handlers the four parsers
share, for any set of parser records with a state stack. `InLockStep` allows a parser's frame that
an inner container covers to be one move behind the builder's. It is not kept
within a handler: when a container has ended on one side, the frame on top is
a covered one. `AllCovered` describes that moment, and `Follows` what every
callback, with the parser's own move, does to both stacks: if they were in lock
step and the run goes on they are again.

- Binary: `IInv` adds that the parser is between two values (`RestStates`),
  which its loop's test for the next marker relies on.
- Text: `Counts` relates the count at each depth to the kids of the builder's
  container at that depth; between the builder's insertion and the parser's
  increment it is short by one (`Uncounted`).
- XML: a handler that fails leaves half of its work behind and the parse goes
  on, so lock step is claimed only while `Quiet`: no handler has failed, and
  `llsd` is the root and no other element. The invariant needs `Nested` (what
  is open has been read) to know that an end tag below the root is not one of
  `llsd`.

### The serializers

The theorems are stated for any set N of values that contains the kids of its
members (`IsClosed`) and the documents; `MCSerializer` asserts that of its own,
and every set of finite values is contained in one. A serializer's stacks are
moved by callbacks that do not see the recursion of `llsd_serialize`. The
invariant says that

- every call below the innermost either has failed or waits at the step that
  calls `llsd_serialize` for a kid (`InProgress`);
- something has failed exactly when some open call has (`AnyFailed`), which is
  what keeps the failure of an inner call from being lost: the call that made
  it fails, in its second attempt or behind it;
- until then the stacks have a frame for each call whose container has begun,
  counting its entries (`Mirror`);
- afterwards too, indentation is at least the number of calls that still have
  to end their container (`Indents`), so that it does not fall below zero while
  second attempts pop what they did not push.

`AttemptsAlwaysHaveCauses` rests on `Calm`: a run that no fault strikes does not fail,
whatever state it starts in, carried through every macro and callback
(`CallbackFacts`, `BinaryWrites`). So each call that fails on its own uses up a
fault, and one that fails because of its kid takes the place of the kid, whose
attempt is over (`AttemptsFacts`, `AttemptsStep`). With it a C stack with room for
the value and the failures is never full; that the walk ends is left to TLC.

`StepFacts` and `EntriesFacts` turn the position in a call into the number of
entries written (three steps per kid); `AdvanceFacts`, `FailFacts`,
`DescendFacts` and `PopCallFacts` are the four things that can happen to the
stack of calls.

### The value functions

The functions of `llsd.c` keep no stack of their own; what they rely on is a
property of the whole heap that no function looks at, and that a program can
break by any order of calls. The inductive invariant is about heaps as such:

- `Ranked`: no value is below itself. An array that a program appends to
  another one must not be above it, and an age order as in the builder's heap
  would not do, because a value may be taken out and put into a younger or an
  older one. So the invariant only says that *some* ranking exists:
  `RankedAttach` moves the container and all that is above it past all ranks
  there were. The recursive definitions of `Below`, `llsd_equal` and `Shape`
  stand on it: `BelowEquation`, `EqualEquation` and `ShapeEquation` show that
  they satisfy their equations, by the least number of ranks for which
  there were no such function.
- `HeldOnce`: nothing has been released twice, and a value in use is held at
  one place at most, by a container in use. It makes the values below an owned
  one a set that nothing outside refers to (`BelowLive`), so that
  `llsd_delete` leaves no dangling pointer (`SoundDelete`), and key and value
  of a pair trees with nothing in common (`PairTrees`), so that
  `llsd_map_remove` releases nothing twice, the map's own key that it may have
  been given included (`SoundMapRemove`).
- `NoKeyTwice`: `llsd_equal` of maps looks up the left one's keys only. That
  this suffices is a count: two maps of one size, with as many keys as pairs,
  and all the left one's keys in the right one (`PairSets`).
- `Contents`: a container carries nothing, so that equality of shapes is not
  more than `llsd_equal` compares, and a boolean is TRUE or FALSE.
- `Calls` and `Remembered`: each result points to the storage that its kind and
  function determine, and this storage holds what was converted until a call
  overwrites it; `MadeOf` says the same of strings and binaries made of a
  result at the time they were made. `Stores` is what a conversion has to do
  to static storage for that: put its own result there and leave alone what it
  does not overwrite.

`EqualShapes` is an induction over ranks in the form the prover can follow: of the
values that `llsd_equal` compares wrongly one has the lowest rank, but it
compares what that one holds right (`EqualArrays`, `EqualMaps`, `EqualLeaves`).


### The codecs

For every non-empty sequence of bytes and with no assumption. `Base16ComesBack`
goes over the digits (`HexDigit`, `HalfBytes`, `Base16Text`). For
`QuartetComesBack`, `Sextet` says that no character for six bits is the padding
and `SixBits` that shifting and masking lose nothing. `Base64LengthComesBack`
needs the padding of the last group only (`QuartetPadding`, `LastGroup`).

`QuintetComesBack` is about numbers. The digits, by division in 16 bit halves,
have the value of the group (`Division`, `DigitsSum`). The decoder takes the
digits that a short group does not write for 84, so its sum is greater than the
group's value, by less than the bytes left out are worth (`FilledUp`): it fits a
uint32, so that the sum in halves is the sum (`QuintetValue`), and has the
group's bytes at the top (`SameBytes`). The groups with a short form are excluded:
they are a single character, and a short group of zeros grows to four.

### Only model-checked

- `AcceptsTheGrammar`, `ReturnsTheTree`, `UnwarnedIsDocument`,
  `RoundTripPreserves`: the grammars and trees are recursive definitions over
  data, whose values for all inputs the prover can not establish by induction.
- `Payloads` and, of `Codecs`, whole texts of base64 and base85: the readers go
  through their input by recursion.
- `Terminates` is a liveness property and `StopsOnlyAtDeadEnds` speaks of
  completions of a document; neither is in the prover's reach.

## 6. What is not modelled, and why

- The spelling of integers, reals, booleans and uuids in text, which `sscanf`
  and `printf` handle: that it succeeds, or that there is no token, is an outcome
  in the parsers' models. Where a token ends is left out with it: the notation's
  reader of booleans, for one, takes the character behind `t` or `f` out of the
  file, and two or three more if it is a letter, without comparing any of them
  (`llsd_notation_parser.c:259-273`), so that a bracket right behind a `t` is lost.
  The serializer writes booleans in a way this reader takes back. Reals are written with
  `%F`, which keeps six decimals; the library promises no more.
- Malformed dates, and which strings JSON takes for a date or a uuid, at the
  level of characters; `RoundTrip` has them as kinds of tokens.
- Payload lengths in binary, with their 32 bit arithmetic.
- Conversions of reals and dates (`llsd_as_double`, `llsd_as_date`), the uuid's
  case of `llsd_as_binary`, which takes the uuid's bytes for a pointer, and
  binaries shorter than a number as numbers.
- The iterators, but for their use in `llsd_equal` and `llsd_serialize`: they
  forward to those of cutil.
- Threads: the library starts none. Its static variables (`map_value`, the XML
  read buffer, the buffers of `llsd_as_string`) make it unfit for two threads at once.
- `string_from_buf` and `decode_xml_escape` in the XML parser, which nothing
  calls.
- cutil and expat are external; the wrappers in other languages are generated
  or forward to the C API.

## 7. Plan

Done, in this order: builder and its proofs; text, binary and XML parsers with
their grammars; serializers; round trips; codecs and their proofs; payloads;
the value functions; the builder as an implementation of `TreeAssembly`; proofs
that the tree is one and is released once, of the parsers' lock step and counts,
of the serializers, of the value functions, and of the groups of base64 and
base85; the refinement of `TreeAssembly` as a theorem. Next: numbers of the value
API, with their byte order and widths.
