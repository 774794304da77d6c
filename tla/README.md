# Verification of UltraJSON (ujson)

UltraJSON is a C extension for CPython: `ujson.loads`/`load` build Python
objects from JSON text and `ujson.dumps`/`dump` write JSON text for Python
objects. This directory holds TLA+ modules of its own logic, TLC
configurations that check them on small instances, and TLAPS proofs.
Line numbers refer to the files under `src/`.

## The system

| Part | Code | State | Operations | Talks to |
|---|---|---|---|---|
| JSON parser | `lib/ultrajsondec.c` 56-77, 311-331, 589-834 | `DecoderState`: `start`, `objDepth`, `lastType`; the C call stack (`newObj`, `itemName`, `len` per level); `errorStr` | `decode_any`, `decode_array`, `decode_object`, `JSON_DecodeObject` | scalar decoders; object callbacks |
| Number decoder | `ultrajsondec.c` 79-247 | local `intValue`, `hasError`, sign, scan offset | `decode_numeric`, `decodeDouble` | `newInteger`, `newLong`, `newUnsignedLong`, `newIntegerFromString`; double-conversion |
| String decoder | `ultrajsondec.c` 333-587 | escape buffer (`escStart`, `escEnd`, `escHeap`, kept between strings), pending high surrogate | `decode_string` | `newString`, allocator callbacks |
| Literal decoders | `ultrajsondec.c` 249-309 | none | `decode_true`, `decode_false`, `decode_null` | object callbacks |
| Decoder binding | `python/JSONtoObj.c` | references to Python objects, the pending exception | `JSONToObj`, `JSONFileToObj`, the `Object_*` callbacks | CPython |
| Encoder core | `lib/ultrajsonenc.c` 75-188, 541-654, 658-994 | output buffer (`start`, `offset`, `end`, `heap`), `level`, `errorMsg` | `encode`, `JSON_EncodeObject`, `Buffer_*`, `Buffer_Append*` | type-context callbacks, iterators |
| String escaping | `ultrajsonenc.c` 190-538 | read and write positions | `Buffer_EscapeStringUnvalidated`, `Buffer_EscapeStringValidated` | output buffer |
| Encoder binding | `python/objToJSON.c` 49-793 | `TypeContext`: `newObj`, `dictObj`, `itemName`, `itemValue`, `iterator`, `index`, `size`; the pending exception | `Object_beginTypeContext`, `Object_endTypeContext`, the iterators, the getters | CPython, user code (`default`, `toDict`, `__json__`, `__str__`, `__repr__`) |
| Encoder entry points | `objToJSON.c` 795-1074 | options, references of one call | `objToJSON`, `objToJSONFile` | encoder core, CPython, a file object |
| Module object | `python/ujson.c` | per interpreter `modulestate`: `type_decimal`; one global `JSONDecodeError` for the process | `PyInit_ujson`, `module_clear`, `object_is_decimal_type` | CPython |
| double-conversion glue | `lib/dconv_wrapper.cc` | converter objects | `dconv_s2d*`, `dconv_d2s*` | vendored `deps/double-conversion` |

How a call runs. Everything is synchronous on the calling thread, which holds
the GIL. `loads` encodes its argument to bytes, and the parser descends over
the NUL-terminated buffer; each value is made by a callback that returns a new
reference, and the parser must add it to a container, release it, or return
it. `dumps` fills a table of callbacks and calls `encode`, which recurses over
the object; for each value the binding's `beginTypeContext` picks a type,
possibly after running user code, and leaves references in the type context
that `endTypeContext` must drop. Errors travel by two unrelated routes, an
error string in the coder (`errorStr`, `errorMsg`) and CPython's pending
exception; the entry points reconcile them.

The hard behaviour is therefore not concurrency but
* ownership on every error path, through two languages' conventions;
* two error channels that can disagree;
* user code re-entered in the middle of iteration and able to change the
  container or leave an exception pending;
* an output buffer whose space is reserved far from where it is used;
* boundaries: nesting depth, 64-bit overflow, buffer growth, truncated UTF-8;
* state kept longer than intended (`lastType`, the escape buffer, `newObj`).

The list with lines is `hazards` in `PROJECT.json`.


### What makes each part correct

* Parser: accepts exactly JSON up to the depth limit; owns and gives up every
  object once; stops at the terminator; reports the first error; `NULL` always
  has a reason; a member name is a string.
* Number decoder: the integer delivered is the integer written, whatever wraps.
* String decoder: never writes beyond the escape buffer; combines exactly the
  adjacent surrogate pairs; decodes UTF-8 to what it stands for and rejects what is
  cut off, overlong or too large.
* Encoder core: never writes beyond the buffer; output is JSON; `level` is the
  depth; an error stops everything; every type context is ended.
* String escaping: reads only the string; writes at most six bytes per byte.
* Encoder binding: references balanced through `default`, `toDict` and sorted
  iteration; an exception that `encode` is told of reaches the caller.
* Entry points: `NULL` exactly with an exception; nothing of a call survives it
  but what it returns; what is used is held as long as it is used.
* Module object: the class that is raised is alive; a `Decimal` is recognised
  in the interpreter it belongs to.
* Both directions together: `loads` reads what `dumps` wrote, containers and
  strings, and keeps nothing of it but the value it returns.

## Modules

| Module | Models | Builds on |
|---|---|---|
| `JsonGrammar` | reference: the context-free grammar of JSON over lexemes | |
| `JsonSyntax` | the same language as a pushdown automaton: its configurations and which lexeme may follow in each | |
| `JsonText` | abstract: a JSON text in the making, lexeme by lexeme | `JsonSyntax` |
| `Decoder` | parser and object callbacks | `JsonGrammar`; implements `JsonText` |
| `MCDecoder` | instances of `Decoder` | `Decoder` |
| `DecodeNumeric`, `MCDecodeNumeric` | `decode_numeric` and the literal decoders; 4-bit and 8-bit integers | |
| `Unicode` | UTF-8 and UTF-16 by their definitions | |
| `DecodeString` | `decode_string` for the strings of one text | `Unicode` |
| `EscapeString` | both escaping loops | `Unicode` |
| `StringRoundTrip`, `MCStringRoundTrip` | strings through `EscapeString` and back through `DecodeString`; instances | both |
| `EncodeBuffer` | the output buffer: operators on a record | |
| `CallbackContract` | what `encode` may be told by the callbacks | |
| `Callbacks` | abstract: one type context as `encode` sees it | `CallbackContract` |
| `TypeContext` | detailed: the callbacks for one value, with references and user code | `CallbackContract`; implements `Callbacks` |
| `Encoder` | `encode`, `JSON_EncodeObject`, the end of `objToJSON` | `EncodeBuffer`, `CallbackContract`, `JsonGrammar`; implements `JsonText` |
| `RoundTrip` | `loads(dumps(obj))` | `Encoder`, `Decoder` |
| `EntryPoints` | one call of `dumps`, `dump`, `loads` or `load` | |
| `ModuleState` | import, clear and use of the module by several interpreters | |
| `JsonSyntaxProofs` | theorems: automaton and grammar have the same texts | `JsonSyntax`, `JsonGrammar` |
| `DecodeNumericProofs`, `DecodeStringProofs`, `TypeContextProofs` | theorems | the module of that name |
| `DecoderProofs` | theorems about `Decoder` | `Decoder`, `JsonSyntaxProofs` |
| `EncoderProofs` | theorems about `Encoder` and `RoundTrip` | `RoundTrip`, `JsonSyntaxProofs` |
| `ModuleProofs` | theorems about `EntryPoints` and `ModuleState` | both |
| `StringRoundTripProofs` | theorems about `EscapeString` and `StringRoundTrip` | `StringRoundTrip`, `DecodeStringProofs` |

Operators commented `variant:` are plausible mistakes, each beside the
definition it varies. Nothing of the model uses them; they record which
mistake each property would notice.

### Decoder

`stack` is the C stack: a frame per activation of `decode_array` or
`decode_object`, holding its `newObj`, its `itemName` while the value is read,
and `len`. `pc` is the place reached (`decode_any`, before a member, after the
name, after a member, a `return` under way, the trailing check). `start`,
`lastType`, `objDepth` and `errorStr` are the fields of the same name;
`lastType` is not initialised by `JSON_DecodeObject`, so `Init` leaves it open.
`pyErr` is CPython's pending exception. `made`, `owned` and `fault` account for
references: a callback makes one, `Drop` gives it up, and giving up one that is
not owned sets `fault`.

The input is a sequence of lexemes. A scalar is one lexeme, in five kinds:
string, number or literal, malformed, one whose callback raises, and a number
of which double-conversion consumes nothing. Two facts of the code are
deliberately inside "number or literal": `decode_numeric` accepts a lone `-`
and leading zeros. The byte at `start` is chosen when it is first read
(`Peek`), so one behaviour covers every text with the same beginning; a
non-empty `Known` fixes whole documents instead.

Actions follow the code between two reads: `Enter`/`TooDeep` (lines 589-603,
653-669), `CloseAtMember`/`BeginMember` (605-622, 673-689), `GotName` (691-702),
`Colon` (704-715), `ArrayAddItem`/`ObjectAddKey` with the callback,
`Delimiter` (634-649, 728-743), `Unwind` (624-628, 717-722), and
`Epilogue`/`Trailing` for lines 812-833. `Outcome` is what `JSONToObj` makes of
the result.

### JsonGrammar, JsonSyntax and JsonText

What JSON is is said twice, without the decoder's or the encoder's control.
`JsonGrammar` is the definition: the productions of the grammar over spans of
a text, with its nesting; the derivation is a recursive function on the spans of
the one text in question. `DecodesJson` and `EncodesJson` compare
the code with it. `JsonSyntax` is made for steps: the containers that are
open, the place reached in the innermost, and which lexeme may follow there
(white space where `Blank` has it); a `Run` of it is a whole text. The two are proved equal, for all
texts and depths. `JsonText` is `JsonSyntax` as a state machine. `ReadsJson` and `WritesJson` say that `Decoder` and
`Encoder` implement it; `Place` in each maps the C stack and the program
counter to such a configuration.

For the decoder, `text` is what lies before `start`. It is given up in three
cases besides an error string: a callback has raised; a container stands where a name is
due (`Misnamed`: the code reads on, which run `decoder_key` shows, until
`PyDict_SetItem` raises); or the next thing is a number of which
double-conversion consumes nothing (`Stuck`, lines 79-90: a value is made and
`start` does not move, so that the number is found again where a delimiter is due).
For the encoder, `text` is `out`, and given up when `errorMsg` is set, because
`encode` then only unwinds.

### DecodeNumeric

`intNeg`, `intValue`, `hasError` and `offset` are the locals; one `Digit` step is one
turn of the scan, in arithmetic modulo `2 * HalfLong`; `magnitude` remembers
what has been read. `HalfInt` and `HalfLong` stand for 2^31 and 2^63. Each end
of the scan is an action (`Double`, `BigInteger`, `Integer`), and `Make` selects
the callback and converts the argument as C does.

### DecodeString and EscapeString

Both work on real bytes, one step per turn of the C loop.

In `DecodeString` `start` and `offset` are `ds->start` and `inputOffset` as
indices, `esc` what lies between `escStart` and `escOffset`, `escLen`,
`escHeap` and `blocks` the escape buffer, which is kept from string to string,
`lastHigh` the place that `lastHighSurrogate` points to. `Open*` are lines
373-414, the other actions the cases of the switch. `reach` remembers the last
byte read. What follows a string in the text is reduced to a comma and the next
string (`NextString`).

In `EscapeString` `io` and `of` are the read and write positions and `out` the
items written: the byte, a backslash and a letter, or `\uXXXX`. `pc =
"outside"` records that the loop has passed `end`; the code goes on there with
memory that is not the string's, the model stops. `EscapeUnvalidated` is
`Buffer_EscapeStringUnvalidated`, the other steps are the validated loop, whose
cases come from `g_asciiOutputTable` (`Utflen`).

`StringRoundTrip` runs the first, puts quotes around the bytes it has written
and hands them to the second. Its other initial states give `DecodeString` texts that
no encoder writes.

What strings say is defined without the tables and the arithmetic of the code.
`Unicode` has UTF-8 and UTF-16 as functions from code points to bytes and units. A
string for `EscapeString` comes with what it is said to be (`wellFormed` with its
code points `says`, `overlong`, `truncated`), and `Meaning` ties that to the
bytes. A text for `DecodeString` comes with `readings`, one per string: the
places at which its pieces begin, what each stands for, and all that has been
said so far, where two adjacent escaped surrogates make one code point. `Piece` says
which bytes stand for what. `decode_string` takes more than JSON strings in UTF-8, and `Lax`
says what: control characters; octets 128 to 191 without a lead, which stand for themselves
(the lookup table, 352-355, has them as characters of one byte); and after a lead any octet from 128, of which
the top bit is tested and the low six are used (529, 549, 572), which `Masked` puts
as a continuation octet. `Malformed` is therefore not all that is no UTF-8, but what
no string may go on with: the end of the text, a lead of
more than four octets, an escape that is none, and a sequence with an octet below
128 in it or, `Masked`, overlong or too large. Again `Meaning` ties the readings to the bytes. The modules assume `Meaning` of their
texts by name, and TLC evaluates it for every text of the instance.

### EncodeBuffer and Encoder

A buffer is a record: where `enc->start` points (the caller's array, a heap
block, `NULL` after a failed allocation), its size and offset, and how many
heap blocks are allocated. `Reserve` returns the set of possible outcomes of
`Buffer_Reserve`; the comparison is that of `size_t`, where a negative number
of bytes is larger than any positive one. After a failed `realloc` the block
is still counted: the code has lost its only pointer.

`frames` is the C stack of `encode`, one frame per container being iterated;
`level` is a separate variable because the code changes it separately.
What is encoded is chosen as it is asked for, from the sets of
`CallbackContract`; lengths come from small sets. `out` is the sequence of
lexemes appended. `raised` remembers which exceptions were raised: those
`encode` was told of, by an `INVALID` type, by `getStringValue` or by
`NULL` for a text or a block (`"told"`), and those it was not (`"untold"`). The latter are of
three kinds: of `iterNext` (`IterFails`); of the conversion of a float or `Decimal`, where
`Object_getDoubleValue` ignores that `PyFloat_AsDouble` may raise
(`objToJSON.c:117`) and -1.0 is written (`DoubleFails`); and of the
truth value of an option, pending when the call of `JSON_EncodeObject` begins
(`objToJSON.c:857`; `OptionFails`, in `Init`).

### CallbackContract, Callbacks and TypeContext

`encode` calls back `beginTypeContext`, `iterNext`, `getStringValue` and so on,
and these run user code. `CallbackContract` says what it may be told: a
type, an item or `NULL`, the end of an iteration, an error, and what has become
of the pending exception, which the getter of a double may leave as well (`DoubleErrors`).
`Encoder` takes its inputs from it. `Callbacks`
is the same as a state machine of one type context, and `TypeContext` the code
of `objToJSON.c` in detail: `kind` is the type of the object at hand, `slots`
the fields of the struct that own references (`newObj`, `dictObj`, `itemName`,
`iterator`, `rawJSONValue`) and the local `items`, `owned` the references made and not given
up. `CallDefault` is the jump back to `BEGIN`; `Keys`, `Packed`, `SortedNext`
are the sorted iteration; `ItemEncoded` stands for the recursive `encode`,
during which user code may change a list or dict. `KeepsContract` says that
`TypeContext` implements `Callbacks` under the mapping `Phase`: so `Encoder`
is checked against exactly what the binding does. The mapping of `err` needs
care: while `beginTypeContext` runs, the abstract exception is still the one at
its call (`err0`).

### RoundTrip, EntryPoints, ModuleState

`RoundTrip` composes `Encoder` and `Decoder` on one thread: what `dumps` has
appended becomes the input of `loads`. `ReadInFull` compares the result with the
text as a whole: `DepthAt` counts the brackets before a place, `Deeper` asks
whether the decoder's limit is exceeded anywhere, and otherwise `made` is to be the number
of containers, names and scalars. `EntryPoints` has the four functions
around them; the encoder and the decoder are one step each (`Encode`,
`Decode`), with the outcomes that the two modules give them, and `owned` has
every reference and block of a call. `ModuleState` has a module per
interpreter and the one variable `JSONDecodeError` they share.

## Runs

| Run | Question | Instance |
|---|---|---|
| `decoder` | ownership, depth, first error, termination; exactly the JSON documents are accepted (`DecodesJson`, by the grammar), read as `JsonText` writes them (`ReadsJson`) | every text of up to 8 lexemes, and all documents of depth 2 over two scalars with up to 2 members, some of depth 3, white space at every place; depth limit 2 |
| `numeric` | overflow detection, exact integers | 5 digits, or 4 and a sign, 4-bit `JSINT32`, 8-bit `JSINT64` |
| `strings` | buffers, escaping, decoding of what `Piece` admits, rejection of what is `Malformed`, read back unchanged | up to three code points from the ends of all ranges, cut off, overlong and stray bytes, all options; texts of up to 4 pieces and two strings, cut off and damaged anywhere, stray octets, control characters and leads in place of continuation octets; 4 code points on the stack, allocation may fail |
| `encoder` | buffer, level, leaks, stopping at errors, `NULL` agrees with exceptions, termination | depth limit 1, 134-byte buffer, indentation 2, everything may fail at any call, conversions to double and options too, lengths 0 and 1, scalars of 1 and 128 bytes, up to 2 items |
| `round_trip` | each lexeme is appended as `JsonText` allows (`WritesJson`), what is returned is JSON (`EncodesJson`), exceptions that `encode` is told of surface whatever else is pending (`ToldSurface`), `loads` refuses exactly what is too deep for it and loses nothing of the rest (`ReadInFull`) | `RecursionMax` 1, `MaxDepth` 1, up to 2 items, allocation, `getStringValue`, conversions to double and options may fail |
| `typecontext` | references, complete iteration, the contract, termination | every kind of object, floats and Decimals that do not convert among them, result of `default` and key; up to 2 items, a container may grow and shrink between them |
| `entry_points` | `NULL` agrees with exceptions, nothing left, nothing used after release | all four functions, every step failing where it can |
| `module_state` | the class is alive exactly when no import has failed since the last that did not, Decimals are recognised | three interpreters, one without `decimal`, imports may fail |
| `decoder_key` | *violated:* a member name is a string | up to 7 lexemes |
| `encoder_swallow` | *violated:* an exception raised by a callback surfaces, where iterators fail | no `default` |
| `typecontext_sortdefault` | *violated:* an unchanged container is delivered completely, dicts from `default` included | `sort_keys` and `default` |
| `escape_string_cut` | *violated:* a sequence cut off by the end of a string is reported | sequences that lack one byte |

The four violated properties are statements of the repository's comments,
messages and tests that the code does not keep; `findings` in `PROJECT.json`
quotes them. In short: `{["a"]: 1}` as JSON text passes the member-name test; the
exception of a failing key can be cleared by classifying a later value, so
that `dumps` returns a broken text; with `sort_keys` a dict that came from
`default` is written as `{}`; and a UTF-8 sequence that lacks one byte is
completed with the terminator and the loop goes on behind the string.

### Deviations that the properties leave room for

These are in the models and, where a property could not hold because of
them, are named in its definition or in a constant of the run:

* After a failed reservation some appends of `encode` are not prevented
  (`ultrajsonenc.c:680`); `AppendsFit` speaks of the time until an
  allocation fails. A negative `indent` reserves too little (740, 785).
* An error of `iterNext` is not an error for `encode` (787), though the header
  asks for it (`ultrajson.h:321`). Nor is a float or `Decimal` that does not convert
  (`objToJSON.c:117`: -1.0 is written), nor an option whose truth value raises (857). Their exception
  is pending until `objToJSON` looks (980), unless the look-up of `toDict` or
  `__json__` for a later value clears it (615). `ExceptionsSurface` is without this and fails in
  `encoder_swallow`; `ToldSurface`, which `round_trip` checks, is of the exceptions that `encode` is told of.
* The context of a string that `getStringValue` does not deliver is not ended (884), and the
  block that `realloc` could not enlarge is lost (139): `NothingLeaked` excepts both.
* The `INVALID` exit does not release what `default` returned
  (`objToJSON.c:719`), a `str` from `default` is overwritten by its own bytes
  (160), the text of `None` as a key (272) and the digits of a big integer
  (105) are kept by nothing: `Forgotten` in `TypeContext`. The error exit of
  the sorted iteration releases a borrowed value (406): last conjunct of `Ownership`.
* `dump` does not release the text when `write` raises (1059): `OnlyTextLeft`.
* `decode_string` takes control characters, stray octets 128 to 191 (`ultrajsondec.c:352`) and, after a lead,
  any octet from 128 for a continuation (529, 549, 572): `Lax` in `DecodeString`.
  `RejectsMalformed` is about what is `Malformed`, which is less than all that is not UTF-8.
  With `ensure_ascii` stray octets of `bytes`
  are copied (`ultrajsonenc.c:96`): `Escapes` asks for ASCII only of UTF-8.
* `loads` may return a value with an exception pending when `PyDict_SetItem`
  fails (`JSONtoObj.c:49`): `NullHasException` in `EntryPoints` has its second
  conjunct for `dumps` and `dump` only.
* `JSONDecodeError` is shared by all interpreters (`ujson.c:194`): what is
  raised may be the class of another, and an import that fails in one
  clears it (199) for all, so that until the next import that succeeds the `loads` of modules
  still loaded have no class to raise. `ClassAlive` says when that is so, exactly.
  `EntryPoints` is about a call while there is a class.
* With `sort_keys` a dict that came from `default` is not delivered: run
  `typecontext_sortdefault`. `OthersDelivered` leaves out such dicts and nothing else.

Outside the models: the copy that `Object_newIntegerFromString` leaks
(`JSONtoObj.c:134`), and the name of a `None` key, which is `None` or `null`
depending on `sort_keys` (`objToJSON.c:360`).

### Why the bounds are enough

Depth limit 2 with texts of 8 lexemes contains a container inside a container,
one too deep, every error position of both loops with one and
two members, and a container as a member name. The code treats all levels
alike and keeps no state across levels other than `lastType` and `objDepth`.
The small machine of `numeric` has the divisibility of the real widths and its
texts pass each boundary by at least one digit; the theorems do not depend on it.
The code points of `strings` are the ends of every range that the two tables
and the tests of lengths, surrogates and control characters distinguish, and
two neighbours are enough for every test that looks at more than one; four code
points on the stack make the first string, or only a later one, or none grow the buffer.
In `encoder`, 134 bytes hold the first 128-byte reservation and only a few
bytes more, so that nearly every later reservation grows the buffer in some
behaviour. `Doublings` bounds only how often one reservation doubles the
buffer; with these sizes eight is never reached. `MaxItems` is enough for first,
middle and last item, and the cut-off iteration. With `RecursionMax` 1
there are two levels of container and the exits of each, which is what the level
and context accounting distinguishes; `round_trip` was also explored with
`RecursionMax` 2 and `MaxDepth` 0, 2 and 3. `typecontext` exceeds
`DEFAULT_FN_MAX_DEPTH` and has two keys, enough to be unorderable or for the second to fail.
Three interpreters allow one between the first and the last to end.

The header sets both limits to 1024 (`ultrajson.h:64`, 69), and so they are
equal in `round_trip`. They do not mean the same: `encode` tests its level before a container
is entered, the decoder once it has been, so that the deepest text that
`dumps` writes is one too deep for `loads`. `ReadInFull` has both cases, and the run meets both.

### Fairness

A call runs on one thread, holding the GIL, and nothing in the code waits.
`FairSpec` therefore has weak fairness of the whole step relation: a call that
can take a step eventually takes one. It does not assume that any particular
alternative is ever taken, and user code that never returns is outside the
model. `Terminates` then says that no loop of the C code can go on for ever:
the recursion is cut by the depth limits, `default` by its own, and each
iteration is finite because a list's size is read once and a dict's iterator
ends. `ModuleState` states no fairness: nobody has to import or end.

## Proofs

Each theorem holds for all values of the constants that satisfy the named
assumptions: depth limits, buffer sizes, separators, indentation, integer
widths, texts, lengths, number of items and of interpreters.

* `JsonSyntaxProofs`. `RunDerived` and `DerivedRun`: the automaton of
  `JsonSyntax` and the grammar of `JsonGrammar` have the same texts, of any
  length and depth. `Derives` is a recursive function on spans; that there is one that
  satisfies its rules (`FollowExists`, `DerivesRuled`) is proved by the size of a span, since a
  rule asks about shorter spans only (`RuleLocal`). Soundness has an invariant
  of a run, `Sound`: each open container has a list that is derived up to where it
  stands (`Nested`), and what the place in the innermost promises is derived or
  due (`Reached`, `Due`). Completeness is about a run that goes as far as it can:
  whatever the grammar derives is read in full from a
  place where it is due (`Reads`), or there is a shortest span that is not, and
  its rule gives shorter ones that are (`ReadsRuled`, `DerivedRead`).
* `DecoderProofs`. `TypeCorrect`, `DepthCorrect`, `NullCorrect`,
  `FirstErrorCorrect`, `OwnershipCorrect`, `TerminatorCorrect`, `ReadsCorrect`,
  `DecodesCorrect`, `StepsCorrect`.
  The inductive invariant `IInv` adds to the type invariant and `DepthBounded`
  the control facts `Control`: which locations need a non-empty stack, and what
  `ret` and `errorStr` are at each. `Ownership` alone is not inductive, because
  sets hide that two frames might hold the same reference; `Own` states that
  holders are pairwise distinct and that owned references are exactly the held
  ones. `OwnReturn`, `OwnPop`, `OwnTop` and `OwnPush` are its preservation by
  the four ways a step changes the stack. `TerminatorCorrect` rests on `Inside`:
  the position is on a byte of the text, and behind the terminator only after an
  error. `ReadsCorrect` is the refinement of `JsonText`: `KindsFit` says that
  each frame holds a container of its own kind, `RefusedStays` that a text once
  given up is never returned, and `StepReads` that each step is a step of
  `JsonText` or leaves it alone. `DecodesCorrect` says that the grammar derives the
  texts that are accepted and no others, by the invariant `Led`: a run of `JsonSyntax` leads
  over what has been read to where the parser is or, when the text is given up,
  the run stops at a lexeme that may not follow and does not end it (`Dead`). The
  first half needs that each step reads what may follow (`StepMoves`), the second that
  wherever the parser gives up, nothing may follow (`StepBars`), which in turn
  needs that a scalar or container is only begun where the closing bracket has
  been looked for (`Begun`). The theorems of `JsonSyntaxProofs` turn runs into derivations.
  `StepsCorrect`: `Fuel`, four for each lexeme ahead, one for each activation and
  what is left of the way to the next of them (`Rank`), is a natural number that every step
  makes smaller; `Limit` says where the terminator is at the latest.
* `DecodeNumericProofs`. `TypeCorrect`, `OverflowCorrect`, `ExactCorrect`, assuming that
  one width divides the other. The invariant says that until the first overflow
  the accumulator is the number, so that neither bounds test has itself wrapped,
  and that afterwards the number only grows.
* `DecodeStringProofs`. `TypeCorrect`, `InsideCorrect`, `FreedCorrect`, assuming
  `Constants`: a text is bytes that end in a NUL. `StaysInside` is not
  inductive: `Reading` adds that a string has written at most one code point per
  byte it has passed and that the rest of the text was reserved for, and
  `Surrogates` that where `lastHighSurrogate` is the place reached, the slot to
  be overwritten holds a high surrogate. Every case reads ahead only over bytes
  that are not zero, hence (`Bytes`) before the NUL. `DecodesCorrect`, assuming
  `Meaning` of the texts as well: exactly the well-formed texts are decoded, to
  what they say, those that come to something `Malformed` are refused, and what `Lax` admits is
  among the well-formed. Its invariant puts the loop at a place of the readings
  (`Standing`: the place, the code points said so far and the pending surrogate
  agree) or, when the text is malformed, behind a code point that is none, which
  `newString` will not take (`Lost`). `Following` is the same for the strings of
  a text in turn. Under it lie lemmas, one for each case of the switch, that the
  arithmetic of the code computes what `Unicode` defines; `MaskedIs` and `LaxStep` are
  about octets that are not continuations, of which the code uses the low six bits (`Taken`).
* `StringRoundTripProofs`. About `EscapeString`: `TypeCorrect`,
  `ReserveCorrect`, `EscapesCorrect`, `Utf8Correct`, `OverlongCorrect`. `Paid`
  says that six bytes per byte consumed pay for what is written. It survives the
  off-by-one of line 354: the sequence completed by the terminator has one byte
  less to pay with, and six bytes for two, six for three and twelve for four
  bytes still fit. For UTF-8 the read position is always between two code points
  (`Aligned`); for a string that is overlong somewhere it never passes that
  place, since all before it is whole sequences that no test refuses
  (`Sequencer`, `Stopped`). About both directions: `InsideCorrect`,
  `FreedCorrect`, `DecodesCorrect` and `RejectsCorrect` carry the theorems of
  `DecodeStringProofs` over, since a behaviour of the composition is first one
  of the escaping loop and then one of the decoder on a text (`Halves`,
  `AsSaid`). `ReadsBackCorrect`: for every string of code points what is written
  decodes to the same string. `Written` says that what the escaping loop has
  written so far has a reading that says the code points it has passed
  (`Progress`), in UTF-16: a code point written as two escapes is read as one,
  and so are two surrogates that were separate. `ReadingBack` says that the
  decoder is where such a reading is. Facts about all prefixes of a string are
  proved from the least prefix that would violate them.
* `EncoderProofs`. About `Encoder`: `TypeCorrect`, `LevelCorrect`,
  `NullCorrect`, `LeakCorrect`, `SurfaceCorrect`, `StopCorrect` and `StepsCorrect` without further assumption;
  `AppendsCorrect` where the indentation is not negative;
  `WritesCorrect` and `EncodesCorrect` where iterators do not fail. `IInv` is the conjunction of
  `Control`, `Balance` (a type context per frame and one for the value at hand,
  those abandoned apart), `Depths`, `Holding` (until an allocation fails, the
  block in use is allocated and is the only one) and `Fitting` (at the switch
  the 128 bytes are still free: the strengthening that makes the buffer bound
  inductive). `Reason` and `Stopping` are the separate invariants behind
  `NullCorrect` and `StopCorrect`, `Surfacing` is that of `SurfaceCorrect`: an
  exception that `encode` was told of has been noted as an error, which will make `objToJSON`
  return `NULL`, or is on its way there as an `INVALID` type or an item that is `NULL`. `WritesCorrect` is the refinement of
  `JsonText`; it needs `Naming`, when the value at hand has a name. `EncodesCorrect`, that
  the grammar derives what `dumps` returns, follows with `RunDerived`, because what has been
  written is the text of a run (`Traced`). For
  `StepsCorrect`, `Effort[d]` bounds the steps for a value that may contain `d` levels of
  containers, and `Ahead` adds it up for the items that each open container may
  still give; that an item leaves the sum of the outer containers alone is
  `AheadPush`. Both are recursive functions, which exist and are unique by
  `Recursion` and `RecursionOnce`. About
  `RoundTrip`, again where iterators do not fail: `ReadsInFull`, for all limits,
  and its corollary `LoadsCorrect` where the decoder's limit is beyond the encoder's. What `dumps` returns is the
  text of a run of `JsonText` (`Traced`), and that run is the witness: the stack
  and the place of the decoder are at every moment those of the run at the same
  position (`Reading`), it has made an object for each value so far (`Counted`),
  and it is refused where the run first is deeper than its limit (`Measured`).
* `ModuleProofs`. About `EntryPoints`: `TypeCorrect`, `NullCorrect`, `LeftCorrect`,
  `UsesCorrect`. `IInv` says at each place which way the call goes
  (`Direction`), what may be held (`Held`), what is in use (`Used`) and whether
  an exception may be pending (`Reason`). About `ModuleState`: `StateTypeCorrect`,
  `ClassCorrect`, `DecimalCorrect`, for any set of interpreters. `Counted` has
  the references to each class and `Defined` ties the shared variable to a
  module that has been loaded, or to an import that failed last (`importFailed`).
* `TypeContextProofs`. `ContractCorrect`: `TypeContext` implements `Callbacks`,
  for all objects, keys and settings, provided that `IterFails` and `DoubleFails` hold (the
  contract then admits iterators and conversions to double that fail). `Control` says that at `BEGIN`
  either nothing has changed since the call or `default` has left nothing
  pending, and which types are possible at each place; each action is then an
  action of `Callbacks` or leaves what `encode` sees alone. `OwnershipCorrect`:
  `Ownership` sees only the set of references held, so its inductive
  strengthening `Own` adds that each field holds references of its own kind
  (`Filed`, hence no reference is in two fields), that a field holds only what
  is owned (`Backed`), that what is owned is in a field or forgotten (`Kept`),
  and which fields are in use at each place (`Used`). Most actions are
  instances of one lemma, `Transfer`, on a step that refills some fields.
  `DeliveredCorrect`: `OthersDelivered`, by `Listed`, where the iteration has
  come to at each place. `StepsCorrect`: two steps for each item that may still
  come and at most ten more, from `Bounded`: each iteration counts up to a
  number that was read when it began, or to the number of keys there are.

Every invariant and every action property that a run is expected to keep is proved.
Of `Terminates` the safety half is proved: the theorems `StepsCorrect` bound the
number of steps that are taken, for all values of the constants. That a step can be
taken until the call has returned, and is then taken (`ENABLED`, and liveness
under fairness), is not within the prover's reach and only model-checked. The theorems of the library that take an operator as a parameter
cannot be used; where a proof is by induction it takes the least counterexample,
which exists because the order of the natural numbers is well founded.

## What is left out

* `EncodesJson` and `WritesJson` take the separators to be `,` and `:` and the text of
  `__json__` to be a value; the code copies whatever it is given.
* Objects that the binding borrows are assumed to be kept alive by their
  containers while they are encoded; a dict is not changed while its
  keys are sorted; `PyObject_GetIter` of a dict does not fail.
* The `int` overflow of `indent * (level + 1)`; the exact buffer growth of DEBUG
  builds; the `_buffer == NULL` entry, which the binding never uses;
  text sizes near `SIZE_MAX`.
* Memory exhaustion inside CPython calls, other than where `EntryPoints` and
  `ModuleState` have it, and outside the allocator callbacks.
* The PyPy branches, where the module keeps no state.
* What double-conversion computes: its use is a text of at most 128 bytes, a
  refusal, or a number of characters consumed that may be zero.
* Tests, fuzzing, benchmarks, build files.

## Plan

The components are modelled, every safety property that a run checks is proved, and
termination is proved up to the step from a measure to liveness. Work on
the code starts from `What is left out`: the first candidates are `int` overflow of the
indentation and a dict that user code changes while its keys are sorted.
