# Valen: a verification development

TLA+ models of the Valen compiler and its tools (`src/crates`, Rust), the
TLC runs that check them and the proofs that hold for every size. Names of
actions and operators are those of the code wherever the code has one.

## 1. The system

Valen is a language for the JVM. One library of passes is used by two
programs, the compiler `valenc` and the language server `valen-lsp`; the
formatter `valenfmt` uses lexer and parser only.

```
 text -> lexer -> parser -> AST -> resolve -> HIR -> type check -> coherence -> exhaustiveness
                           |          ^                    |
             valenfmt <----+  prelude -+- class path        +-> lower -> expr -> emit -> .class
```

Everything is one process and one thread: passes call each other as
functions. There are four places where the order of events is not fixed by
the program: the editor and the language server talk over pipes; `valenc`
writes files one by one and may fail or be killed in between; `valenfmt`
replaces source files and may fail, be killed or lose power in between; and the
documents of the language server sit in a hash map, visited in an order of
its own.

| component | state | operations | what makes it correct |
|---|---|---|---|
| lexer (`lexer.rs`) | position in the text | one token at a time | total; what is printed is read back as the same tokens |
| parser (`parser.rs`) | position, the unused half of a `>>`, diagnostics | one function per construct; recovery at the words that begin an item, a member, a statement | it ends; an accepted file nests and is in the tree completely; operators bind as documented; an error in one item leaves the others alone |
| name resolution (`resolve.rs`) | `defs`, scope, `imports`, `current_package`, index of methods and impls | `register_item`, `define_name`, `build_method_index`, `validate_class_hierarchy` | a name means one definition; what is accepted can become classes that link |
| type checker (`ty.rs`) | `TypeEnv.scopes`, return type, `in_loop` | `check_*`, `synth_*`, `bind_pattern`, entry point | scopes are balanced; names of a pattern have the types of what they are bound to |
| coherence (`coherence.rs`) | `seen_pairs`, diagnostics | one step per impl | exactly the impls that break a rule are reported |
| exhaustiveness (`exhaustive.rs`) | map of locals, diagnostics | one step per match | a match that is accepted has an arm for every value, one that is rejected has not |
| class path (`classpath.rs`) | cache of classes read | lookups | a class that is there is found |
| lowering of bodies (`expr.rs`) | `ops`, `locals`, `next_slot`, labels, scope and loop stacks, tables of lambdas | `lower_*` | names keep their meaning; the verifier accepts the code; a match takes its first arm; a call site makes its lambda |
| lowering of declarations (`lower.rs`, `data_class_methods.rs`) | list of classes | one per declaration | every class links, no function is lost, generated members keep the contract of `Object` |
| emission (`emit.rs`) | constant pool, label positions, frames | `emit_body`, `build_stack_frames` | every label is placed, every block has a frame |
| `valenc` (`main.rs`) | exit code, output directory | `compile`, `check` | success is clean and complete, failure leaves the last build alone |
| language server (`server.rs`) | `documents`, `file_ids`, `last_semantic_diags` | one handler per message | analysis and display are those of the present texts |
| position conversion (`convert.rs`) | none | offsets to UTF-16 positions and back | inverse of each other on character boundaries |
| formatter (`valenfmt`) | the input it is at, a temporary file, `needs_formatting` | `format_source`, `atomic_write`, `--check` | the program stays the same; a second run changes nothing; no file is ever torn |

Hard to test, and the reason for the models: an edit of one file changes the
errors of others; messages cross on the pipes; a build or a replacement is cut short between two
calls; a frame at a join must agree with every path into it; a scope's undo log
is read in the wrong order; an early `continue` exempts an impl from a rule; three
readers of a pattern (checker, exhaustiveness, lowering) must mean the same; half a
`>>` is left over by a type that failed; hand-written, generated and derived methods meet in one
class. `PROJECT.json` lists each of them at its line ("hazards").

## 2. Modules

| module | models | checked by | proofs |
|---|---|---|---|
| `LspServer` | `server.rs` and the editor at the other end of the pipes | `MCLspServer`: `LspServer`, `LspLive` | `LspServer_proof` |
| `Valenc` | `valenc/src/main.rs`, and the pass order of `run_pipeline_with_classpath` | `MCValenc`: `Valenc` | `Valenc_proof` |
| `Coherence` | `coherence.rs` over the impls `resolve.rs` registers | `MCCoherence`: `Coherence` | `Coherence_proof` |
| `Lowering` | the control flow of `expr.rs`, the frames of `emit.rs`, `TypeEnv`, and the verifier of the JVM | `MCLowering`: `Lowering`, `LowerRange` | `LoweringForms_proof`, `Lowering_proof`, `LoweringBlocks_proof`, `LoweringStacks_proof` |
| `Grammar`, `Parser`, `Precedence`, `ParseFile` | `parser.rs` | `MCParser` over `MCSyntax`, `ParserTexts`: `Parser` | |
| `Printer`, `FormatFiles`, `Valenfmt`, `AtomicFile` | `printer.rs`, `main.rs` of the formatter, the two together, and what the formatter promises of files | `MCValenfmt` over `MCSyntax`, `FormatTexts`: `Valenfmt` | `FormatFiles_proof` |
| `Patterns`, `Exhaustive`, `MatchCode`, `FirstArm`, `Matching` | patterns, `exhaustive.rs`, `bind_pattern` of `ty.rs`, `lower_match` and `lower_pattern_*` of `expr.rs`, and what a match promises | `MCMatching`: `Matching`, `MatchBare` | |
| `Resolver`, `LambdaCode`, `DataMethods`, `Declarations`, `ClassFiles` | `resolve.rs`, the lambdas of `expr.rs`, `data_class_methods.rs`, `lower.rs`, and the linking of classes by the JVM | `MCClassFiles`: `ClassFiles`, `LambdaLinks` | |

Composition: `ParseFile` and `Valenfmt` run one `Parser` over one `Grammar`, and
the formatter's texts are those the parser accepts; `Matching` puts checker,
exhaustiveness pass and lowered code of one match side by side; `ClassFiles` leads
programs from the `Resolver` through coherence and the entry point to
`Declarations` (which uses `LambdaCode` and `DataMethods`) and to the files
`valenc` writes. `Valenfmt` is `FormatFiles` with its parameters replaced by parser and printer.
Refinements: `FormatFiles`, and so `Valenfmt`, implements `AtomicFile`
(`FilesStayWhole`, proved and checked), `Matching` implements `FirstArm` (`TakesTheFirstArm`).

### LspServer

State: the fields of `ServerState`; `order`, the iteration order of the hash
map; the two pipes; the editor's buffers and what it shows; `settled` and `had`
are history. Each handler takes `&mut self` and runs to its end before
async-lsp calls the next, so a handler is one action: `Initialize` (with
`index_workspace`), `DidOpen`, `DidChange`, `Ignored` (saves and changes that
are dropped), `DidClose`, `Definition`. `run_cross_file_analysis` is an
operator: HIR and semantic diagnostics as functions of the documents and of the
order. `User` types, opens, closes, asks for definitions while messages are on
their way; `ClientReceive` shows what arrives.

A text is a member of `Text`; what analysis tells apart are its syntax errors,
its definitions and its uses. Versions go on when a document is opened again, where an editor may
begin anew: the server hands versions back and never compares them. An insertion into the map may give the whole map
a new order, as rehashing does.

### Valenc

State: the program counter over the phases of `compile` and `check`, the
position in the input list and in the class list, printed diagnostics, exit
code, and the output directory as a map from class file to the run that wrote
it. One action per phase and early return; `Kill` at any point; `Edit`
between runs. A class file is written in two steps (`write`, `fill`), so that
a kill leaves it torn. What the passes say of the sources is data of a program, and only
errors are kept: the warnings of the resolver (naming conventions, `resolve.rs:239-276`) and of the
type checker (ranges of floats, `ty.rs:3669`) are printed with them, never end a run (`has_errors()`,
`main.rs:156-157`, `164-165`), and are left out, as are the commands `emit-annotations` (one class file that
depends on no source, `main.rs:308-317`) and `version`. `SuccessIsClean` speaks of errors.

### Coherence

State: the loop of `CoherenceChecker::run`. `Skip`, `Blanket` and `Examine` are
the three ways through its body. `Lower` is what `lower_type_ref_with_params`
makes of a type, which matters: the rules are asked of the lowered type.
The properties do not mention lowering: `BreaksImplRule` and
`BreaksMethodRule` define the rules on the source, and
`ImplRulesExact`, `MethodRulesExact` say that the pass reports these and no
others. `MethodRulesExact` is about impls that are `Hygienic`: the name of the trait means
the trait (it is no primitive type and no parameter of the impl), no parameter is called
`Self`, a method's own type parameter is none of the trait or the impl, and no type of a signature is
one parameter standing for another (`ProperTypes`). Without these the code substitutes or compares
a name for another (section 5).

### Lowering

The body is made up on the way: when the lowering of an expression comes to
its turn, any form of the right type is chosen. `todo` is the rest of the
lowering: `lower_x` puts the sequence of its calls and instructions there, and
each takes its turn (`push_scope`, `Store`, `PlaceLabel`, ...). Side by side
run the scopes of the type checker (`env`), and the verifier: `flow` is its
state at the end of the code, `frames` what the labels declare, `arrivals` the
states of the jumps to them. Types are those the verifier tells apart: `Int`
(one slot), `Long` (two), `Ref`.

Much of what the type checker accepts is rejected by the verifier. `Avoid`
names fourteen shapes of source that are left out of the body in the passing run. The
run shows that nothing goes wrong in bodies of the modelled forms without these shapes, within its bounds; it says
nothing of the forms section 6 names. And each of the fourteen is needed: taking any of them out of `Avoid` in `MCFragment`
gives a counterexample (for `shadow`, `leak`, `sharedLabel` in the deeper menus).

| shape | what goes wrong | code |
|---|---|---|
| `stacked` | a form with labels as an operand: its frames declare an empty stack, as in `f(1, if c {2} else {3})`; also as the only argument of a constructor or variant, over its `new` and `dup`, and of `print`, over `System.out` | `expr.rs` 1607, 772, 804, 831, 870, 3391 |
| `deadCode` | `if c { return 1 } else { .. }`: the jump after the `return` has no frame | `expr.rs` 605, 1595 |
| `sharedLabel` | an `else if let`; a loop right after a `for`: of the frames at one position the first is kept | `emit.rs` 482 |
| `lastArm` | a value match whose last arm may fail goes to the end label without a value | `expr.rs` 1632 |
| `nested` | a match in an arm of a match: both temps have one name | `expr.rs` 1621 |
| `leak` | a `while let` followed by other code; a match on the right of `&&`, or in the condition of a loop after another match | `expr.rs` 3573, 2087 |
| `letElse` | the else block is lowered with the bindings of the pattern | `expr.rs` 1703 |
| `orBinding` | each alternative binds a slot of its own | `expr.rs` 1855 |
| `shadow` | `if` or a loop inside of a scope that hides a name | `expr.rs` 168 |
| `unnamedSlot` | `for` over a range or an iterator (run `LowerRange`) | `expr.rs` 2188 |
| `noLocals` | branches in a static function without parameters | `emit.rs` 634 |
| `breakValue` | `break v` leaves `v` on the stack | `expr.rs` 611 |
| `bodyValue` | the body of a `loop`, or of an `if` without `else` that is a statement, may end in a value (`if c { f() }`: the type checker expects no type there); it stays on the stack | `expr.rs` 1588, 2116; `ty.rs` 2713, 3745 |
| `wideTest` | a literal or range pattern for a `Long`, `Float` or `Double` is tested with a comparison of ints | `expr.rs` 1743, 1872 |

The bodies of `while`, `for`, `while let` and of an `if let` without `else` are checked against `Unit`, and `check_expr`
reports any other type, so they end in no value.

### Grammar, Parser, ParseFile

The functions of `parser.rs` are translated one by one, each as a sequence of
steps (`Grammar.parse_x`), and `Parser.Do` says what a step does to the state of
the parser: position, the half of a `>>` still to be closed (`gt`), the number of
diagnostics, the nodes made so far. So the grammar is data and the parser its
interpreter: an `if` of the code is `If`, a `while` is `Repeat` or `List`,
a `?` on `None` is a step that leaves `ok` false, and the two places where the
code takes something back (`let`-`else` with its saved position, blocks that go on after a
broken statement) are `Try` and `Soft`. `Ladder` holds the twelve levels of binary
operators that `parse_pipeline` to `parse_mul` are, `Climb` and `Descend` their recursion.
`looks_like_generic_args` scans tokens as the code does. Trees are
`[k, v, c]`: kind, spelling, children.

State of `ParseFile`: the parser, and the items collected. `Turn` is a turn of the
loop of `parse_file`, an item or its errors with `recover_to_item_boundary`.

### Printer, FormatFiles, Valenfmt, AtomicFile

`Printer.print_x` is that function of `printer.rs` as the words it writes; white
space is one bit of a text (the printer's, or not). Two `>` that close type arguments
are written side by side and `Relexed` into `>>`. `FormatFiles` goes over the
inputs of a command line: `FormatInput` (`format_source` of a file or of stdin),
`atomic_write` in three calls (write to the temporary file, sync, rename), `Exit`.
`CallFails` at any call; `Killed(power)` at any point: with the power goes what was
not synced, and a rename may be undone: `disk[p].held` has the texts the file has had since
the command began, and any of them may come back. What formatting makes of a text is a parameter here
(`Formatting`, `Readable`), so that the module can be reasoned about; `Valenfmt` puts parser
and printer in their places and adds the properties that are about programs. `AtomicFile` says of the
files that each step gives a file the complete formatting of its text (`Reformat`) or one of the texts it
has had (`Revert`), and nothing else, always.

### Matching

`Patterns` gives types, their values and `Matches`, what a pattern means.
`Exhaustive` is the pass with its own guess of the type (`check_block`'s flat
map of annotated locals, `infer_scrutinee_type`) and `check_match`; `MatchCode` has
`bind_pattern` of the type checker and the lowering of a match to tests, moves, accessor
calls and labels. State of `Matching`: the verdict of the passes, the names the checker
bound for each arm, the code, and the machine that runs it (`pc`, `slots`) on a
value of the type with any outcome of the guards. `Check`, `Lower`, `Enter`, then an action
per instruction, `TakeArm` when an arm's body begins, `Finish` behind the match. `FirstArm`
promises that of the arms that apply the first is taken, once.

### ClassFiles

State of the `Resolver`: the items left, `imports`, `package`, `defs`,
`scope`, `type_methods`, `trait_impls`, diagnostics. `register_item` takes an item at a
time; `build_method_index` and `validate_class_hierarchy` follow. `check_coherence` and
`validate_entry_point` reject as in `run_pipeline_with_classpath`; then `LowerDef` takes a
definition at a time (`lower_class`, `lower_data_class`, `lower_enum`,
`lower_sealed_trait`, ...), `LowerRest` makes the functions' class `Main`, the iterator, the
`ref` wrappers and the function interfaces, `WriteClass` puts a class into the file of its
name, where an earlier one of the same name is lost. Of a body only its lambdas are
kept: `LambdaCode.lower_body` gives call sites, synthetic methods and the bootstrap
table. `DataMethods` generates constructors, `equals`, `hashCode` and `copy` as the
field accesses they make, and executes them over values that include NaN, both zeros
and `null`. `Links` is what the JVM asks of a class when it loads it.

## 3. Runs

| run | expects | bounds | shows |
|---|---|---|---|
| `LspServer` | pass | 2 documents, one on disk; 3 texts (one defines, one uses, one is malformed and defines); 2 versions, 2 messages each way | every interleaving of editing and handling keeps analysis, numbers and display right |
| `LspLive` | pass | the same, 1 message each way | after the last edit each buffer shows its own syntax errors |
| `Valenc` | pass | 2 inputs, 2 classes, 12 programs, 3 runs | success is clean and complete, failure leaves the output alone, every error is reported truly and by one pass, runs end |
| `Coherence` | pass | pairs and many triples of 51 impls; single impls of a trait with two parameters and two methods | exactly the broken rules are reported |
| `Lowering` | pass | all forms two deep; `if`, loops, `let` four deep; `let-else`, `while let` three deep; one variable name | names, stacks and locals of frames, and blocks agree |
| `LowerRange` | violation | one `for` over a range | its limit is read from a slot the frame does not declare |
| `Parser` | pass | every text that is or may still become an item, of a few kinds of tokens up to 3 or 4 tokens after a prefix (angle brackets, operators of every level, statements, `let`, patterns), every form written out; each of the broken items before every item and before two chunks | the parser ends, loses nothing, nests, binds as documented and finds the items around an error |
| `Valenfmt` | pass | every accepted text of the same kinds, one token shorter, operands in parentheses in every place, imports in every order; command lines of up to 3 inputs with stdin, the same file twice, `--check`, 2 failing calls, kills or power failures | the formatter keeps the program and its own output, and never leaves a torn file |
| `Matching` | pass | one or two arms from menus of patterns, with and without guards (three from small menus); two enums that share a variant, a sealed class with an open subclass (and one of its own below it) and a sealed one with two more, two sealed traits that share implementors with the class, `Bool`; every place a match may stand, every shape of scrutinee | accepted is covered, rejected is not (but for sealed subclasses, section 5), the code takes the first arm with its names bound |
| `MatchBare` | violation | the same | a variant written bare, as in the guide, is tested for as a class that is never emitted |
| `ClassFiles` | pass | 3507 programs of up to 7 items: hierarchies of three classes with every kind of class and of method, superclasses written as any kind of type, impls of every kind of trait for every kind of type, data of every pair of field types, nested lambdas, packages, duplicates | classes link, sealed types agree with what a match has to cover, no function is lost, call sites reach their lambdas, `equals`, `hashCode` and `copy` agree |
| `LambdaLinks` | violation | the same | a lambda two lambdas deep, behind another one: its call site names the lambda before |

Why the bounds are enough. *LspServer*: two documents are needed for one to
change the errors of the other, and for a duplicate to move; two versions for
an edit to overtake the analysis of the one before; two messages for
batches and crossings. The proofs need none of these bounds. *Valenc*: a run
looks at the directory only by writing to it, so three runs give every
succession of a good, a cut and a repairing one; the proofs are for any number. *Coherence*: rules about impls
relate at most two impls; the third shows that an impl rejected between them
does not matter; the proof is for any number. *Lowering*: a frame can disagree
with a jump over the forms between the two; of two forms every pair is nested
in every position, and of the forms with jumps out of several scopes longer
chains. With one variable name every declaration in an inner scope shadows.
Random simulation of bodies with up to seven forms found one shape more, a match in the
condition of a loop after another match, since then part of `leak`; a hundred million states
of simulation over every pair of control forms, five deep, found nothing further, nor did as many with bodies that end in
values, constructors and long scrutinees.
*Parser*: what one item leaves behind for the next is a position and half a
`>>`, so one broken item before one or two others shows every such influence; two operators
of every pair of levels decide binding, three show associativity between others; angle
brackets need `X < X >>` and a token of context on each side. *Valenfmt*: the printer looks at a node and its
children, so three or four tokens below a prefix put every kind of child below
every kind of parent; a file is written by three calls, so two faults give one that is cut and
one that fails again. *Matching*: the pass counts arms one by one; two
arms show every pair (one that covers, one that does not, a shadowed one), three the
order of a fall-through chain; a sealed class below a sealed one and a class below an open one are all the depth there is to
a class test, which asks of each class above. *ClassFiles*: a link relates two classes, an
override three (guard against the grandparent), a lambda table two bodies or two depths.

The passing run of `Valenfmt` states `KeepsProgram` for trees that are `Printable`, that of
`Matching` its properties for patterns that are `Resolved` (and `Irrefutable` below
the top) and `RejectedIsNotCovered` for arms that do not cover by other classes than the direct subclasses
(`CoversBesideMembers`), that of `ClassFiles` leaves out named shapes of programs (`ExtendsTrait`,
`ExtendsByAnotherType`, `NamesTwice`, ...). Each of these conditions is a deviation of section 5, and each was found to
be needed: without it the run finds a counterexample.

Fairness. `LspLive` assumes that the server's main loop goes on
(`WF(Server)`: `main.rs` runs the loop until the pipe closes) and that the
editor reads (`WF(ClientReceive)`); nothing is assumed of the user. `RunEnds`
of `Valenc` assumes that a process that is not killed continues (`WF(Step)`).
The other runs state safety; `EveryTurnMoves` of `Parser` bounds the turns of the
loop by the length of the text, so that it ends without fairness being asked for.

`CHECK_DEADLOCK FALSE` everywhere: the user may stop, the last run, the list of
impls, the body, the text, the match and the list of classes come to an end.

Each property of a passing run has a mutant: a `Faulty_` (or `Stuck_`)
definition with a plausible bug (an undo log read forwards, a dropped
publication, a rename before the sync, a half `>>` that is kept, indices that are not
shifted) under which the run must find it violated.

## 4. Proofs

`LspServer_proof`, for any sets of documents, texts and names, and without the
bounds on versions and messages being used:

- `TypeCorrect`: `TypeOK` is inductive as it stands.
- `FileIdsCorrect`, `FileIdsStayCorrect`: `FileIdsIdentify` is inductive because it
  says also that every number is below `next_file_id`.
- `FreshCorrect`: each handler that changes `documents` ends in
  `run_cross_file_analysis`, and the analysis of an analysed workspace is
  itself (`AnalysisIdempotent`): HIRs do not feed back.
- `ViewCorrect`: `ViewIsCurrent`, and `ClosedCorrect`: `NothingShownForClosed`, by what a sequence
  of messages will show once read: appending a publication fixes what is shown
  for its document (`AppendShows`), leaves the others (`AppendKeeps`), and
  reading keeps it (`ReceiveKeeps`). `PublishAll` publishes each
  document once since the iteration order is a bijection (`InOrderIsOnto`).

Its second half is about the texts the editor and the server have. Its invariant `TextsInv` speaks of the
messages under way, which the properties do not: a text on its way is one the buffer has had, and
if its version is the present one it is the present text (`InboxKnown`); no
publication is ahead of its buffer (`OutboxKnown`); for each open document without a range edit that was
dropped, either the server has the buffer's text and nothing under way touches it, or the last
message that touches it carries the buffer's text (`Synced`). From it:

- `CorruptionImpossible`: `NoSilentCorruption`, the server works on a text the buffer has had.
- `VersionTagsCorrect`: `VersionTagExact`, diagnostics that carry the buffer's version are those of its text.
- `DrainedCorrect`: `SyncedWhenDrained`, with nothing under way the two texts are the same.

`Coherence_proof`, for any set of programs:

- `TypeCorrect`, and `ImplRulesCorrect`: `ImplRulesExact`, from the assumption
  `CliImports` on what `valenc` hands over as imports. The inductive
  invariant `IndInv` says of `seen_pairs` that it holds the pairs of exactly the impls
  examined so far, and of the diagnostics that they are those of the conditions the
  code tests; `PlainMeaning` and `LocalMeaning` translate the conditions on lowered types into
  the rules on the source.

Its second half is `MethodRulesCorrect`: `MethodRulesExact`. The loop is simple (`MethodInv`: the
diagnostics about methods are those `check_trait_satisfaction` gives); the argument is that comparing
lowered, substituted signatures decides what the source means. It goes by the shape of a type: what
a name is lowered to in the trait (`TraitNames`) and in the impl (`ImplNames`), two names after
substitution (`AtomMeaning`), two types (`TypeMeaning`), two signatures (`SignatureMeaning`), then a method
and its counterpart (`MethodMeaning`). `NoneAssumption` says that the missing type is no type.

`FormatFiles_proof` is for any formatter, any command line and any number of failing calls, kills
and power failures. `Inv` says of the file being replaced that what will take its place is the formatting
of the text it holds now, whole, and on the disk before the rename (`WriteInv`); of every file that it
holds one of the texts it has had (`DiskInv`); of `needs_formatting` that it is the answer for the
inputs done (`NeedsInv`). From it `CheckCorrect` (`CheckIsExact`); `ErrorsCorrect` (`ErrorsUntouched`), with the
assumption `ErrorsAreReported` that `format_source` is `None` for a text with errors, which TLC evaluates
for the parser and printer of `Valenfmt`; and `WholeCorrect`: `FilesStayWhole`, initial states
map to initial states and every step to a `Reformat`, a `Revert` or a stutter.

`Valenc_proof` is about any command line (paths may repeat), any program and any
number of runs. Its `IndInv` is the conjunction of `TypeOK`, of the properties, and of what
each phase of a run knows because the ones before it found nothing: while files are read, what
is printed are the syntax errors of the files before `idx` (`Running`); after that nothing is
printed and the passes before the present one are without errors (`Passed`); while classes are
written, those before `idx` are of this run, but for one whose name is listed again and that is
just being written (`WrittenSoFar`). The properties alone are not inductive: `exit = 0` says
nothing of the run that led to it. `SuccessIsClean`, `SuccessIsComplete` and
`ReportsAreTrue` follow as invariants and `OutputOnlyWhenClean` as an action property, from the
assumptions `ProgramsAssumption` (at least one input, errors are in inputs) and `ExitsDiffer`
(the two values that are no exit codes are none).

`LoweringForms_proof` and `Lowering_proof` are about any body: any names, nesting and size.
`NamesCorrect` is `NamesResolve`, `ScopesCloseCorrect` that no body ends in an open scope. Two stacks have to agree
that are pushed and popped at different times: those of the type checker, and the locals of the lowering with
their undo log. A state of the scopes says for each open scope of each side which names it knows, by the key of the
slot; `Seg(steps, a, b, N)` says that a sequence of steps leads from one such state to another (`Rel` for each step).

- `FormSeg`, `StmtSeg`: each form is lowered to a path from a state to itself, and a statement to one that
  changes the innermost scopes only; by cases, one lemma per `lower_x` (`IfSeg`, `MatchSeg`, `JavaSeg`, ...).
- `ScopeInv`, the inductive invariant: `todo` is a path from the scopes as they are to the outermost
  one, and each log of `scope_stack` leads back to the locals there were before its scope (`Lowered`).
  It is needed because what `pop_scope` will restore is nowhere in `locals`.
- `UndoneAppend`, `UndoWith`: the log is read backwards, so the latest binding is the first to be undone and
  two declarations of a name in one scope are undone to what was there before both.

The theorems assume of `Avoid` only `letElse` and `unnamedSlot`: `for x in 0..x` and `let x = e else { x }` bind `x`
before an expression is lowered that the type checker resolved without it (section 5), and there
`NamesResolve` is false. The other twelve shapes may occur in the body: they break frames, not names.

`LoweringBlocks_proof` has `BlocksCorrect`: `EveryBlockFramed`, for any body in which nothing diverges where other
code of the lowering comes next. The verifier is blamed at one instruction, but what makes it right or wrong
is decided forms earlier, where an expression was told what follows it (`next`). The invariant `BlockInv` says that
`todo` is a path (`Run`) over the ways the code before each step may have ended - running, jumped, returned - on which each
instruction and each expression finds it running, and a label takes any. Each form is such a path (`FormRun`,
one lemma per `lower_x`); `AfterForm` says which ways of ending what stands before a label, before a jump or at the end of the
body may have. Of `Avoid` the theorem assumes `deadCode`, without which the run finds it violated.

The same module has `LabelsCorrect`, for any body at all, whatever shapes it has: when the body is done, every jump went to a
label that was placed (`CodegenError::UnresolvedLabel` is never returned), and no scope or loop is open (`LabelsResolve`).
Labels are numbered when a form is chosen and placed when its last step is reached, other forms in between; break and continue go to
labels of a loop that may be any number of forms further out. The invariant `LabelInv` says that `todo` is a path
(`Leads`) from what is open now to nothing but the parameters' scope, on which each step goes to labels that are there or that
some step ahead places (`Known`), and break and continue find a loop open. Each form is a path from what is open to itself that
places every label it goes to (`Labelled`, one lemma per `lower_x`), so the labels it adds to those gone to come with the
steps that place them. No hypothesis is needed: the shapes of `Avoid` cost frames and names, never a label or a scope. So it
implies `ScopesCloseCorrect`, which is a by-product of `ScopeInv`.

`LoweringStacks_proof` has `StacksCorrect`: `StacksAgree`, for any body of the modelled forms without eight of the shapes. What a frame
declares is written down where a form ends; what is really on the stack there was put or left by the instructions on
every path into it, forms and loops earlier. The invariant `StackInv` takes one step of the lowering at a time: it says
that `todo` is a path (`Walk`) on which each step finds what it takes on the stack.

- `Use(N)` is what the keys and labels below `N` were taken for: a type for each temp, a stack for each label. It only
  grows (`Extends`), and for what is to come it is chosen when a form is chosen (`Planned`, `PlannedFor`).
- `Shifts` is what a step does to a point: the types on the stack, how many loops are open, which temps hold a slot. A jump
  needs the stack of its label, a label has the stack it was taken for; behind a jump anything may be on the stack, until a label says.
- Each form is a path that leaves the value of its type on top of what was there (`FormTrack`, one lemma
  per `lower_x`: `IfTrack`, `MatchTrack`, `JavaTrack`, ...), and a statement one that leaves nothing (`StmtTrack`).
- What is on the stack after a variable is read depends on what its name means there. So the path goes through points and the
  states of the scopes of `Lowering_proof` together (`Goes`), which give the name its key and the key its type (`VisibleKind`).
- `Agrees` relates the point to the verifier: `flow.stack` is the stack of the point while it is live, each frame and each
  arrival has the stack its label was taken for, open loops have labels with nothing on the stack.

`stacked`, `deadCode`, `breakValue`, `bodyValue` and `lastArm` come to a label with other operands than its frame has;
`wideTest` has longs compared as ints; `letElse` and `unnamedSlot` break the scopes the path goes through. The other six cost
frames their locals, never an operand: they may occur. None of the eight can be spared: with any one of them let in, TLC finds
`StacksAgree` violated on the run's menus; with just the eight kept out it found none in the thirty million states it was given.

Model-checked only: liveness (`EditsGetShown`, `RunEnds`), which the prover
cannot do; that the locals of `Lowering`'s frames agree (`LocalsAgree`); all of `Parser`, `Matching` and `ClassFiles`, and of `Valenfmt` what
is about programs (`KeepsProgram`, `SecondRunChangesNothing`). All but `Lowering` evaluate recursive operators over trees
(texts, patterns, lambdas), and what these compute for every tree is an induction over
data, out of the prover's reach.

## 5. Known deviations

Where code and documents, or two parts of the code, disagree. The runs
`LowerRange`, `MatchBare` and `LambdaLinks` (findings of `PROJECT.json`) show three
of them. The other deviations are listed by module.

### With a property in the modules, reproducible by a cfg

Each of these is a property that is defined in its module and violated. To see it, make it
the only INVARIANT of the cfg named, everything else as it is there.

| property | cfg | shows |
|---|---|---|
| `LspServer.DefinitionInItsFile` | `LspServer.cfg` | the location of a definition in another file is made with the uri and the line table of the file of the use (`server.rs:273`) |
| `LspServer.WorkspaceJoined` | `LspServer.cfg` | a file that is closed is no longer part of the workspace, though it is on disk (`server.rs:3662`) |
| `Valenc.DiagnosticsNameTheirFile` | `Valenc.cfg` | a syntax error in any file but the first is shown for `<unknown>` (`valenc/src/main.rs:136`) |
| `Valenc.CompiledHasEntryPoint` | `Valenc.cfg` | a method called `main` passes for the entry point (`ty.rs:34`) |
| `Coherence.BlanketImplRejected` | `Coherence.cfg`, `Programs <- PairPrograms` | a blanket impl is accepted and never looked at (`coherence.rs:87`) |
| `Coherence.AcceptedIsIndexed` | `Coherence.cfg`, `Programs <- PairPrograms` | an accepted impl on a type with arguments is not in the index (`resolve.rs:290`) |

### Passes and the language server

- An error about the entry point leaves `valenc` with exit code 2
  (`valenc/src/main.rs:290`), the code of usage errors; `docs/requirements/REQ-TOOL.md:45`
  gives compile errors exit code 1.
- A typealias escapes the uniqueness of impls (`docs/requirements/REQ-TRAIT.md:104`,
  `docs/lang/02-types.md:248`), and a newtype is not owned by the orphan rule
  (`coherence.rs:28`, `docs/lang/02-types.md:252`): names are compared as written.
- `substitute_tyref` (`coherence.rs:337`) replaces a method's own type parameter
  when it has the name of one of the trait (`docs/lang/07-traits.md:105`).
- The language server calls the coherence pass without imports (`server.rs:197`),
  and so reports imported traits as unknown.
- An impl of a name of the prelude that is no trait is accepted silently.
- `for x in 0..x` reads the loop's own variable as its end (`expr.rs:2174`), while
  the type checker resolves it to the outer one (`ty.rs:3664`).

### Parser and formatter

What the parser accepts or loses: `A<B>>` as a type at the end of a type position
(the second half of `>>` is dropped with the item); `x < y >> (z)` and `(x < y) > (z ==
w)`, once printed, as a call with type arguments; a second turbofish replaces the first; annotations
and visibility before an `impl` are dropped; `T::class` never parses.

What the printer loses (left out of `KeepsProgram` by `Printable`): `derives`, `unsafe` of
a function, the visibility of functions in an `impl`; the `::` of a turbofish; parentheses around
anything but a binary operand of a binary, such as `(x as X)?`, `(x as X).y`, `-(x
+ y)`, `(|| x)()`; the `;` after `unsafe` blocks and block-like statements, so that `if a {1} else {2};` at the end
becomes the value of its block. `--check` exits with 0 for files that do not parse. An edit
saved between reading and renaming is overwritten by the rename (`valenfmt/src/main.rs:78`).

### Matches

- Fields' sub-patterns are not looked at: `.Wide(big: true, ..)` covers `Wide` (`exhaustive.rs:462`).
- The lowering binds a bare name as a variable: `Red => ..` catches everything; the
  passes read it as the variant.
- Names bound in an or-pattern get different slots in each alternative; a name bound twice in a pattern
  means the first for one pass and the last for another.
- An unknown field `f: p` is typed `Error` without a report.
- `.Dog` and `F::Dog` count for sealed types, though they name no variant.
- Of a sealed class the pass wants each direct subclass by name (`exhaustive.rs:406-415`). With `sealed class A`,
  `sealed class B : A()`, `class C : B()` a match on an `A` that names `C`, or `A` itself, is rejected though it covers
  (`CoversBesideMembers`).
- `Card(number)` for a subclass of a sealed class (`docs/guide/05-enum-and-match.md:223`) binds `number` in the lowering, by
  an accessor the class need not have (`expr.rs:1825`), while the checker binds nothing (`ty.rs:3376-3384`). `Resolved` leaves
  out fields of anything but an enum's variant.
- The pass has one flat map of locals: scopes are not left, an un-annotated `let` that shadows keeps the
  old type, a method call is judged by its receiver's type.
- Not visited at all: matches below a cast, `?`, if-let, while-let, in lists, pipelines,
  f-strings, bodies of trait methods. A match on `Int` or another open type is never checked.

### Classes

- Traits that are not sealed emit no interface; one written first in a class header becomes
  the superclass; a sealed trait in the header is neither permitted nor counted as covered.
- A superclass written `A<Int>` is permitted by the sealed class (`lower.rs:1202-1207`), but a match need not name the subclass
  (`exhaustive.rs:410`); one written `A?` makes a subclass that is neither permitted nor counted. `ClosedTypesAgree` leaves both
  out (`ExtendsByAnotherType`).
- The superclass constructor is called without arguments, always (`docs/guide/04-classes.md:166`).
- Override is checked by name only (`docs/guide/04-classes.md:205`) and against the body of the direct
  superclass: an open method of the grandparent cannot be overridden, a final one
  is overridden silently, and impl blocks are never looked at. Abstract methods need not be implemented, and may be
  private or static. A superclass need not be defined.
- Methods that meet under one name in a class (a class body and an impl, two impls, an impl of
  a data class that defines `toString`) make a class file that cannot be loaded; inherent methods of data classes and enums
  whose name is taken are dropped silently. Duplicate `derives` duplicate methods.
- Methods of newtypes, primitives and generic types, and default bodies of traits, have no
  class to go to. A sealed trait implemented for a newtype or an annotation has no interface there. Imported Java traits
  of impls are not added to plain classes.
- A class called `Main` is overwritten by the functions' class; in a program of several packages all functions
  are in the `Main` of the last.
- Record variants without `derives Eq, Hash` inherit the abstract methods of `Record`.
- `ListIterator` implements `valen/core/Iterator` and uses classes of `Option` nobody emits, one of
  them by a private constructor.
- Lambdas are numbered per body: two methods with lambdas share names and indices (`LambdasTwice`), a lambda and the one in
  it share the name `lambda$0` (`SameLambdaName`). Even without these, a lambda two lambdas deep keeps the index it had in the
  innermost body, since only call sites of the body just lowered are shifted (`expr.rs:1141-1158`, run `LambdaLinks`).

## 6. Not modelled, and the plan

Not modelled: rendering of diagnostics, layout and comments in the formatter, f-strings, class file
bytes and the constant pool, reading of archives (input or wording); `async-lsp`,
`ristretto_classfile` and the JVM are external and appear as the code uses them.
Left out of what is modelled: inference, subtyping and Java assignability of the type checker; list and map
literals, f-strings, range and iterator values (all keep an object under their parts, in a slot without a name or on the stack,
like the shapes `unnamedSlot` and `stacked`), safe blocks, casts, inlining and closures of the lowering of control flow; variance, naming conventions and the prelude in
resolution; mutable targets, SAM conversion and annotations in the lowering of
declarations; read-only requests of the language server.

Next, in this order:

1. `Types`: `is_subtype` and `is_java_assignable` as operators, checked
   against their reference definitions: reflexive, transitive, joins; then inference over `MatchCode`'s terms.
2. `Valenc` over the programs of `ClassFiles` instead of given data: a build as the
   abstract specification (inputs in, a directory out, or nothing).
3. `WorkspaceScan` and `LineIndex` for the language server; a view of a workspace that
   `LspServer` implements up to messages under way.
4. The lexer below the tokens: f-strings and comments, and with them the formatter's comments.

Theorems to come: of `Lowering`, that the locals the frames declare are there on every way to them
(`LocalsAgree`).
