# evaVM: a verification project

evaVM is a virtual machine for Eva, a small dynamic language with S-expression
syntax: numbers, strings, booleans, blocks, functions, closures, and classes with
single inheritance. `EvaVM::exec` parses a program, a two-pass compiler turns the
tree into code objects, and one loop, `EvaVM::eval`, runs the bytecode of the code
object `main` over an operand stack, with a mark-sweep collector underneath. This
directory models the parser, the two compiler passes, the disassembler, the eval loop
and the collector in TLA+, checks them with TLC and proves part of what was checked
with TLAPS. Paths below are those of the repository (`src/gc/EvaCollector.h`, ...).

Contents: [1 the system](#1-the-system), [2 the modules](#2-the-modules),
[3 how the modules follow the code](#3-how-the-modules-follow-the-code),
[4 the runs](#4-the-runs), [5 the proofs](#5-the-proofs),
[6 where the code disagrees with itself](#6-where-the-code-disagrees-with-itself),
[7 what is not modelled](#7-what-is-not-modelled), [8 the plan](#8-the-plan).

## 1 The system

Everything runs on one thread. There are no messages and no timers; nothing is
persisted. What is hard here is hidden state shared by parts that run at different
times: the compiler predicts the shape of a stack that only the VM has, the scope
analysis caches answers that later captures change, and a collection may fall
inside any instruction that allocates.

| component | state | operations | depends on |
|---|---|---|---|
| Collector, `src/gc/EvaCollector.h` | none of its own: the mark bits and the list of objects | `gc(roots)` = `mark` + `sweep`; `getPointers` | every Traceable; called by `EvaVM::maybeGC` |
| Values, `src/vm/EvaValue.h` | `Traceable::objects`, `bytesAllocated`; the fields of each object; `marked` | `operator new/delete`, `cleanup`, the `ALLOC_` functions, `getProp`, `CodeObject::addLocal/addConst/insertAtOffset` | |
| Scope analysis, `src/compiler/Scope.h` | a tree of scopes: `allocInfo`, `free`, `cells` | `addLocal`, `addCell`, `addFree`, `maybePromote`, `resolve`, `promote` | driven by `analyze`, asked by `gen` |
| Compiler, `src/compiler/EvaCompiler.h` | `scopeInfo_`, `scopeStack_`, `co`, `codeObjects_`, `constantObjects_`, `classObject_`, `classObjects_` | `compile` = `analyze`, then `gen`; `compileFunction`, `blockEnter/blockExit`, jumps and patches, `inherit` | scopes, globals, values |
| Globals, `src/vm/Global.h` | a vector of names and values | `define`, `getGlobalIndex`, `get`, `set`, `addNativeFunction`, `addConst` | used by compiler and VM |
| VM, `src/vm/EvaVM.h` | `ip`, `sp`, `bp`, `fn`, `stack`, `callStack` | `exec`, `eval` (one case per opcode), `push/pop/peek/popN`, `maybeGC`, `getGCRoots` | all of the above |
| Opcodes, `src/bytecode/OpCode.h` | | the table | |
| Parser, `src/parser/EvaParser.h` | the text, the cursor and its line, three stacks (states, values, tokens) | `parse`, `getNextToken`, one handler per production (generated from `EvaGrammar.bnf`) | values of `Exp` |
| Disassembler, `src/disassembler/EvaDisassembler.h` | | prints every code object there is before a program runs; looks its operands up | code objects, globals |
| Logger, `src/vm/Logger.h` | | `DIE` prints and exits | |
| Command line, `EvaVM.cpp` | | reads a program and runs it once | `EvaVM::exec` |

How they meet:

* `exec` calls the parser, then `compile`, then the disassembler, then `eval`. It may
  be called again on the same VM (`src/test/comparison_ops.h` does): heap, globals,
  classes, code objects, operand stack and call stack are those the last program left.
* `compile` allocates code objects, functions,
  classes and strings through the same `Traceable` heap as the VM but never asks for
  a collection; its objects are kept alive by `constantObjects_`, one of the
  collector's three sets of roots (operand stack, constants, globals).
* `analyze` fills the scopes; `gen` asks them, a second time through the same tree,
  how to emit each name, and keeps its own list of locals per code object to guess
  the slot a variable will have.
* `eval` trusts the bytes: operands, slots, cell and constant indexes are not
  checked against the vectors they index.
* An instruction that allocates (`OP_ADD` on strings, `OP_SET_CELL`,
  `OP_MAKE_FUNCTION`, `OP_NEW`) calls `maybeGC` first, with some of its operands
  already popped.
* One parser serves all programs of a VM, also after an error: it throws out of the
  middle of its loop and clears its stacks when it is next called.

What makes each part correct:

* Parser: it accepts the texts of the grammar and no others, with their tree, and
  reports an error where the text stops being the beginning of a program; its three
  stacks, popped by different code, never run out of step.
* Collector: an object the program can still reach is never freed; what is left
  after a collection is what the roots lead to; memory passes the threshold only
  with live objects; marking ends on cyclic heaps; marks do not leak into the next
  cycle; the byte count that triggers it all is the size of what is allocated.
* Scope analysis: all scopes agree on where a variable lives; globals stay globals;
  a function's captured variables can be loaded where its closure is made; a stack
  slot is read only by the code of the function that owns it.
* Compiler and VM together: a program ends with the result that the language gives
  it; no jump lands inside an instruction, no index is past its vector, no object is
  cast to another type, no object is used after a collection took it back; execution
  is only ever where the disassembler finds an instruction; a call replaces callee and arguments by the result and
  nothing else; a program whose loops end ends.
* VM alone: whatever goes wrong in a program, nothing is read or written outside the
  operand stack before the process ends or does something C++ leaves undefined.

The hazards behind these properties, each at its line, are in `PROJECT.json`.

## 2 The modules

```
EvaHeap  <-- implemented by --  EvaCollector       EvaScope         EvaParser
                                   |                  |              |      \
                           EvaCollectorProofs   EvaScopeProofs       | EvaParserProofs
                                   |               |                 |
                        MCCollector, MCCollectorLive   MCScope   EvaGrammar
                                                                     |
                                                                  MCParser
              OpCode, EvaValue
            /        |         \
    EvaVM    EvaDisassembler    EvaAnalyzer
      |             |            /     \
  EvaMachine        |    EvaCompiler  EvaLanguage
       \            |           |         |
        EvaCertificate          |         |
               |                |         |
          EvaLifetime           |         |
               |                |         |
          EvaDefined ------ EvaSystem ----+---- MCEva

the proofs: EvaVMProofs of EvaMachine, EvaCertificateProofs of EvaCertificate,
EvaLifetimeProofs of EvaLifetime, EvaDefinedProofs of EvaDefined, each on the one before
```

* `EvaHeap`: the abstract specification of the heap. A graph of objects, a program
  that moves roots and edits fields, and memory that may be taken back only from
  objects no root leads to.
* `EvaCollector`: the collector step by step, the heap's bookkeeping, the roots, the
  trigger, and as the mutator everything compiler and instructions do to the graph.
  Shown to implement `EvaHeap` (`HeapPromise`), checked and proved.
* `EvaScope`: the analysis as a state machine over an arbitrary program, one
  declaration, mention or scope at a time.
* `EvaParser`: the tokenizer and the LR loop, a step for each token and each entry of
  the table, program after program.
* `EvaGrammar`: what they should accept: rules as sets of texts, an expression as what
  stands between parentheses that belong to each other.
* `EvaValue`: the tagged values and the objects of the heap as data, with property
  look-up.
* `OpCode`: the table of opcodes.
* `EvaAnalyzer`: the analysis again, as operators on a given syntax tree, as the
  generator needs its result.
* `EvaCompiler`: `gen` for every form of the language, down to bytes.
* `EvaVM`: the eval loop, one action per opcode, down to bytes, with a collection
  wherever one may fall.
* `EvaMachine`: the machine on its own: `exec` and the loop, over images of which it is
  known that bytes are bytes and references refer, and nothing else. An abstract
  specification of `EvaSystem` without compiler, syntax and programs.
* `EvaCertificate`: what code must be like for a machine to keep to its frames: layouts,
  which give each offset a stack depth and are checked instruction by instruction, and
  `VerifiedSpec`, the machine that is given such code and called with the right operands.
* `EvaLifetime`: what a machine needs so that no collection takes what it goes on to use:
  code that leaves the callee in its slot, compiled objects that refer to constants only,
  captured variables without run-time objects. `RootedSpec` is the machine that has it.
* `EvaDefined`: what it needs so that nothing undefined happens: indexes looked up, cells
  there when an instruction asks for them, operands of the right types. `DefinedSpec` is the
  machine that has it.
* `EvaDisassembler`: where the disassembler finds instructions and what it looks up.
* `EvaLanguage`: a denotational reference: what a program means, without stack,
  cells or bytecode.
* `EvaSystem`: `exec`, called again and again: compiler, disassembler, VM and reference
  composed. Each program is compiled onto what the ones before left, and its result is
  compared with its meaning.

`EvaVM` is the loop alone and contains no RECURSIVE operator, nor do `EvaMachine`,
`EvaCertificate`, `EvaLifetime` and `EvaDefined`, so that theorems about them hold for every code
object; the compiler and the references are recursive over syntax and stay with TLC. `EvaSystem` extends both, and
its runs check that compiled programs do what a machine does (`MachineSpec`, in `careless`)
and, when compiled right, what a machine with layouts, roots and operands does
(`VerifiedSpec`, `RootedSpec` and `DefinedSpec`, in `programs`), so what is proved of machines is true of them. The parser's tree is the same data the
compiler starts from, but the two are not run together: the programs of `MCEva` are
written as trees.

## 3 How the modules follow the code

The exact lines of every definition are in `PROJECT.json` under `map`.

### EvaCollector

`pc` says where the thread is: `exec` (between programs), `compile`, `eval`, then
inside an allocating instruction `mem` (in `maybeGC`), `mark`, `sweep`, `alloc` (the
allocator and the rest of the instruction), and `cleanup`/`closed`/`died`/`undefined`.

* Objects are identities. `objects` is `Traceable::objects`; `kind` is what the
  casts see; `link` holds the references fixed when an object is built (a function's
  `co`, an instance's `cls`, a class's `superClass` and methods, a code object's
  constants), which `getPointers` does not follow, `slots` those written at run time
  (a function's cells, an instance's properties, a cell's value), of which
  `getPointers` follows the first two. Numbers and booleans have no identity and are
  absent; a vector or map is the set of the objects in it.
* `CompileLeaf`, `CompileFunction`, `CompileClass`, `CompileReference`: what `gen`
  allocates and stores, always into `constantObjects_`. `BeginExec` allocates `main`.
* `Push`, `Drop`, `SetGlobal`, `SetProp`, `SetCell`, `Call`, `Return`: the
  instructions that move references. The callee stays in its slot while it runs.
* `AskString`, `AskCell`, `AskFunction`, `AskInstance`: the instructions that
  allocate, up to `MEM`; `maybeGC` compares with the threshold and checks that there
  are roots; `MarkStep` visits one object, `SweepKeep`/`SweepFree` one list node;
  `Allocate` is the rest of the instruction. Reading a freed object (`UseFreed`,
  `MarkFreed`) leads to `undefined`, and the model stops.
* `Cleanup`, `CleanupDelete`, `CleanupDone`: the destructor of the VM.

Three constants name liberties of the code under which its promise fails, so that
each can be studied alone: `FreshMarks` (the mark bit no constructor sets),
`CaptureAny` (a run-time object in a captured variable), `OverwriteCallee` (a
function that assigns to its own name).

### EvaParser, EvaGrammar

A text is a sequence of characters, `cursor_` an offset in it. `Matched` is the length
of what each regular expression takes, `LexRule` the first that applies. `Skip` and
`Read` are one round of `getNextToken` that ends in a recursive call and one that
returns a token, `ReadEnd` is the end of the text, `UnexpectedCharacter` the throw.
`captureLocations_` counts lines and columns. `table_` and `productions_` are the
generated tables (row 0 and 8 shift, rows 2 to 6, 9 and 10 reduce, row 7 reduces an
empty list). A reduction is one step: `CanReduce` holds where no `pop_back` meets an
empty vector and `at` finds its entry; otherwise the state is `undefined`.
`NumberTooLarge` is the throw of `stoi` out of the middle of a handler, with states and
token popped. `Parse` is the beginning of the next `parse`, on the text that `exec` has
put in `(begin ` and `)`.

`EvaGrammar` is the yardstick: it has no cursor, table or stack.

### EvaScope

A program is the sequence of the scopes it opens, the names it declares and those it
mentions. `OpenBlock`, `OpenFunction`, `OpenLambda`, `OpenClass` and `Close` walk the
tree; `DeclareVar` is `addLocal`; `Reference` is `maybePromote` with `resolve` and
`promote`; `ReferenceError` is the `DIE` of a name nobody declared. `owner` is the
scope `resolve` stops at, the first that has the name in `allocInfo`; `meant` is the
scope whose declaration the name denotes in the language. They differ when a scope
on the way has only cached the name. `binder` records `meant` and is read by no
guard but those of the disciplines: `ReadThrough = FALSE` (names are looked up in the scope that declares
them, not through one that cached them), `ShareCaptured = FALSE` (a captured variable
is not used in a block nested in its own function as well), `Redeclare = FALSE`.

### EvaAnalyzer, EvaCompiler

A compiler state is a record: the heap of compile-time objects, `globals`, `scopes`
with one scope per expression node in the order `analyze` meets them, the current
code object, the class being compiled, the list of constants. `gen` takes the state
and the path of an expression to the state after it; paths stand for the `Exp*` that
key `scopeInfo_`. Every operator keeps the name and the order of effects of its
C++ function: placeholders are emitted, then patched byte by byte (`patchJumpAddress`,
`writeByteAtOffset`), locals are counted the way `getVarsCountOnScopeExit` counts
them, a method falls into the branch for simple functions after its own, a
constructor gets its three bytes inserted before its end (`returnSelf`), indexes are cut
to bytes, and `everLocals` remembers how long the vector of locals has been, as popped
names stay in its memory. Two reads of undefined data are fixed: `classObject_` starts as null, and
`back()` of a list that has just become empty reads no matching scope level.

### EvaVM

`sp` and `bp` are offsets, `stack` the slots written so far (what is above `sp` is still
there, as in the array, and can be read back by a wrong index). One action per
opcode. Four outcomes besides `running`: `halted`; `died` (`DIE`, whose conditions are
collected in `Dies` and `Unresolved`); `undefined` (what C++ gives no meaning to:
`Undefined`, or running past the end of the code); `fraction` (a quotient that is not
an integer, where the model's numbers end). `eval`'s frame of `OP_CALL`,
the shrinking of the callee's cells, `OP_SCOPE_EXIT`'s move of the result, and
operands that are popped without a result being pushed (`Add`, `Compare` on values of different
types) are as in the code.

`heap` is every object ever allocated, compiled or made at run time; `freed` are those a
collection has taken back, and an address is not used twice. `MEM` is the macro of the
same name: an instruction that allocates either collects first or does not, whatever the
byte count, since the threshold may be met at any allocation. What a collection keeps is
what `getGCRoots` (the slots below `sp`, after the instruction has popped its operands,
the globals, `constantObjects`) leads to by `getPointers`. Mark bits are taken to be clear
between collections; `EvaCollector` studies what happens when they are not, marks and
sweeps step by step, and reuses addresses. Using a freed object is `undefined`
(`Unreadable`, `Is`, `Undefined`), and so is a collection that meets one (`GcWild`).

### EvaDisassembler, EvaSystem

`disassemble` is the set of offsets at which a line of the listing begins. It ends
the process at a byte that is no opcode (`NoDisassembly`); `Astray` are the look-ups past
the end of a vector, which may end it, too, or print rubbish: both are allowed.

`EvaSystem` has the session of programs a VM is given. `Compile` is `exec` up to the
listing: from the heap, globals and classes there are, with new scopes, and with `ip`,
`sp` and `bp` set anew but not the call stack. `Disassemble` walks all code objects, old
and new. `Run` is one turn of `eval`.

### EvaCertificate

A layout of a code object maps the offsets execution can reach to the number of slots of
the frame that are in use there (`depth`) and to whether it is that number or at least
that number (`exact`: a loop leaves a value each time round, so behind one only the least
depth is known). `Takes` and `Leaves` are what each instruction pops and pushes, read off
the cases of `eval`; `Carried` says of one instruction that it has its operands and its
local within the frame, that a return finds nothing but the result, and that the layout is
right about its successors. `Layout` computes one in a pass over the bytes; nothing rests
on how it does, because `IsLayout` checks the outcome. Code without a layout need not be
wrong: a function that contains a loop has none, whatever it computes.

### EvaLifetime

`getPointers` follows what `EvaCollector.h` follows: a function's cells and an instance's
properties. `NotTraced` is the rest of what an object refers to: code, constants, classes,
the value of a cell. Nothing in `eval` makes sure that these stay; they do because `gen` puts
all it makes into `constantObjects_` (`OfConstants`, of the step from one image to the
next), and because a program captures only what is no object or a constant (`Tame`, of
`OP_SET_CELL`). The running function and those that wait are in no root at all; they
are found on the operand stack, where `OP_CALL` left them, as long as no instruction of
theirs takes or assigns the first slot of the frame (`CalleesKept`), except the
`OP_SCOPE_EXIT` before the `OP_RETURN`, when no collection can come any more. The function
`main` has no slot and is a constant.

`Endless` is `EvaMachine` with nothing ever taken back (`freed <- {}`), a machine whose
memory has no end. `Unnoticed` says that the machine with the collector implements it.

### EvaDefined

`eval` casts an operand to what the instruction takes, and indexes a vector with the byte
that follows. Three things stand between that and undefined behaviour:

* `Astray`: the disassembler has looked up the index of every constant, property and global
  there is in the code.
* `Knowledge`: a cell index is right only if the cell is there by then. For each offset
  of a code object, `cells` is the least number of cells the running function has there, of
  which it was given `freeCount` and made the others by `OP_SET_CELL`; `code` and `loaded` are
  what is known to be on top of the stack: the code object of an `OP_MAKE_FUNCTION` and
  below it the cells that `OP_LOAD_CELL` has pushed. `Learnt` is what each instruction adds to it,
  `Provided` what it needs of it. As with layouts, nothing rests on how `Knowledge` finds it:
  `IsKnowledge` checks it. This is the generator's side of what `EvaScope` shows of the analysis
  (`FreeThreaded`): a function captures for those inside it.
* `Typed`: the types of operands are the program's. `OP_CALL` cuts the callee's cells off to
  those it was given; a function that is running and has made cells of its own since would
  miss them, so `Typed` forbids that it is called again (`Leaves_`).

### EvaLanguage

Not a model of code but the yardstick: lexical scope, one binding per declaration,
closures over bindings. The value of a loop is not compared, as the language gives it none.

## 4 The runs

TLC 2 workers; distinct states in the last column (for a violation: until the
counterexample). Runs that may stop have `CHECK_DEADLOCK FALSE`: a
VM that was destroyed, a process that died, a program that ended and an analysis that
is done have no next step.

### The parser (`MCParser`)

| run | question | bounds | states |
|---|---|---|---|
| `parsing` | is the right tree returned or the right place reported (`ParseRight`, `ErrorPlaced`), does every text end in one of the two (`Answers`), and do stacks, table and productions fit each other throughout (`StacksAgree`, `NeverCorrupt`, `TypeOK`) and the kept places those of the text (`LocationsExact`)? | every text of up to 3 of 10 pieces: parentheses, a digit, a letter, a quote, a slash, both ends of a comment, a newline, a character no token begins with; `IntMax` 9 | 18 468 |

A parser has no memory of the last text but its stacks, and every text of the run may
follow every other, so that two in a row are every history. Three pieces inside
`(begin ` and `)` make nested and empty lists, unbalanced parentheses on either side,
strings, comments over two lines, comments that swallow the rest and a number that is
too large (two digits). Which characters a class of a regular expression holds is not
varied: one of each class is enough.

Fairness: `WF_vars(getNextToken \/ Loop)`, the loop of one thread; nobody has to call
`parse` again.

### The collector (`MCCollector`, `MCCollectorLive`)

| run | question | bounds | states |
|---|---|---|---|
| `closures` | is a collection exact, is it safe at every point where it may fall, and does the whole implement `EvaHeap`? (`NoDangling`, `CollectionExact`, `GarbageBounded`, `HeapPromise`) | 4 addresses, threshold 4, 2 objects on the stack, 2 constants, 1 global | 252 705 |
| `marks` | what holds if the mark bit is what the memory held? is the byte count exact, with sizes that differ by kind and while the VM is destroyed? (`TypeOK`, `SweepClearsMarks`, `RootsSurvive`, `BytesExact`) | 4 addresses, threshold 5, 3 constants, classes, both values of a fresh mark | 682 550 |
| `instances` | are instances that refer to each other safe, and does a collection of them end and the allocation that asked for it take place? (`NoDangling`, `AllocationServed`) | 5 addresses: 3 fixed by the compiler, 2 instances of one property each | 1 003 352 |
| `stray_mark`, `cell_value` | one liberty each | 5 addresses | violations |

Two constants (a code object and its function `main`) are the least a program has;
one more is a class. That leaves two run-time objects in `closures`, a cell and the
closure that holds it or garbage next to something live, and, as addresses are
reused, a reference that outlives its object; and two instances in `instances`, the
shortest cycle that is not a loop. The threshold is such that collections happen
with and without garbage. `MaxProperties` bounds what one instance refers to. All
addresses are interchangeable in `closures` and `marks`, which use that symmetry;
`instances` has a liveness property, for which symmetry is not sound, and so fixes
the compiled program and starts in it.

Fairness (`instances`): the interpreter is one thread. `WF_vars(Collect)`: a collection
that has begun goes on; `WF_vars(maybeGC)` and `WF_vars(Allocate \/ Die)`: so does the
instruction around it. Nothing is assumed of the program: it may never allocate.
`"mem"` leads to `"eval"` or `"died"` because an object is expanded once.

### The scope analysis (`MCScope`)

| run | question | bounds | states |
|---|---|---|---|
| `any_program` | what holds for every program (`TypeOK`, `FreeThreaded`) | 2 names, 4 scopes, all liberties | 1 016 660 |
| `careful_program` | do the scopes agree? (`GlobalsStayGlobal`, `PromotedEverywhere`, `NoForeignSlot`, `OneCellPerName`) | 1 name, 5 scopes | 257 009 |
| `global_captured` | what `ReadThrough` breaks (`GlobalsNotCaptured`) | 1 name, 4 scopes | violation |

`careful_program` says what holds of programs in which no name is looked up through a scope that
looked it up itself, as by a lambda in a block that mentions the same global (`ReadThrough`), and
no captured variable is used in a nested block of its function (`ShareCaptured`): it shows nothing of what goes wrong in the others, which `global_captured`
and `misplaced` show.

Names do not interact in `Scope.h`: each operation reads and writes the entries of
one name in each scope. One name shadowed at will in five nested scopes (global, function, block,
function, block) has every shape a capture can have; two names are there in
`any_program` because opening a function declares several at once.

### Compiled programs (`MCEva`)

Each run gives a machine a session of one or several programs, which the models of the
compiler and the disassembler take and the model of the VM runs.

| run | programs | properties | states |
|---|---|---|---|
| `programs` | that the compiler should get right: branches, loops, nested and shadowing blocks, string operators, two statements after each other; recursive, nested, first-class and native functions in every position of an expression; counters, accounts, adders, closures in closures, two closures that share a variable, called in every order; constructors, inheritance, overriding, `super`, updates, two acts after each other; instances, strings and closures made while others are held by the stack, by globals and by each other; sessions in which later programs call functions and closures and extend classes of earlier ones | `ResultRight`, `NeverStuck`, `FrameBalanced`, `OnInstruction`, `WithinFrame`, `NothingLost`, `CollectionsDefined`, `NeverUndefined`, `Ends`, `VerifiedSpec`, `RootedSpec`, `DefinedSpec`, `Unnoticed` | 68 796 |
| `careless` | that compile and go wrong: operands of the wrong kind, missing properties, calls of what is no function, recursion without end, captured strings and a running function's name given up before a collection, misread constructors, captured names declared again, variables of an earlier program, lambdas and blocks called where they are made, no program at all; on a stack of 8 slots | `TypeOK`, `StackInArray`, `MachineSpec` | 48 652 |
| `misplaced` | one program that should give 310 | `ResultRight` | violation |

* `ResultRight`: a program that halts leaves the value that `EvaLanguage` gives it after
  the programs before it in the session. Every wrong slot, cell, jump or operand order
  in a program whose result depends on it is caught; the programs make their results
  depend on them (`-` is not commutative, two counters are weighed 100 to 1).
* `NeverStuck`: it is not refused and does not `DIE`, in the compiler, in the disassembler or
  as it runs, so that `ResultRight` is not empty.
* `NeverUndefined`: nor does it do what C++ gives no meaning to: no index is past its vector,
  in the disassembler's look-ups or at run time, no operand missing or cast to what it is not,
  and whenever garbage is collected, what the program still uses is not taken.
* `FrameBalanced`: at `OP_RETURN` nothing but the result is left of the call.
* `OnInstruction`: `ip` is always where the disassembler printed an instruction: jumps that
  were patched, return addresses, and code that `returnSelf` inserted into.
* `WithinFrame`: a function takes none of its caller's operands, touches no slot outside its
  frame, returns to a frame and does not run past its end.
* `VerifiedSpec`, a refinement: all the code there is when a program starts, old and new,
  has a layout, and at run time `+` and comparisons get operands of one type and functions as
  many arguments as they have parameters. From these alone the three properties before it
  are proved (section 5).
* `NothingLost`: with a collection at any allocation, what has been taken back is
  never a function that runs or waits, a value on the stack or in a global, nor anything an
  object in memory refers to, also by references that the collector does not follow.
* `CollectionsDefined`: marking never follows a reference to what is gone, and the function
  that is to get a cell survives the collection that makes room for it.
* `RootedSpec`, a refinement: `VerifiedSpec`, and the compiler's objects and the
  program's captured variables are as `EvaLifetime` asks. From it the two are proved, and
  so is `Unnoticed`, a refinement: each step, collections included, is one that the same machine
  makes with endless memory and no collector: one of the two could tell if an instruction
  read from what a collection took.
* `DefinedSpec`, a refinement: `RootedSpec`, and compiled code and program are as `EvaDefined`
  asks. From it `NeverUndefined` is proved.
* `Ends`: with `WF_vars(Disassemble \/ Run)`, justified as `exec` is one thread's, every
  program that was compiled comes to its end; nobody has to call `exec` again.
* `StackInArray`: until the process has died or done something undefined, no access
  leaves the array, although `popN`, `peek` and the slot operations check little.
* `MachineSpec`, a refinement: every step of the composed system is one of `EvaMachine`.
  What the compiler makes is an image (bytes that fit a byte, references to what is there,
  of the kind the loop casts them to, nothing of an earlier program lost or changed in
  kind), and pointers start where they should, on every program of every session.

`StackLimit` is the real 512 except in `careless`, where 8 lets programs reach it.

The code compiles some programs wrongly (section 6). The family of `programs` keeps to
those it gets right, and its discipline is part of what the run says:

* a block among the operands of an expression declares nothing: declarations stand
  where the operand stack holds nothing but the locals;
* loops stand at the top level or in a block with a statement after them, never last;
  none in a function;
* a function whose body is a block has a parameter or a local;
* a closure captures one variable, a local of a block or a last parameter, and a
  function that captures for another does not call itself;
* a constructor has a parameter;
* no call to a function from a block within its own body, no global in two nested
  blocks or in a closure within a block, no captured name declared twice, no function
  called `main`;
* no run-time string in a captured variable;
* a program of a session but the first uses what earlier ones defined in the head of a
  call only, and reads their variables through their functions: the analysis of a
  program knows what that program declares and nothing else, neither natives nor the globals
  before it. A name in head position is not analysed, and the generator finds it in `Global`;
* the head of a call is a name, a property or another call, and a native stands nowhere else:
  no lambda or block is called where it is made.

Each of these is the counterpart of a disagreement in section 6; without the
discipline the properties are violated.

The models of compiler, VM and reference were also compared with the program itself:
random programs and sessions were compiled and run by the C++ build and by the model,
and bytecode, constants and results agreed; so were the trees and the errors of the parser.

### Mutants

Each property of a passing run is paired in `PROJECT.json` with an operator that changes
one definition the way a slip in the code would (a mark left set, a type of object
forgotten by the tracer, a captured variable not threaded through the functions in
between, a callee not counted among what a body pops, a loop that exits to its own test,
cells not cut at a call, a stack check one too late, a root left out, stacks not cleared,
a jump one byte too far, newlines of a long comment counted as one), under which the run fails.

## 5 The proofs

TLC settles small instances; the theorems hold for every value of the constants.

### EvaCollectorProofs

* `TypeCorrect`, from `TypeInv`: `TypeOK`, that the kind of every listed object
  is known, and that request, worklist and the sweep's rest belong to the phase.
* `MarksCleared` (`SweepClearsMarks`), `RootsAlwaysSurvive` (`RootsSurvive`), for all
  values of the constants, stray marks included, from `MarkInv`: the worklist holds
  the roots that are not yet marked, and what the sweep has passed is clear.
* Under `Disciplined` (`FreshMarks = {FALSE}`, no run-time object captured, no running
  function's name overwritten):
  * `MemorySafe` (`NoDangling`), from `SafeInv`. The obvious claim, that what is
    reachable is allocated, is not inductive: a sweep removes objects one at a time.
    `Kept` is what will have survived when the running sweep ends, and the invariant
    says that everything held is in `Kept` (`RootedInv`), that fields of kept objects
    stay in `Kept` (`HeapInv`), that references the collector does not follow lead to
    constants (`UntracedInv`), and that while marking, every unmarked target of a marked
    object is on the worklist (`WorklistInv`, the tricolour invariant).
  * `SweepExact` (`CollectionExact`) and `MemoryBounded` (`GarbageBounded`), from
    `ExactInv`: what is marked or waits on the worklist is reachable by traced
    references, so nothing else survives.

* `BytesCounted` (`BytesExact`), for any sizes and all values of the constants, stray marks
  included: `bytesAllocated` is the sum of the sizes of what is allocated, also while the
  VM is destroyed, and so never negative: what `operator delete` takes back is what `operator new`
  took. The sum over a set of objects would need induction; written as a sum over the
  seven kinds of the number of each (`Census`), adding or removing one object changes one
  summand (`SizeSumGrows`).

The proof of each step is per action; `NewSafe`, `RootsMoveSafe`, `FieldWriteSafe` are
the lemmas about the three ways to change the graph.

`CollectorImplementsHeap` (`HeapPromise`), under `Disciplined`: `EvaCollector` implements
`EvaHeap` under the mapping of `roots` to all the thread holds (operand stack, globals,
constants, frames, and the C++ locals of a pending `MEM`) and of `fields` to every
reference in an object, traced or not. Each step of the mutator is an abstract `Mutate`
by one lemma, `StepMutates`: if whatever thread and memory refer to afterwards was
reachable before or has just been allocated, then so is whatever is reachable afterwards,
as the reachable set is the least closed one. `SweepFree` is `Free`, because
`ReachableKept` puts all that is reachable in `Kept`; `CleanupDone` is `Close`; the rest of the
collector the abstract heap does not see. Only `SweepFree` and `CleanupDone` need the
invariants: what the mutator does is within the promise in any program.

### EvaScopeProofs

* `ScopeTypeCorrect` and `FreeVariablesThreaded` (`FreeThreaded`), for every program,
  careful or not, from `ScopeInv`: the types, the shape of the tree (`TreeInv`: a
  parent is an earlier scope, `chain` is the way to the root) and that scopes not yet
  opened are empty (`FreshInv`). `PathToOwner` is the lemma that matters: on the way
  from a scope to the owner, each scope's parent is on the way or is the owner.
* For careful programs (`~ReadThrough`, `~ShareCaptured`, `~Redeclare`), from
  `NameInv`, which says for each scope and name how `binder`, `allocInfo`, `free` and
  `cell` fit together: `GlobalsAreGlobal` (`GlobalsStayGlobal`), `CapturedAreCells`
  (`PromotedEverywhere`), `CellsAreUnique` (`OneCellPerName`).
* `SlotsAreOwn` (`NoForeignSlot`), for careful programs: `ForeignInv` says that a name
  denotes a declaration of an enclosing scope and that every function on the way there,
  not only the one of the scope, captures it; `FunctionInv` that every scope has an innermost
  function, which is what makes the `CHOOSE` of `FunctionOf` mean something.

The assumptions used are those of the modules: `ConstantsAssumption` (finite set of
addresses, positive sizes, ...) and `ScopeAssumption`.

### EvaParserProofs

`ParserStacks` (`StacksAgree`) and `ParserSafe` (`NeverCorrupt`), for every set of texts:
the parser of a generated table is safe not because its table is checked at run time but
because of the shape of the states stack, and that is what the invariant says: below the
top, states 7 (a list was opened) and 8 (it has entries) alternate, so that half the
height is the number of open lists, which is the number of tokens and of values below
the top; the kind of the top state says whether it has a token or a value of its own.
From it, `Reductions` has for each production the state that will be uncovered and so
the transition that is found. `PopPush`, `Below` and `Parity` are the lemmas about stacks and
their heights. Nothing is assumed of the texts, so this holds after every error as well,
`stoi`'s out of the middle of a reduction included.

`ParserTypes` (`TypeOK`) and `PlacesExact` (`LocationsExact`), from `PInv`, for every
alphabet that has the characters `exec` adds (`TextsAssumption`). Locations are kept by
differences, so the property needs what is not shown, the offset at which the current line
begins, and is proved of a place in any set of newlines: `PieceMoves` says that a piece of
any length, with any newlines in it, moves a right line, column and line begin to right
ones. `MatchedInside` says of each of the eight rules that it takes at least one character
and none behind the end of the text. The loop enters through `IInv`: only because a
reduction never fails and `Accept` is met with two states on the stack do the states stay
rows of the table; and because the table shifts no end, the end is behind the cursor
exactly when it is the look-ahead, so that it is never given a place.

### EvaVMProofs

`StackSafe` (`StackInArray`) and `TypeCorrect` (`TypeOK`), of `MachineSpec`: for every
image, so for every sequence of bytes, not only for what the compiler emits, and for every
stack size (`VMAssumption`: a positive number; 512 in the code). The code checks the ends
of the stack in `push`, `pop` and `peek` only, while `popN`, `OP_SET_LOCAL`, the base of a
frame and the pushes that follow pops go without; the proof is that these few checks
suffice as long as nothing undefined happens. `IInv` is `TypeOK` and `StackInArray` together, one part
for each pointer, for slots, frames and function: the write at `bp + operand` keeps the
stack a sequence because of the bound, and a frame's base is below the limit because of
the `sp` it was made from. Memory is handled by `Grows` (addresses keep their kind): what
is known of a value, a reference or an object stays known when the heap grows
(`ValueKept`, `ReferKept`, `ObjectKept`), `AppendHeap` and `UpdateHeap` are the two ways to
change it, and `NewCellHeap` the one instruction that does both, with a function that
refers to its cell before the cell is there. `ReplaceNone`, `ReplaceOne` and `ReplaceTwo`
are what instructions leave on the stack; then there is one lemma per instruction. Which
objects a collection takes back is irrelevant here (a freed object keeps its kind, and
using it is `undefined`).

### EvaCertificateProofs

`FramesBalanced` (`FrameBalanced`), `InstructionsPrinted` (`OnInstruction`) and `FramesKept`
(`WithinFrame`), of `VerifiedSpec`: for every image whose code has layouts, so for all code
objects and not the ones the runs compile, for any number of programs one after the other
and any depth of calls. None of the three is inductive, because the instruction that
breaks a frame and the return that notices are far apart. `Balanced` says that the layout
of the running code is right about the frame at `ip`, from `bp` up to `sp`; that the
layout of every waiting function is right about its own frame at its return address, up
to where its callee will have put the result (`Waits`); and that a frame of the program's
own code is at the bottom of the call stack and nowhere else, which is what makes `OP_RETURN`
find a frame and `OP_HALT` leave none for the next program, whose `exec` does not clear
the call stack. A call splits a frame in two and a return joins them again (`CallBalanced`,
`ReturnBalanced`); `StraightKeeps` and `ReplaceKeeps` are all other instructions. `KeepsCode`
says that neither the program nor a collection changes code, or the code of a function, so
that a layout stays one (`StillFits`).

The hypothesis is split where the code is: `Verified` is the compiler's part, checked
once for each image, `Orderly` that of the program, as the loop itself tests neither the types of
operands (`OP_ADD` on a number and a string pops two and pushes nothing) nor the number of arguments.
`VerifiedSpec` is checked by the run `programs`; where the compiler errs (section 6) it fails.

### EvaLifetimeProofs

`NothingIsLost` (`NothingLost`) and `CollectionsAreDefined` (`CollectionsDefined`), of
`RootedSpec`: for every image, any number of programs, any depth of calls, and whichever
allocations start a collection. This is what `EvaCollectorProofs` shows of an arbitrary
mutator, now of the instructions themselves, which pop operands before they allocate.

* `mark` is a recursive function on sets of objects. `MarksExists` shows that the equation
  has a solution, `MarksLeast` that it is the least set that holds the roots and is closed under
  `getPointers`, by well-founded induction on what is not marked yet: the one induction
  over data here, which goes through because `StrictSubsetOrdering` has a minimal element for
  each set and no predicate has to be passed.
* `LifeInv` is inductive together with the invariants of the two modules before it. `Alive`: what
  an object in memory refers to is in memory, and is a constant where the collector does
  not look. `Live`: nothing below `sp` refers to what is gone. `Anchored`: each
  function is in the first slot of its frame. The property itself is not inductive: that
  `fn` is still there after a collection follows only from the slot that holds it, and that
  the slot still holds it only from `WithinFrame`, as the functions called in between could have
  written it.
* `CollectionSafe` is the collection, `Survives` the running function in it, `AllocateRooted`
  the new object; `CellsOfRunning` and `ClassPropConstant` say that what `OP_GET_CELL` and
  `OP_GET_PROP` find behind an untraced reference is a constant or no object.

The hypothesis is split where the code is, again: `OfConstants` and `CalleesKept` are the
compiler's, `Tame` and `Orderly` the program's. The run `cell_value` shows that without `Tame`
a string is lost, and `closures` with `OverwriteCallee` that without `CalleesKept` a function is.

From the same invariant, `CollectorUnnoticed` (`Unnoticed`): the machine with the collector
implements the machine without one. The two differ only where `freed` is asked for: what an
instruction reads, casts or follows. `AllPresent` says that nothing of this is in `freed` while
the invariants hold, so that each guard means the same in both machines (`EndlessGuards`) and
each instruction is the same step (the other lemmas `Endless...`); an allocation that collects
is one that does not; and a collection that is undefined does not happen
(`CollectionsDefined`). `Load` and `Listed` do not look at `freed`.

### EvaDefinedProofs

`NothingUndefined` (`NeverUndefined`), of `DefinedSpec`: for every image, any number of programs
and any depth of calls, with a collection at any allocation. It puts the three modules before
it together: each condition of `Undefined` is refuted by one of the invariants. That no operand is
missing and no slot outside the frame follows from the layout, that nothing was taken back from
`LifeInv`; the rest from `LinkInv`, which has three parts.

* `Images`: what the disassembler has looked up is still there (code
  does not change, and globals do not shrink), what is known of the code still holds, and every function
  has the cells its code counts upon, however it was made (`Whole`).
* `Counted`: the running function has at `ip`, and each waiting one at its return address,
  the cells that are known to be there. A call is what endangers this: it shrinks the callee's
  vector under any activation of the same function that waits. `OP_SET_CELL` only adds.
* `Prepared`: on top of the stack is what is known to be there; of a waiting function nothing is
  known (`Unprepared`), as a call's result may be anything.

`Agree` and `Weaker` are about what is known on several ways to an offset. The hypothesis is split
where the code is, once more: `Verified`, `CalleesKept`, `OfConstants` and `Linked` are the
compiler's and the disassembler's, `Tame`, `Orderly` and `Typed` the program's. That a look-up of the
disassembler itself is not undefined is part of `Linked`, and checked.

### Only model-checked

`MachineSpec`, `VerifiedSpec`, `RootedSpec`, `DefinedSpec` of the composed system, `ResultRight` and
`NeverStuck`, which are about what the compiler emits (compiler and reference are recursive over
syntax, and the prover has no induction over syntax); the parser's `ParseRight` and
`ErrorPlaced`, whose reference is recursive (that a place is right is proved, that it is the
place of the first wrong token is checked); `Answers`, `AllocationServed` and `Ends`, which are
liveness under fairness.

## 6 Where the code disagrees with itself

These are runs that TLC finds violated, quoted in `PROJECT.json` with the comment the
code does not live up to:

| run | what happens |
|---|---|
| `stray_mark` | a new object may look visited; its cells are swept |
| `cell_value` | `getPointers` does not follow a cell's value; a captured string is freed |
| `global_captured` | a block that mentions a global caches it; a lambda in the block captures it as a cell |
| `misplaced` | a block with a variable among operands takes an operand's slot; a captured parameter gets the value of the last argument; captured cells are stored in reverse; each iteration of a loop leaves a value on the stack; a block-bodied function with no parameters and no locals leaves its callee below the result; a function called `main` leaves its arguments, too; a nested block that used a variable before its capture goes on using its stack slot |

The program of `misplaced` shows its seven one after the other, and ends with 107 where
the language gives 310, as the C++ build does:

```
(var k (+ 10 (begin (var d 2) d)))                           ; k is 4, not 12
(def f (a b) (begin (var c k) (lambda () (- a c))))
(var g (f 7 8))                                              ; a is 8, not 7
(var i 2)
(def h () (begin (while (> i 0) (set i (- i 1))) i))
(var b (- 100 (h)))                                          ; 0 - 0, not 100 - 0
(def m () (begin 5))
(var n (+ 100 (m)))                                          ; 100, not 105
(def main (n) (begin n))
(var x (+ 100 (main 5)))                                     ; 5 + 5, not 105
(def add (n) (begin (begin (set n 5)) (def d () n) (d)))
(var y (add 1))                                              ; 1, not 5
(+ (g) (+ x (+ b (+ n y))))                                  ; (g) is c - a, not a - c
```

Others have no run of their own:

* `(set g 0)` inside `g` drops the only root of the running function: with
  `OverwriteCallee = TRUE` the run `closures` violates `NoDangling`.
* `((lambda (x) (* x x)) 2)` ends the process: the head of a call is not analysed, and
  `scopeInfo_.at` (`src/compiler/EvaCompiler.h:735`) throws for a lambda, as for a block or a
  class, that has no scope. The test of it is commented out (`src/test/functions.h:67`). Such
  calls are among the programs of `careless`; with one in `programs`, `NeverStuck` is violated.
* A function that captures for an inner function and calls itself loses its own
  cells, which `OP_CALL` cuts off:
  `(def f (n) (begin (def g () n) (if (> n 0) (+ (f (- n 1)) n) 0)))`, called through a
  global declared before it.
* A function cannot call itself from a block in its body: the name in call position
  is not analysed, and is looked up as a global that does not exist while the
  function is compiled: `(def f (n) (begin (if (< n 1) 0 (f (- n 1)))))` does not compile.

* `-e '1 // one'`: `exec` appends its `)` to the line, where the comment swallows it, and
  the program is refused at its end, although the grammar has `\/\/.*` as nothing
  (`src/parser/EvaGrammar.bnf:15`). With `-f` a newline is added first.
* `-5` is a symbol, and so is `/*` without its end: the rule for symbols takes what the
  others leave. A number above 2147483647 throws `std::out_of_range` out of the parser.
  Errors of the text are thrown as a pointer (`throw new`), errors at the end by value.
* The way out of a loop is patched one byte too far (`src/compiler/EvaCompiler.h:353`),
  onto the operand of what follows unless that is the `OP_POP` of an enclosing block: a
  loop that is the last expression of its block leaves into the middle of an instruction.
* A constructor without parameters whose body is a block ends in `OP_RETURN` alone, and
  the bytes to return self go two before it, into an instruction: `unknown opcode`, or
  a look-up past the constants, in the disassembler. A class as a program's last
  expression leaves the function `main` as result.
* A second program on the same VM cannot read the first one's variables: the analysis
  knows only what the program itself declares and ends the process ("Reference error"), although
  `Global` has them and a name in head position, which is not analysed, is found. A native, or
  the `x` and `y` of `setGlobalVariables`, cannot be read as a value either.
* The comment "This test segfaults" at `src/test/closures.h:28` is out of date: the test's own
  assertion, 2, is what the model gives.

## 7 What is not modelled

* Logger: `DIE` prints and exits (the state `died`). Command line: it hands one program
  to one VM and prints the result, a session of length one, or of the empty program.
* What is printed: the disassembler's listing, the text of errors, values as strings.
* Malformed forms: `gen` indexes the operands of a form without looking whether they
  are there (`exp.list[0]` of an empty list). All programs are well formed.
* `classObject_`, which nothing initialises, starts as null, as in memory that was
  never used.
* `scopeInfo_` has the address of a tree as its key and is never cleared, so a tree of a
  later program may come to lie where one of an earlier program was. In the model each
  program starts with none; what a tree that is not analysed finds by such a coincidence is
  left out.
* In `EvaVM` addresses are not reused, mark bits start clear, and the threshold is left
  open; `EvaCollector` has the rest over an arbitrary mutator.
* Numbers are integers. A double's rounding, infinities and fractions are left out;
  a division that does not come out even ends the behaviour.
* Limits no small program reaches: 256 constants, 64 KiB of code.

## 8 The plan

The order of the work, most important behaviour first; the first sixteen are done.

1. `EvaHeap`, `EvaCollector`: memory safety, checked and proved.
2. `EvaScope`: agreement of the scopes, checked and proved.
3. `EvaValue`, `OpCode`, `EvaVM`: the eval loop.
4. `EvaAnalyzer`, `EvaCompiler`: the generator, on syntax trees.
5. `EvaLanguage`, `EvaSystem`: compiled programs against their meaning.
6. `EvaParser`, `EvaGrammar`: the parser against its grammar, checked and proved.
7. Collections in `EvaVM`, at every allocation.
8. `EvaDisassembler`, before every run.
9. Sessions: several programs on one machine.
10. `EvaMachine`, `EvaVMProofs`: the loop on any bytes, proved.
11. `HeapPromise` as a refinement theorem, proved (`EvaCollectorProofs`).
12. `EvaScopeProofs`: `NoForeignSlot`, by the functions on the way to the owner, proved.
13. `EvaCertificate`, `EvaCertificateProofs`: stack depths for each instruction, under which
    a frame is never popped below its base, checked for every image of the passing
    families and proved sufficient.
14. `EvaLifetime`, `EvaLifetimeProofs`: what the compiler owes the collector, checked for every
    image of the passing families, and that it is enough, proved.
15. `Unnoticed`: the machine that collects implements the one that does not, proved.
16. `EvaDefined`, `EvaDefinedProofs`: nothing undefined happens, checked for every image of the
    passing families, and what that rests on, proved sufficient.
17. The eval loop as a refinement of `EvaCollector`: the heap of `EvaVM` mapped to its
    graph, each instruction to one of its moves.
