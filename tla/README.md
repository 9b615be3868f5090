# LB_Compiler: TLA+ models, model checking and proofs

The repository is a compiler in six stages, each a program of its own that reads
the text the stage before it wrote:

    LB  ->  LA  ->  IR  ->  L3  ->  L2  ->  L1  ->  x86-64

and a C runtime (allocation with a copying collector, input, output, error
reports) that the compiled program is linked with.  `scripts/Lc` runs the stages
one after the other.  Nothing runs concurrently and nothing is persistent.  What
is hard here is of another kind: iterations that must reach the right fixpoint
and stop, results that depend on the iteration order of hash tables, caches of
facts that an instruction in between may invalidate, names that must not meet,
conventions that several stages must agree on, and all of it for every control
path of the compiled program.

## 1. Components

| component | state it keeps | operations | what makes it correct |
|---|---|---|---|
| L2 liveness (`src/L2/src/program.cpp`, `instructions.cpp`) | `genKill`, `succGraph`, `inOut` | `generate_GEN_KILL`, `generate_succGraph`, `generate_IN_OUT` | IN/OUT are the least solution of the liveness equations; the iteration ends |
| L2 interference and colouring (`program.cpp`) | `interfGraph`, `degree`, the stack, `unavailableColors`, `coloring`, `toSpillVars` | `generate_interference_graph`, `color_graph` | a proper colouring, no variable lost, no spill without need, for every hash order |
| L2 spilling and allocation loop (`program.cpp`) | `modifiedInstructions`, `numLocals`, `spilledVarIdx` | `spill`, `implement_coloring`, `replace_stack_args`, `Function::allocate` | the loop ends; the rewritten function computes with the same values as the source |
| L1 code generation (`src/L1/src/L1.cpp`) | none (one pass) | per-instruction templates, prologue, epilogue, call | the stack pointer is balanced on every path; operand order of comparisons |
| L3 instruction selection (`src/L3/src/instruction_selection.cpp`) | contexts, trees, return label counter | `load_and_identify_contexts`, `merge_trees`, `tile_trees`, `emit_L2_instructions` | merging keeps every use after its definition; tiles do not clobber operands |
| L3 label globalisation | one counter, a map per function | `globalize_labels` | labels of two functions never meet |
| IR passes (`src/IR/src/*.cpp`) | basic blocks | constant propagation, algebraic and branch simplification, loop-invariant code motion, dead code elimination (at most eight rounds), linearisation, lowering | each keeps the meaning of the function |
| LA passes (`src/LA/src/code_generator.cpp`) | `decodedCache`, check caches, fresh name counter | `encode_decode_values`, `check_allocation_access`, `generate_basic_blocks` | integers are encoded wherever the runtime looks; no access without a check; well-formed blocks |
| LB passes (`src/LB/src/code_generator.cpp`) | scope maps, `loopOf`, `loopStack` | `rewrite_scope`, `flatten_scope_nodes`, `translate_if_while` | scoping is respected; break and continue reach their own loop |
| runtime (`lib/runtime.c`) | two heaps with validity maps | `allocate_helper`, `gc`, `gc_copy` | reachable objects survive with their contents and sharing |
| parsers (`*/src/parser.cpp`, over the vendored PEGTL) | `parsed_items`, stacks of operators and open scopes, counters of arguments, indices, parameters, dimensions | `parse_file`: a grammar whose rules run semantic actions as they match | the program read is the one that was printed; no action takes what another alternative left |
| printers (`generate_code`, `to_string` of each stage) | none | the text the next stage reads | with the parser |
| command lines | none | options and files | not modelled |

The stages meet only in the text of the intermediate languages, so the conventions
carried by that text are their interfaces: the argument registers and the stack
slots (L3, L2, L1), the encoding `2x+1` of integers (LA, runtime), labels and
names (all stages).  `PROJECT.json` lists the hazards of each component at the
line where they bite.

## 2. Modules

| module | what it models |
|---|---|
| `L2Code` | the instructions of L2 as the allocator sees them: GEN, KILL, successors, renaming |
| `L2Liveness` | the liveness analysis, one action per loop body |
| `L2LivenessProofs` | theorems about it |
| `L2Coloring` | `color_graph`, one action per loop body, the hash order as a choice |
| `L2ColoringProofs` | theorems about it |
| `L2Alloc` | `Function::allocate`: the composition of the two with the interference graph, spilling and rewriting, followed by the execution of source and result side by side |
| `L2SpillProofs` | lemmas about one piece of code: the certificate that it computes what the source does, and that spilling a variable keeps it |
| `L2AllocProofs` | theorems about the allocator, from those lemmas and the proofs about liveness and colouring |
| `RuntimeGC` | `allocate_helper`, `gc` and `gc_copy`, one action per word copied, with the compiled program as environment |
| `RuntimeGCProofs` | theorems about it |
| `LACode`, `LAEncode`, `LAChecks` | the instructions of LA; `encode_decode_values`; `check_allocation_access` and `generate_basic_blocks`; one action per loop iteration |
| `LAPasses` | the three passes one after the other, then source and result side by side |
| `LAProofs` | theorems about them |
| `LBLowering` | the instructions of LB; the renaming of scopes and the lowering of loops |
| `LBPasses` | the LB passes one after the other, then source and result side by side |
| `LBProofs` | theorems about them |
| `IRCode`, `IRConstProp`, `IRSimplify`, `IRLower` | the functions of IR and their graph, constant propagation, algebraic and branch simplification with dead code elimination, loop-invariant code motion, linearisation and lowering to L3 |
| `IRRun` | what functions of IR and the L3 code made of them do when they run |
| `IRPasses` | the IR compiler, then source and result one after the other |
| `L3Code`, `L3Labels`, `L3Tiles`, `L3Select` | the instructions and trees of L3, label globalisation, merging and tiles, the loops of instruction selection, the emission of L2 |
| `L3Passes` | the L3 compiler, then source and result side by side |
| `CallFrame` | the stack of the compiled program, as L3, L2 and L1 lay it out |
| `CallFrameProofs` | theorems about it |
| `Peg` | the rules of PEGTL the grammars use: what matches, and which actions run; the trees of the parsers, the stacks and counters of their actions, and the writing of a tree |
| `LowTexts`, `MidTexts`, `HighTexts` | grammar, actions and printed form of L1 and L2, of L3 and IR, of LA and LB |
| `X86Code` | what L1 writes for each instruction, and the processor that runs it next to L1 itself |
| `FrontEnds` | a program through its text: printed, laid out, read; if it is L1, translated and run |
| `MC...` | the instances for TLC, each of the module of that name |

Each module carries a few operators marked *variant*: an operation with a plausible
mistake in it.  No specification uses them; put in the place of the operation
they show that the property named in `PROJECT.json` notices the mistake.

### Instructions (`L2Code`)

An instruction is a record with a destination, two source operands, a number and a
label.  The classes of `instructions.h` are grouped by what they read and write:
`AssignmentInstruction` is `Move`, `Load`, `Store` or `StackArg` according to its
operands; `ArithmeticInstruction` and `++`/`--` are `Update` (so is `x += mem y n`, which
reads both registers; `mem x n += y` reads both and writes none, a `Store`); `CompareInstruction` and `LeaInstruction` are
`Compute`; the calls of the runtime are `Call` with their number of arguments
(`allocate` is `Call(Imm, 2)`, `print` `Call(Imm, 1)`, `input` `Call(Imm, 0)`), and
those that do not return, `tuple-error` and `tensor-error`, are `ErrorCall`.
Numbers, labels and function names used as operands are all `Imm`: no pass of the
allocator looks at them.

### Liveness (`L2Liveness`)

`code`, `succ`, `ins`, `outs`, `idx` and `changed` are `instructions`, `succGraph`, the
two halves of `inOut`, `i` and `changeToInOut`.  `Analyze` builds the successor lists and
clears the sets, or `LabelNotFound` stands for the exception of `findLabelIndex`; `SweepStep`
is the body of the inner loop, `SweepAgain` and `Converged` the two outcomes of
the loop condition.

### Colouring (`L2Coloring`)

`Simplify` and `PushRest` are the bodies of the two loops that take nodes out,
`Select` and `MustSpill` those of the loop that colours them.  Of several
candidates of equal degree the code takes the one the `unordered_map` presents first;
the model takes any.

### Allocation (`L2Alloc`)

The phases follow the loop of `allocate`: `AnalyzeLiveness` (steps of `L2Liveness`),
`BuildGraph`, `ColorGraph` (steps of `L2Coloring`), then, for each variable of
`toSpillVars`, `SpillInstruction` for each iteration of the loop of `spill` and
`SpillNext` for its end, or `Rewrite` when nothing is to be spilled.  `newInstructions` and `next` are the locals
of that loop.  The code counts spill temporaries without end; the model has those of `SpillName`, and
the guard of `SpillInstruction` stops when they are used up, which no run does.  Then `source` and the
rewritten `code` run side by side, taking the same branches.  Instead of values
the state records, for each register and slot, the set of source locations
whose value it holds now; for an instruction that is not a copy the value is new, so only its
destination has it.  `AllocationSound` demands that whenever the result is
about to run the image of a source instruction, it is of the same kind and every
operand the source reads, if it has been given a value, is in the register the result
reads.  That is the correctness of the whole stage: a wrong liveness set, a
missing edge, a bad colour, a wrong slot, temporary or stack argument offset all
end in a read of the wrong value on some path.  `RunSpillCode` and
`RunInstruction` model the machine, not code of the repository.

What the model takes for granted the code takes for granted too: no variable of
the source has the name of a spill temporary, and those names are distinct (`SpillNamesAssumption`);
the source names rsp only to pass arguments, below it, and by `stack-arg` (`StackAssumption`): the words
above rsp are the slots; every register is in the list of those to try (`ColorOrderAssumption`); a call
destroys rax.  `Instructions` are the well-formed instructions: a label, a jump, a call and a return have no
destination, and a shift amount is a variable, rcx or a number, as the grammar of L2 has it.

### Heap (`RuntimeGC`)

`cur` says which of the two heaps `heap` is; `data` are the allocated words of
each, so that `words_allocated` is a length; `valid` are the marks of
`valid_map`.  The marks are never cleared by the code, so those of words that are not
allocated are assumed to be all set, the worst case.  gc_copy is recursive: `calls`
are its activations, `CopyObject` enters one, `CopyWord` copies a word that leads
to no new object, `CopyReturn` leaves.  `before` remembers what a collection found.
`Program` is the environment: it assigns, stores fields, pushes and pops.  A pushed
slot keeps what it held before, which the collector scans but the program (`live`)
does not read; the stale pointers this makes are the point of the instance.
The words of the heap not in use are dropped at the end of an allocation, since
nothing reads them.

### LA (`LAPasses`)

`EncodeValues`, `CheckAccesses` and `FormBlocks` are the loops of the three
passes, the `Start` actions what is done between them.  `cache` is
`decodedCache`, and `counter` the fresh names, which each pass starts again.  Of the
types, the module keeps the question whether a variable is `int64`.  In
the side-by-side run `holds` records for each variable of the result which
source variables it has the current value of and in which form (encoded,
decoded, shifted but not yet tagged), or which comparison; `facts` are the checks that
have succeeded on values that have not changed since.  The line number of an
instruction is its place in the source.  If a label occurs twice a branch may go to
either place: the later stages decide, each in its own way.  One function is
compiled; in later ones the names start at higher numbers.

### LB (`LBPasses`)

The tree of scopes is a sequence with marks where a scope opens and closes;
entering and leaving one are the calls and returns of `rewrite_scope`.  A name is
a word and the numbers behind its underscores, so that `x_0` is both a name
someone may choose and the first renaming of `x`.  `Binding` and
`LoopAround` say what a name and a `break` mean in the source, from the
positions of declarations and labels, without the maps and the stack of the code.
The nodes of `while` and `if` carry their condition as the list of names in it.

### IR (`IRPasses`)

One action is one sweep of an analysis (`SweepFacts`, `SweepDominators`,
`SweepLiveness`), one pass over all blocks (`PropagateConstants`, `SimplifyAlgebra`,
`EliminateDead`, `Linearize`), one round of `BranchSimplify::run`, one back edge
(`HoistAlongEdge`) or the lowering of one label, instruction or terminator.  `changed` and
`iteration` are those of the driver: it builds `cfg_graphs` again after some passes
only, and stops after eight rounds.  The sets of one analysis are emptied when its pass is
over; the code makes them anew for each pass.  `cache` in `IRLower` is what the
visitor keeps from one instruction to the next: the counter of names and the three caches.
A fold over blocks goes through `Along`, which computes each intermediate value once.

`IRRun` gives both languages a meaning: the source runs and leaves the `trace` of its calls and its
return, each with arguments and heap, then the result runs against it.  An address is an
object and an offset, so that a load through an address the lowering computed
is one of a word of the right object, or of no word.
An undefined value of the source agrees with every value, and source runs that
use one as an address, leave an object or go on for too long are given up.  In the
result an address inside an object is undefined after a call, as the
collector does not update those: `HeapsAgree` demands that the caches of addresses
are cleared there.

### L3 (`L3Passes`)

A name is a word with what the compiler puts behind it, so that labels of the
source, of the compiler (`:__label__3`) and of returns (`:f_ret0`) are told apart by what they are
made of.  A tree is a node with a type, a name or number and its children, as in
`TreeNode`; the type of an operator is the operator.  `LoadInstruction` puts an
instruction in a context and makes its tree at once, which the code does in a
second loop.  `Mergeable` are the neighbours `can_merge_trees` accepts; `TileNode` takes a
subtree off the stack, and its code goes in front of what there is.

After the emission one function of the source and of the result run by turns: the
source until it stores, calls, branches, passes a label or returns, then the
result until it does (`effect` is what the source did and the result owes).
Values are the expressions that compute them: two numbers are computed with,
everything else is compared as a term, up to the order of commutative operands
and the direction of a comparison.  A load is told from one before an earlier effect.
A branch on anything but a number goes both ways.
`SameEffects` demands that the effect be the same, with the same values: the
correctness of the whole stage, for any merge, tile, temporary, register or slot
that goes wrong ends in a wrong value of some effect.

### Stack (`CallFrame`)

Here the machine runs and the compiler is in the layout of its code: `PassArg` and
`PassReturnLabel` are the stores L3 emits for a call (registers, the first six arguments, are checked
in `l3_passes`), `CallInstruction`, `Prologue`, `Epilogue` and `Return` what L1 makes of a
call, a function and a return, `Go` and `GoReturns` the code around the entry point,
`SpillStore` a write to a slot of L2, `ArgumentAt` the place where L2 reads a `stack-arg`.
`mem` has the words that are defined; the runtime, C code, leaves nothing
below rsp defined.  `frames` is a history variable: what each call was given and
has stored.  Words count instead of bytes.  A call passes as many arguments as the callee has, which
no stage checks.

### Texts (`FrontEnds`)

A text is a sequence of pieces: words, digits, blanks, single signs.  A grammar is a record
from the names of the structs of `parser.cpp` to expressions, and `Parse` runs it the way
PEGTL does: alternatives in their order, no way back into a rule that has
matched, `must` instead of failure where it is written, and the actions at
once, so that what an alternative pushed stays when it fails.  A struct that derives from
another does not run the other's action.  The tables that end in `Actions` say what
the short actions do (push a node, push an operator, count, or pop some nodes and build one), the
operators of `L1Apply` and so on what the others do.  The tables that end in `Form`
say what is printed for a node; LB prints itself (`to_string`), every other language is printed by the stage
above it.  Wide numbers, names of several words and the wording of errors are left out: the
pieces are what the grammars tell apart.

`sizes` is a history of the heights of the stacks; with it `robbed` is the set of rules
whose action went below the height at which the match of its rule began.

Six parsers of five thousand lines, and the printers, are in five modules because
the grammars have much in common: a table of L2 is that of L1 with some
entries replaced, and so on upwards.  Where the code of two stages is the same text twice, the definition of
one names that of the other.

### x86-64 (`X86Code`)

`Code` is what `generate_code` writes for an instruction.  `cpu` runs it one instruction at a time, with flags, the low
byte of a register and words of `WordBits` bits; `ideal` is L1, which takes its step with the first
instruction of the code of each of its own.  Between two instructions of L1 both
must agree in every register and every word of memory.  The processor and the meaning of
L1 are external; calls and returns end a run here, since `CallFrame` has them.

## 3. Runs

| run | instance | size | shows |
|---|---|---|---|
| `l2_liveness` | all 1728 bodies of three instructions out of twelve, closed by a return, and four larger programs (branch in a loop, two nested loops, a loop that is never left, two jumps back in a row) | 15 thousand states | the solution is reached, is exactly "a use is reachable", sets only grow, the iteration ends |
| `l2_coloring` | all 1024 graphs over two registers and four variables, two of which may be adjacent to registers; all hash orders | 33 thousand states | proper colouring, exact degrees, nothing lost, spills only when blocked, no spill of a graph that can be simplified, the function returns |
| `l2_alloc` | nineteen functions, four registers, three of them destroyed by calls, two argument registers; all hash orders and all paths of execution | 120 thousand states | the allocation loop ends, only registers are left, the result computes with the source's values |
| `runtime_gc` | heaps of six words, two slots, objects of at most two fields; every behaviour of the program | 418 thousand states | no overflow, no dangling pointer, contents and sharing preserved, everything else reclaimed, a collection ends |
| `la_passes` | all 729 loops around three instructions of nine, and four larger functions (two dimensions, a tuple, calls, code no label leads to) | 94 thousand states | same meaning on all paths, each access checked as it is made, the right access blamed, well-formed blocks |
| `lb_passes` | all well-nested bodies of six items over two names in a scope, all orders of the parts of two loops with a break or continue anywhere, a function with three loops, ifs and a goto | 395 thousand states | two names are the same in the result iff they mean the same in the source; each path of the result follows the source |
| `ir_passes` | 16 loops around two instructions, 48 joins of constants, all 216 sequences of three accesses to arrays of two dimensions, tuples, three dimensions, 18 graphs of empty, cyclic and unreachable blocks | 41 thousand states | same calls, results and heap, the graph is current where it is used, compilation ends |
| `l3_passes` | 310 loops over three instructions of eight, two functions with calls of every kind, eight parameters and labels in common, a body of merged definitions with all operators | 40 thousand states | all trees have tiles, labels are distinct, each path has the effects of the source with the same values |
| `call_frame` | three functions of no, seven and eight parameters and up to two slots, calling each other and themselves three deep | 1.4 million states | the callee finds its arguments, the caller its variables, rsp is balanced, callee-saved registers are restored |
| `front_ends` | for each of six languages every statement alone, in front of another of a few kinds, two statements with lists, and a second function; as printed and with a comment on each line, LB also on one line; each statement of L1 from every machine of a small set | 39 thousand states | the program that is read is the one that was written, but for the texts listed below; actions take what is their own; the processor computes what L1 says |
| `la_raw_across_allocate` | the loops of `la_passes` | violation | an unencoded number is live across `allocate` |
| `l3_lost_definition` | a loop with `%i <- %i * 2` and one other use of `%i` | violation | `%i` is not updated |

What the violations say of the code.

* `encode_decode_values` keeps a decoded copy across `new Array` and `new Tuple`;
  `lib/runtime.c:9-16` asks that no unencoded number be on the stack or in a
  register then.  A number that looks like the address of an object would be changed.
* L3 merges the assignment of a variable into the next instruction if no *other* tree
  reads the variable.  The tree itself may read it, in the next turn of a loop, and
  the next instruction may read it twice; if the tile chosen is the lea, the
  assignment is gone.  `:l  %i <- %i * 2  %b <- %i + %a  br :l` computes `%b` from
  the first `%i` for ever.

The last one was also seen on the built compiler.  There are faults without a run
of their own.  In LA a number in a call through a variable stays as it is while the callee decodes its
parameters, so that `f(5)` passes 2 (`LA/src/code_generator.cpp:220`).
LB's `rewrite_scope` renames `x` to `x_0` without a look at parameters and functions:
`int64 f(int64 x_0) { int64 x  x <- 7  return x_0 }` returns 7 (`LB/src/code_generator.cpp:178`).
`generate_basic_blocks` gives statements after a return or a branch a block with a new
label, and starts its numbers again.  Labels are reserved with their colon (`LA/src/code_generator.cpp:299`) and looked up
without it (`:34`), so that the new label may be one of the source, or one that the checks have put there:
in `x <- a[1]  print(x)  return  print(15)  return  print(16)  return` the null check that succeeds
goes on at `print(16)`.  With such a source TLC finds `ComputesTheSame` violated; those of
`la_passes` have no access in a function with statements that nothing leads to.
(All three were seen on the built compiler.)
`loop_licm` moves an assignment out of a header if it is the only one in the loop
to its variable, without a look at uses of the variable in front of it:
`:h  call f(%x)  %x <- 5 ...` passes 5 to the first call (`IR/src/loop_licm.cpp:502`).
IR notes the types of variables in the order in which blocks are placed, so that a tuple used in a block
placed before that of its declaration is addressed as an array
(`IR/src/codegen_visitor.cpp:434` and `:464`); and a condition other than 0 and 1
is true for constant propagation but not for the L3 branch.
In L3 redefinitions are looked for strictly between the two
trees, where there never is one (`%b <- 1  %b <- %a + 2  %c <- %b + %b` is merged from
the left and computes `%c` from 1), and `%scratch` is used without a look at the
names of the function.  The passing runs leave
all these sources out (for L3 by
`DropsDefinition` and `AssignsTwice` of the MC module, and no variable is named
scratch).  Two loops that share an end label are not among the sources
either: which loop a `break` after that label belongs to, no document says.

Bounds.  Three instructions and a return, with one label, give forward and backward jumps,
unreachable code, loops around every kind of instruction and jumps to a missing label; the larger
programs add nesting, where several sweeps are needed.  Four variables are the least
for which a node of degree two (the number of registers) may or may not get a
colour (cycle and complete graph).  Six words hold two objects, so that a full heap, cycles, sharing and
collections in a row occur, and a pushed slot may be stale by several collections.  Three instructions
in a loop are enough for a fact to be cached, made stale and used, in each order and
around the back edge.  Six items hold two nested scopes with a declaration and a use, or one
with four declarations and uses around it.  In `l2_alloc` one of the four registers is callee-saved
and live throughout, so three live variables fill the registers and four
force a spill; sources contain two and three shifts whose amounts compete for rcx.
There is one source per mechanism and not all short programs, because the
temporaries of a spilled variable have equal degrees and the hash order makes
their permutations distinct.

`LiveIffUseReachable` compares with reachability along the edges on which a value
survives, one location at a time and in as many rounds as there are instructions, and so does not repeat the
equations it checks.

In `l3_passes` a run ends after eight effects (`MaxEffects`): a loop of three
instructions with its label has at most six, so every body is run and entered again.

In `ir_passes` parameters are 0 or 1 (`Inputs`), so both branches of a condition and both lines of an array
are taken; a call returns 0 or 2 (`CallResults`), which tells its result from the parameters; the loops
end within `MaxSteps`, 40 steps.  Three accesses let an address be cached, an index, base or heap
change, and the address be used.  `kMaxIterations` is that of the code; the sources settle in fewer rounds.
A loop's header reads nothing that the header writes later: see the early assignment above.

In `front_ends` a statement is one of each alternative of the grammar with operands of
each kind it admits.  One alone shows whether it comes back, two in a row what the first leaves on the
stacks and in the counters, and whether it takes a part of the second; a second function shows that the
first stays as it was.  Words have eight bits and the low byte of a register four, so that wrapping
arithmetic, signs and the part of a register a comparison does not set are all seen; the numbers are small
ones and those next to the ends of both ranges.  A literal fits in a word: the code writes any 64-bit
number as an immediate, which the assembler takes for `movq` to a register only.

In `call_frame` seven parameters are the least that use the stack and eight the least where their
order matters; the other numbers of parameters, and deeper calls, are what the proof is for.

Deadlock checking is off: each run models a function that returns (or a
compiled program that stops).

Type invariants are checked where a proof rests on them (`l2_liveness`, `l2_coloring`,
`call_frame`: theorems `TypeCorrect`, and a run in `l2_liveness`); in the other runs the comparison of source and result would not
survive a value of a wrong type.

What is not read back.  `ReadsBack` says exactly which texts the grammars cannot tell from others:

* IR: a function used as an operand of a call, an index, an operation, `return` or `new Array`.  LA prints
  its name as `@g` wherever it is used (`LA/src/LA.cpp:28`), IR's grammar takes one where a
  value is assigned, stored or called only.
* LA: a statement that begins with a name that begins with `int64`, `tuple` or `code` is read as a
  declaration, a value that begins with `length` as a length.
* LB: a call of a function whose name begins with `return`, `break` or `continue` is read as that word and a
  call of what is left of the name; `return` and `x <- length t` take the first word of the next
  statement for their operand, since line breaks are white space, unless a comment stands
  in between.

A grammar that does not end in `eof` (L3, IR, LA) then keeps the functions read so far and reports no error.
No document of the repository promises more, so these are parts of the property and no run of their own.

Fairness.  `FrontEnds` needs none, as nothing there is about what must happen.  The stages are sequential programs: `WF` of the next-state relation
(of `IRPasses` as a whole, where execution is bounded; of `Allocate` in `L2Alloc`, of `Runtime` in `RuntimeGC`) says that they go on
while they can.  Nothing obliges the compiled program to leave its loops or to
call `allocate`, so its steps have no fairness.

Limits of the liveness result.  `Terminates` of `L2Alloc` rests on
`OnlySourceVariablesSpill`: a temporary always gets a register.  It does for the code L3 emits.
An L2 function written by hand that reads rcx after a shift by a variable, with no
assignment to rcx in between, keeps rcx live at the shift; the temporary with the
amount then conflicts with every register and is spilled again in every
round.  Such sources are not among those checked.

## 4. Proofs

For every set of programs, every set of registers and names:

* `L2LivenessProofs`: `TypeCorrect` (`[]TypeOK`), `SolvedAtTheEnd` (`[]Solved`) and
  `NeverAboveLeast` (`[]Least`).  `Solved` is not inductive; the strengthening
  `SolvedSoFar` says that in the middle of a sweep in which nothing has
  changed yet, the equations hold for all instructions already visited: a set that
  stays as it is keeps the equations of the others.  `Least` is inductive:
  one step of the sweep applies a monotone operator to sets below a closed family.
  Together: what `generate_IN_OUT` returns is the least solution.  `LiveIsUseReachable`
  (`[]LiveIffUseReachable`) says what that solution is: `ReachedIsLeast` proves that `ReadsReached`, which walks from the
  reads of a location against the edges for as many rounds as there are instructions, is the least set that has the
  reads and is closed backwards (it grows in each round or is finished, and there are no more instructions), and the solution and
  that set are each within the other.  `SetsGrow` (`SetsOnlyGrow`) is an action property: each `IN` and `OUT` is
  computed anew, and contains what was there because no set is ahead of its equation (`Behind`).
* `L2ColoringProofs`: `TypeCorrect`, `ColoringIsProper` (`[]ProperColoring`),
  `DegreesAreExact` (`[]DegreeExact`), `NothingLost` (`[]Complete`), `SpillsAreForced`
  (`[]SpillOnlyIfBlocked`) and `SimplifiableIsColored` (`[]SimplifiableNeverSpills`).  The first rests on
  the invariant that the colour of a variable is in the `unavailable` set of
  each neighbour; the degrees on the invariant that removed nodes are exactly
  those on the stack with degree below zero and that the others count their
  neighbours off the stack; the third on the stack, the coloured and the spilled
  variables being a partition.  `BlockedInv` says the reverse of the first: a register is unavailable to a
  variable only because a neighbour has it, and a variable was spilled when all were unavailable.
  `SimplifiedInv` says that each variable on the stack had, when it was pushed, fewer
  neighbours below it than there are registers, so that one is free when it is popped; that the loop never has to
  push anything else uses the hypothesis on the graph for the set of all that is left.
* `L2AllocProofs`: `GraphsAreWellFormed` (`[]GraphIsWellFormed`), `VariablesAreGone`
  (`[]OnlyRegistersLeft`) and `AllocationIsSound` (`[]AllocationSound`), for all sources, registers,
  hash orders and numbers of rounds: the correctness of the register allocator.  The argument is below.
* `RuntimeGCProofs`: `HeapsNeverOverflow`, `NothingDangles`, `CollectionsKeepTheGraph` and
  `CollectionsReclaim` state the four invariants of `runtime_gc` for heaps, stacks and objects of every size
  (`BoundsAssumption`: the sizes are natural numbers and there is at least one slot).  The argument is below, too.
* `CallFrameProofs`: `TypeCorrect`, `ArgumentsAlwaysArrive`, `LocalsAlwaysSurvive` and
  `AlwaysBalanced`, for all numbers of parameters and slots and calls of any depth.  The
  inductive invariant says of each call that has not returned that its variables, arguments and return address
  are in its frame (`FramesStored`), that frames lie one right below the other
  (`Adjacent`, `Ordered`), the first below the registers `go` has pushed, and where
  rsp is in each phase (`Position`).  A step writes below rsp, or in the last
  frame, and so leaves the frames above as they are (`KeptAbove`); the other properties say
  something of the last frame only, but after a return the last is one of those.
* `LBProofs`: `NamesKeepTheirMeaning` (`[]ScopesAreRespected`) and `ResultFollowsSource` (`[]InStep`), for bodies of any
  length: the correctness of the three passes of LB, for what the assumptions of `LBPasses` ask of a body.  The argument is
  below.
* `LAProofs`: `BlocksAreAlwaysFormed` (`[]BlocksAreFormed`) and `AccessesAreChecked` (`[]AccessIsChecked`), for functions of
  any length and accesses with any number of indices: the caches never make the pass leave out a check that some path
  still needs.  The arguments are below.

How the allocation is proved.  `AllocationSound` speaks of the run, and what makes it true is established rounds
before.  The inductive invariant (`AllocInv`) therefore carries a certificate from the first state on
(`Certifies`, in `CodeInv`): a witness that says for each instruction of the code at hand which source instruction is
due there (`org`), and which source locations have the value that a location (`has`) or a slot (`slot`) of
the code holds.  Each load or store of a slot and each image of a source instruction must agree with what is claimed
after it, on all its successors.

1. The source certifies itself (`SourceCertified`).
2. Spilling a variable keeps the certificate (`SpillCertified`): the witness for the new code is made from the old
   one.  The variable's value moves to the new slot, the temporary of an instruction has it in that
   instruction only, and jumps go to the image of where they went.  `SpillInv` relates the loop of
   `spill` in the middle to the code it will make (`Expanded`), with `ExpandOne` for one iteration; that no variable of the
   code has the name of a temporary to come is part of `CodeInv`.
3. Until the first variable of a round is spilled, the sets are those of the code and solve its equations, and the graph
   is that of the sets (`AnalysisInv`, `GraphInv`).  These two take over the invariants of `L2LivenessProofs` and
   `L2ColoringProofs` through INSTANCE: a step of the analysis inside the allocator is a step of the module
   proved about (`SameSteps`).
4. At `Rewrite` every location that matters has a register, another one than any value its assignment would destroy, and rcx if
   it is a shift amount (`AssignmentHolds`: a proper colouring of this graph).
5. While the function runs, `Together` holds: each location that is live has in its register what the certificate says,
   and so has each slot.  Liveness is what makes this inductive: a value that an instruction destroys is
   live behind it only if the graph has the edge (`SlotStep`, `InstructionStep`).
6. `TogetherIsSound`: what an instruction reads is live in front of it.

The witness is existentially quantified, so TLC cannot check the invariant itself; it
checks what follows from it.

How the collector is proved.  `IInv` is `TypeOK`, `NeverOverflows`, `HeapInv` and, while a collection runs,
`CollectionInv`.  `HeapInv` speaks of the program's own states: the objects lie within the heap and do not overlap, and
what they and the written slots point to is an object of the current heap.  `CollectionInv` has six parts:
`SnapshotInv` (the state the collection started from, which `before` keeps, was such a state), `OldHeapInv` (an object that
was moved has the mark and the forwarding pointer in its first two words, everything else in the old heap is as it was),
`NewHeapInv` (the copies lie side by side without a gap and hold exactly as many words as the moved objects), `CallsInv`
(each activation of `gc_copy` copies a moved object of its own, the one the word leads to that the activation below it, or
the loop over the roots, has come to), `WordsInv` (a word of a copy that has been passed is the image of the snapshot's word,
and what it leads to has been moved) and `RootsInv` (the same for the slots done so far and the fill value).  Only reachable
objects are moved, each once, and so the copies need no more room than the originals had: `gc_copy` does not test for room,
and this is why it need not.  When the last root is done every
pointer in the new heap leads to a copy, so all reachable objects have been moved, and the map from objects to copies is
the isomorphism `GraphPreserved` asks for.

How the passes of LB are proved.  A body is a sequence, and what the passes compute for it is proved by induction over its
places: a set of naturals that is not empty has a least element (`HasLeast`), so there is no first place where the claim
fails.

1. `ScopesInv`: the map of each open scope holds the declarations of that scope that are still visible, each under its new name;
   a counter counts the declarations of its name (`MapIs`, `Declared`); `out` is the source with each name replaced by the
   new name of what it means (`RenamedItem`).  That a scope closes is what needs `Level`: what was declared in it is not
   visible any more, and what it hid is again (`LeavesScope`).  `NewNamesDiffer`: two declarations of one name have
   different numbers, and declarations of different names differ before the last number.
2. `FlattenedIs`: `Flat` keeps the instructions and their order.
3. `LoopsInv`: `loopStack` holds the loops around the next instruction, in the order in which they began (`StackIs`).  Loops need not
   be nested, so an end label may take one out of the middle (`StackNext`).  The last on the stack is therefore
   `LoopAround`, which is what `loopOf` records (`LoopsFound`).
4. `LowerInv`: `out` is what stands for the instructions lowered so far, one after the other (`Lowered`, `Start`, `Part`).
   `CondLabelFresh` counts: at most as many numbers are taken as there are labels, so that `fresh_label` finds one for each while, and no two
   get the same.  `CondTmpFresh` is the pigeonhole principle.
5. `RunInv`: the source is at instruction p and the result at one of the parts that stand for p (`At`).  A label of the source is at one place
   of the result only (`LabelStands`), the label of a comparison too (`CondStands`), and so every jump leads to the parts
   that stand for where the source goes.

How the blocks of LA are proved.  The inductive invariant (`LaInv`) says of each of the three passes how far it is:
`Passed` holds if each label of the instructions passed is in the output, and each jump of the output leads to a label of
the output, to one the pass is still to come to, or to a label owed (`Pending`: the shared error label, from the first check for
null until `CheckResult` appends its block).

1. `PassedOn`, `Rewritten`, `Replaced`: an iteration that writes the instruction with other terms, after code that only
   computes, keeps `Passed`.  What `encode_decode_values` inserts only computes (`DecodeIs`, an induction over the terms
   of the instruction).
2. The check of an access jumps to labels it brings along or to the error label (`NullCheckIs`, `BoundsCheckIs`, and
   `BoundsChecksIs` by induction over the dimensions).
3. At the end of a pass there is no label to come, so the output uses labels it has, and is a source for the next pass
   (`PassedAll`, `StartOfPass`).  `CheckResultIs`: with the error block nothing is owed.
4. In `generate_basic_blocks`, `InBlocks` holds as well: the blocks so far are in form, and the last one is closed exactly if
   `afterTerminator` is set; `BlockResult` closes it.

This much does not depend on which names are fresh: a label made up may be one of the source (section 3), and still every jump
has a place to go.  That it is the right place is `ComputesTheSame`.  TLC has checked `LaInv` on the instance of `la_passes`.

How the checks of LA are proved.  `AccessIsChecked` speaks of the path the run has taken, and the check it asks for may have been
written for another access, or for another one of the same cache entry, long before.  As for the allocation, the
invariant (`AccessInv`) therefore carries a certificate on from the pass that establishes it, here a set of claims in front
of each instruction.  A claim is that a check has succeeded, or that a variable holds the
outcome of a comparison or a length (`Flows`, `Leads`).  An instruction must agree with the claims on both sides of it: a write takes away
what speaks of the variable, a call of the source takes away everything (the one of an error does not return, so that anything may
be claimed behind it), a branch owes each label what is claimed there.  `Owed` gives the claims at a label that is made up; at a label of the source nothing is claimed.
`Never` is claimed where nothing comes, behind a terminator, and allows no run.

1. `EncodingOk`, `CodeOk`: each instruction `encode_decode_values` writes stands for one of the source, declares a variable or
   computes, and every declaration is still there.  So `collect_var_types` finds the types of the
   source (`TypeIs`), and the indices the pass checks are all the access has (`IndicesChecked`).
2. `CheckOk`: what `check_allocation_access` has written leads to `Known`, the two caches read as claims.  A check that is written leads
   to its claims (`NullCheckLeads`, `BoundsCheckLeads` for one dimension, `BoundsChecksLead` by induction over them), one that is left out has them
   in a cache (`NeededKnown`), and what `Without` leaves in the caches is what an instruction
   does not destroy (`KnownKept`).  At labels and terminators the caches are emptied (`BoundaryStep`).
3. `BlocksOk`: `generate_basic_blocks` keeps the certificate.  The labels it makes up are claimed nothing, even where one of them
   has a number that is in use already.
4. `RunOk`: the run meets the claims of the place where it is (`RunStep`), and in front of an access these are the checks
   it needs (`RunChecks`).

The certificate is existentially quantified, so TLC cannot check `AccessInv` itself; it checks `AccessIsChecked`.

The maps of the code were written with the operators `:>` and `@@` of module TLC, of which the prover knows nothing; `Put` of
`LBLowering` and `SetTo` of `LAPasses` say the same.  `Fresh` of `LACode` is a recursive function for the same reason: the numbers `fresh_codegen_var`
takes are distinct and free by induction over the calls.
Of the proof for LB, step 5 needs that a function has finitely many parameters (`ParamsAssumption`), and step 1 that no free name looks
like a renaming: without it the property is false, as section 3 says of `rewrite_scope`.

The proofs found that three definitions had CASE arms that overlap, `Argument` of `RuntimeGC`,
`Branch` of `L2Alloc` and `IndicesToCheck` of `LAChecks`; which arm holds is then open, and they are written with IF or disjoint guards now.
`Instructions` admitted a call with a destination, for which the certificate is not preserved; the parser makes
none.

Assumptions: `BoundsAssumption`, `FunctionsAssumption`, `SitesAssumption`, `AccessesAssumption`, `RegistersAssumption`, `NamesAssumption`, `ProgramsAssumption`, `ColorsAssumption`,
`GraphsAssumption`, `LabelsAssumption`, `ParamsAssumption`, `SourcesAssumption`, `StackAssumption`, `ColorOrderAssumption` and
`SpillNamesAssumption`, each in the module that declares the constants.  TLC evaluates them in the runs.  That
`generate_interference_graph` meets `GraphsAssumption` is the theorem `GraphsAreWellFormed`; that return labels are distinct
(`SitesAssumption` gives each one caller) is `LabelsAreDistinct`, checked in `l3_passes`.

`SourcesAssumption` of `LAPasses` asks that a function is a sequence of instructions with every label it jumps to: the compiler
does not look, and a label that is not there is not there in the result.  `AccessesAssumption`, which only `AccessesAreChecked` needs,
asks more.  What a load or store accesses is declared as an array, or as a tuple
and then has one index: the pass checks the first index of a tuple and none of anything else, and relies on
LA code that is typed; without this the property is false.  No label of the source looks like one that is made up: `:new_var_0` in the source is a
name `fresh_codegen_var` avoids only in the first two passes (section 3), and the certificate tells the labels of the source, at which it claims
nothing, from the others by their names.  The rest (what is
written or accessed has a name, a label instruction has a label) is what the parser builds.

Only model-checked: everything about the modules of IR and L3; of LA, `ComputesTheSame` and `ReportsTheAccess`
(they relate two runs: the certificate of `AccessIsChecked` would have to say as well which value of the source each variable
holds, encoded or decoded); `OnlySourceVariablesSpill`, which does not hold of every source
(see the end of section 3); the front ends and `X86Code` (`Write` is recursive, and what a grammar matches is an induction over texts);
the termination properties and whatever else speaks of fairness.  `FrontEnds`, `X86Code`, `IRPasses` and `L3Passes` reach
recursive operators (`Write`, `Stride`, `MergeTree`), which the proof system cannot use.  Recursive functions over naturals can
be reasoned about, by `HasLeast`, one at a time: a lemma for all of them would have an operator as its parameter.

## 5. Not modelled

Command lines and files (the drivers call the parser, the passes and the printer in turn, which the
modules of the stages do); `IR/src/gvn.cpp`, which the driver does not call, and the GEN and KILL sets of
`const_prop.cpp`, which nothing reads; scripts and container files.
Values have no width: that a cached decoded result has 64 bits and a
re-decoded one 63 is not visible here.  In IR and L3 constants that overflow and shifts by 64 and more
are therefore left out.  Of L1 the alignment of rsp at calls of the runtime and the width of immediate
operands are not modelled, nor that `:x` and `@x` are one name to the assembler (`L1/src/L1.cpp:11`; L3
gives labels names of its own).  An allocation of 2^31 words and more, for which the `int` sizes
of `lib/runtime.c:352` are too narrow, is out of the model's range.

## 6. Plan

Done: all six stages with their front ends, the runtime and the stack, with proofs for liveness, colouring, the
allocation as a whole, the heap, the stack, the passes of LB, and the blocks and access checks of LA.  In this order:

1. Proofs: labels of two functions never meet (`L3Labels`, which reaches no recursive operator); `ReportsTheAccess` and `ComputesTheSame` of LA, with
   a certificate of the same kind that says whose value each variable holds; in `IRConstProp`, that `Meet` is a meet and that facts only go down.
   The modules that use the recursive `Stride` of `IRLower` stay with TLC.
2. An abstract heap that `RuntimeGC` implements: a graph of objects and an allocation that leaves it as it is.
3. The encoding of LA with the width of the words.
