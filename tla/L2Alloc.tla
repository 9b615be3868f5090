------------------------------- MODULE L2Alloc ------------------------------
(***************************************************************************)
(* Function::allocate of the L2 stage (src/src/L2/src/program.cpp): the    *)
(* loop liveness -> interference graph -> colouring -> spilling, until     *)
(* nothing is left to spill, and the rewriting of the function into one    *)
(* without variables.  L2Liveness and L2Coloring take the steps of the     *)
(* first and the third part.                                               *)
(*                                                                         *)
(* Once the function is rewritten, the module runs the source and the      *)
(* rewritten function side by side (phase "run"): both take the same       *)
(* branches, and for every register and stack slot of the machine the      *)
(* state records which source locations have the value it holds.  That is  *)
(* not code of the compiler but the meaning of the code it compiles, as    *)
(* the next stage gives it.                                                *)
(***************************************************************************)
EXTENDS L2Code, SequencesExt

CONSTANTS
    Sources,     \* the functions to compile
    ColorOrder,  \* the registers in the order they are tried
    NoReg,       \* marks a variable without a register
    SpillName    \* SpillName[k] is the variable named "%S" followed by k

ASSUME SourcesAssumption ==
    \A p \in Sources : p \in Seq(Instructions) /\ p # <<>>

(* The words above rsp belong to the allocator: the source does not name   *)
(* them but by stack-arg.                                                  *)
ASSUME StackAssumption ==
    \A p \in Sources : \A i \in DOMAIN p :
        /\ p[i].op = "load" => p[i].u # RSP
        /\ p[i].op = "store" /\ p[i].d = RSP => p[i].k < 0
        /\ p[i].op = "stackarg" => p[i].k >= 0

ASSUME ColorOrderAssumption ==
    /\ IsFiniteSet(GPR) /\ NoReg \notin GPR
    /\ ColorOrder \in Seq(GPR)
    /\ \A r \in GPR : \E k \in DOMAIN ColorOrder : ColorOrder[k] = r

(* The code takes it for granted that no variable of the source is named   *)
(* like a spill temporary.                                                 *)
ASSUME SpillNamesAssumption ==
    /\ \A k \in DOMAIN SpillName : SpillName[k] \in Names
    /\ \A j, k \in DOMAIN SpillName : SpillName[j] = SpillName[k] => j = k
    /\ \A p \in Sources : \A k \in DOMAIN SpillName : SpillName[k] \notin VarsOf(p)

VARIABLES
    source,                                   \* instructions
    code, succ, ins, outs, idx, changed, lpc, \* modifiedInstructions, liveness
    graph, degree, varStack, unavailable, coloring, toSpill, cpc, \* colouring
    newInstructions, next, \* of spill: the result so far, the next instruction
    numLocals,      \* stack slots given to spilled variables
    spilledVarIdx,  \* number of the next spill temporary
    phase,          \* "liveness", "color", "run", "halt"
    at, mat,        \* program counters in source and code
    known,          \* source locations that have a value
    holds, slots    \* source locations whose value a register, a slot holds

livenessVars == <<succ, ins, outs, idx, changed, lpc>>
colorVars    == <<degree, varStack, unavailable, coloring, cpc>>
runVars      == <<at, mat, known, holds, slots>>
spillVars    == <<newInstructions, next>>
vars == <<source, code, livenessVars, graph, toSpill, colorVars, spillVars, numLocals,
          spilledVarIdx, phase, runVars>>

L == INSTANCE L2Liveness WITH Programs <- Sources
C == INSTANCE L2Coloring WITH Graphs <- {}

Init ==
    /\ source \in Sources
    /\ code = source
    /\ succ = <<>> /\ ins = <<>> /\ outs = <<>> /\ idx = 0 /\ changed = FALSE
    /\ lpc = "idle"
    /\ graph = <<>> /\ degree = <<>> /\ varStack = <<>> /\ unavailable = <<>>
    /\ coloring = <<>> /\ toSpill = <<>> /\ cpc = "idle"
    /\ newInstructions = <<>> /\ next = 1
    /\ numLocals = 0 /\ spilledVarIdx = 0
    /\ phase = "liveness"
    /\ at = 1 /\ mat = 1 /\ known = {} /\ holds = <<>> /\ slots = <<>>

-----------------------------------------------------------------------------
(* One round of the allocation loop.                                       *)

AnalyzeLiveness ==
    /\ phase = "liveness"
    /\ L!Next
    /\ UNCHANGED <<source, graph, toSpill, colorVars, spillVars, numLocals,
                   spilledVarIdx, phase, runVars>>

(* The locations that take part in liveness anywhere, and all registers.   *)
Nodes ==
    (GPR \cup UNION {Gen(code[i]) \cup Kill(code[i]) \cup ins[i] \cup outs[i]
                        : i \in DOMAIN code}) \ {RSP}

LiveTogether(x, y) ==
    \E i \in DOMAIN code : {x, y} \subseteq ins[i] \/ {x, y} \subseteq outs[i]

(* Variant: only values that are live are told apart.                      *)
NeverWrittenOver(x, y) == FALSE

(* Writing x would destroy y.                                              *)
WrittenOver(x, y) ==
    \E i \in DOMAIN code : x \in Kill(code[i]) /\ y \in outs[i]

(* Variants: any register may hold a shift amount; none may.               *)
ShiftForbidsNone(x, r) == FALSE

ShiftForbidsAll(x, r) ==
    /\ r \in GPR
    /\ \E i \in DOMAIN code : code[i].op = "shift" /\ code[i].u = x /\ x \in Names

(* x64 takes a variable shift amount from rcx only.                        *)
ShiftForbids(x, r) ==
    /\ r \in GPR \ {RCX}
    /\ \E i \in DOMAIN code : code[i].op = "shift" /\ code[i].u = x /\ x \in Names

(* Variant: the edges of a variable shift are entered on one side only.    *)
InterfereOneSided(x, y) ==
    \/ LiveTogether(x, y)
    \/ WrittenOver(x, y) \/ WrittenOver(y, x)
    \/ {x, y} \subseteq GPR
    \/ ShiftForbids(x, y)

Interfere(x, y) ==
    \/ LiveTogether(x, y)
    \/ WrittenOver(x, y) \/ WrittenOver(y, x)
    \/ {x, y} \subseteq GPR
    \/ ShiftForbids(x, y) \/ ShiftForbids(y, x)

BuildGraph ==
    /\ phase = "liveness" /\ lpc = "done"
    /\ graph' = [x \in Nodes |-> {y \in Nodes \ {x} : Interfere(x, y)}]
    /\ cpc' = "idle"
    /\ phase' = "color"
    /\ UNCHANGED <<source, code, livenessVars, toSpill, degree, varStack,
                   unavailable, coloring, spillVars, numLocals, spilledVarIdx, runVars>>

ColorGraph ==
    /\ phase = "color"
    /\ C!Next
    /\ UNCHANGED <<source, code, livenessVars, spillVars, numLocals, spilledVarIdx,
                   phase, runVars>>

-----------------------------------------------------------------------------
(* spill: every instruction that names x gets a temporary t of its own,    *)
(* loaded before the instruction if it reads x and stored after it if it   *)
(* writes x.                                                               *)

Touches(i, x) == x \in Gen(i) \cup Kill(i)

SpillCode(i, x, t) ==
    (IF x \in Gen(i) THEN <<Load(t, RSP, numLocals)>> ELSE <<>>)
    \o <<Replace(i, x, t)>>
    \o (IF x \in Kill(i) THEN <<Store(RSP, numLocals, t)>> ELSE <<>>)

Spilling == phase = "color" /\ cpc = "done" /\ toSpill # <<>>

(* One iteration of the loop over the instructions.  SpillName bounds the  *)
(* number of temporaries; the code counts on.                              *)
SpillInstruction ==
    /\ Spilling /\ next <= Len(code)
    /\ LET x == Head(toSpill) i == code[next]
       IN  /\ Touches(i, x) => spilledVarIdx \in DOMAIN SpillName
           /\ newInstructions' =
                 newInstructions \o SpillCode(i, x, SpillName[spilledVarIdx])
           /\ spilledVarIdx' = spilledVarIdx + (IF Touches(i, x) THEN 1 ELSE 0)
    /\ next' = next + 1
    /\ UNCHANGED <<source, code, livenessVars, graph, toSpill, colorVars, numLocals,
                   phase, runVars>>

(* And of the loop over toSpillVars; after the last one the analysis       *)
(* starts again.                                                           *)
SpillNext ==
    /\ Spilling /\ next > Len(code)
    /\ LET touched == {i \in DOMAIN code : Touches(code[i], Head(toSpill))}
       IN  numLocals' = numLocals + (IF touched # {} THEN 1 ELSE 0)
    /\ code' = newInstructions
    /\ newInstructions' = <<>> /\ next' = 1
    /\ toSpill' = Tail(toSpill)
    /\ phase' = IF Len(toSpill) = 1 THEN "liveness" ELSE "color"
    /\ lpc' = "idle"
    /\ UNCHANGED <<source, succ, ins, outs, idx, changed, graph, colorVars,
                   spilledVarIdx, runVars>>

-----------------------------------------------------------------------------
(* The rewriting: implement_coloring, then replace_stack_args.             *)

InRegister(o) == IF o \in DOMAIN coloring THEN coloring[o] ELSE o

Colored(i) == [i EXCEPT !.d = InRegister(@), !.u = InRegister(@), !.v = InRegister(@)]

(* The arguments passed on the stack lie above the slots.                  *)
WithoutStackArg(i) ==
    IF i.op = "stackarg" THEN Load(i.d, RSP, numLocals + i.k) ELSE i

Rewrite ==
    /\ phase = "color" /\ cpc = "done" /\ toSpill = <<>>
    /\ code' = [i \in DOMAIN code |-> WithoutStackArg(Colored(code[i]))]
    /\ phase' = "run"
    /\ at' = 1 /\ mat' = 1
    /\ known' = GPR
    /\ holds' = [r \in GPR |-> {r}]
    /\ slots' = [s \in 0 .. numLocals - 1 |-> {}]
    /\ UNCHANGED <<source, livenessVars, graph, toSpill, colorVars, spillVars, numLocals,
                   spilledVarIdx>>

Allocate == \/ AnalyzeLiveness \/ BuildGraph \/ ColorGraph
            \/ SpillInstruction \/ SpillNext \/ Rewrite

-----------------------------------------------------------------------------
(* Source and machine side by side.                                        *)

(* An access to a spill slot has no counterpart in the source.             *)
SpillAccess(i) ==
    /\ i.k \in 0 .. numLocals - 1
    /\ \/ i.op = "load" /\ i.u = RSP
       \/ i.op = "store" /\ i.d = RSP

RunSpillCode ==
    /\ phase = "run" /\ SpillAccess(code[mat])
    /\ LET m == code[mat]
       IN  IF m.op = "load"
           THEN holds' = [holds EXCEPT ![m.d] = slots[m.k]] /\ UNCHANGED slots
           ELSE slots' = [slots EXCEPT ![m.k] = holds[m.u]] /\ UNCHANGED holds
    /\ mat' = mat + 1
    /\ UNCHANGED <<source, code, livenessVars, graph, toSpill, colorVars,
                   spillVars, numLocals, spilledVarIdx, phase, at, known>>

Branch(c, i, taken) ==
    IF taken /\ c[i].op \in {"goto", "cjump"} THEN Targets(c, c[i].lab)
    ELSE IF ~taken /\ c[i].op \notin {"goto", "return", "error"}
    THEN {i + 1} \cap DOMAIN c
    ELSE {}

(* The location an instruction gives a value: a call returns one in rax.   *)
Result(i) == IF i.op = "call" THEN {RAX} ELSE Kill(i)

(* What a place that held the values of S holds after the source has run   *)
(* instruction s: not what s overwrites, and a copy's target with its      *)
(* source.                                                                 *)
After(S, s) ==
    (S \ Kill(s)) \cup (IF s.op = "move" /\ s.u \in S THEN {s.d} ELSE {})

RunInstruction ==
    /\ phase = "run" /\ ~SpillAccess(code[mat])
    /\ LET s == source[at]
           m == code[mat]
           copies == s.op = "move" /\ s.u \in Locations
           result == IF copies /\ m.u \in GPR THEN After(holds[m.u], s) ELSE Result(s)
       IN  /\ \E taken \in BOOLEAN :
                /\ at' \in Branch(source, at, taken)
                /\ mat' \in Branch(code, mat, taken)
           /\ known' = (known \ Kill(s))
                       \cup (IF copies /\ s.u \notin known THEN {} ELSE Result(s))
           /\ holds' = [r \in GPR |-> IF r \in Result(m) THEN result
                                      ELSE IF r \in Kill(m) THEN {}
                                      ELSE After(holds[r], s)]
           /\ slots' = [k \in DOMAIN slots |-> After(slots[k], s)]
    /\ UNCHANGED <<source, code, livenessVars, graph, toSpill, colorVars,
                   spillVars, numLocals, spilledVarIdx, phase>>

Halt ==
    /\ phase = "run" /\ code[mat].op \in {"return", "error"}
    /\ phase' = "halt"
    /\ UNCHANGED <<source, code, livenessVars, graph, toSpill, colorVars,
                   spillVars, numLocals, spilledVarIdx, runVars>>

Next == Allocate \/ RunSpillCode \/ RunInstruction \/ Halt

Spec == Init /\ [][Next]_vars

(* The allocator runs to its end; nothing obliges the compiled function to *)
(* leave its loops.                                                        *)
FairSpec == Spec /\ WF_vars(Allocate)

-----------------------------------------------------------------------------
(* Which fields of the two instructions are read at the same time.         *)
ReadFields(s) ==
    {"u", "v"} \cup (IF s.op \in {"store", "update", "shift"} THEN {"d"} ELSE {})

(* The allocation preserves the function: whenever the compiled function   *)
(* is about to run the image of a source instruction, it is an instruction *)
(* of the same kind, and every register it reads holds the value the       *)
(* source reads there.  Spill slots, stack arguments, caller-saved         *)
(* registers around calls, dead assignments and callee-saved registers at  *)
(* the return are all places where that could go wrong.                    *)
AllocationSound ==
    phase = "run" /\ ~SpillAccess(code[mat]) =>
        LET s == source[at]
            m == code[mat]
        IN  /\ m.op = (IF s.op = "stackarg" THEN "load" ELSE s.op)
            /\ \A f \in ReadFields(s) :
                  s[f] \in known /\ s[f] # RSP => s[f] \in holds[m[f]]
            /\ \A r \in Gen(s) \ {s[f] : f \in ReadFields(s)} :
                  r \in known => r \in holds[r]

(* The rewritten function has no variable left, and every variable shift   *)
(* amount is in rcx, as the next stage requires.                           *)
OnlyRegistersLeft ==
    phase \in {"run", "halt"} =>
        /\ VarsOf(code) = {}
        /\ \A i \in DOMAIN code : code[i].op = "shift" => code[i].u \in {RCX, Imm}

(* What colouring takes for granted: the graph is symmetric, irreflexive   *)
(* and has every register, pairwise adjacent, and never the stack pointer. *)
GraphIsWellFormed == phase = "color" => C!IsInterferenceGraph(graph)

(* A spill temporary lives for one instruction only and always finds a     *)
(* register: what is spilled is a variable of the source, so each round    *)
(* has fewer candidates than the one before.                               *)
OnlySourceVariablesSpill ==
    phase = "color" /\ cpc = "done" =>
        \A i \in DOMAIN toSpill : toSpill[i] \in VarsOf(source)

(* The allocation loop ends, with code to run or an exception.             *)
Terminates == <>(phase \in {"run", "halt"} \/ lpc = "error")
=============================================================================
