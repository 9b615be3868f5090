------------------------------- MODULE L2Code -------------------------------
(***************************************************************************)
(* The instruction vocabulary of the L2 stage, as the register allocator   *)
(* sees it: which locations an instruction reads (GEN) and writes (KILL),  *)
(* which instructions may run after it, and how a variable is renamed in   *)
(* it.  Everything in this module is a constant-level translation of       *)
(* src/src/L2/src/instructions.cpp and of the helpers of program.cpp.      *)
(*                                                                         *)
(* An instruction is a record                                              *)
(*   [op, d, u, v, k, lab]                                                 *)
(* d is the destination operand, u and v the source operands, k a number   *)
(* (argument count, stack offset in words), lab a label.  Fields an        *)
(* instruction does not use hold Imm, 0 or NoLabel.  Numbers, labels and   *)
(* function names used as operands are all abstracted to Imm: no pass      *)
(* modelled here looks at their value.                                     *)
(***************************************************************************)
EXTENDS Integers, Sequences, FiniteSets

CONSTANTS
    GPR,          \* the general purpose registers, rsp excluded
    RSP,          \* the stack pointer
    RAX,          \* the register a result is returned in
    RCX,          \* the register that must hold a variable shift amount
    ArgRegs,      \* the argument registers, in order
    CallerSaved,  \* the registers a call destroys
    CalleeSaved,  \* the registers a function must preserve
    Names,        \* every variable name, those of spill temporaries included
    Imm,          \* an operand that is neither a variable nor a register
    Labels,       \* the label names, NoLabel included
    NoLabel       \* the label of an instruction that has none

ASSUME RegistersAssumption ==
    /\ RAX \in GPR /\ RCX \in GPR
    /\ CallerSaved \subseteq GPR /\ CalleeSaved \subseteq GPR
    /\ RAX \in CallerSaved
    /\ ArgRegs \in Seq(GPR)
    /\ RSP \notin GPR

ASSUME NamesAssumption ==
    /\ Names \cap (GPR \cup {RSP}) = {}
    /\ Imm \notin Names \cup GPR \cup {RSP}

ASSUME LabelsAssumption == NoLabel \in Labels

Registers == GPR \cup {RSP}
Locations == Registers \cup Names

-----------------------------------------------------------------------------
(* Constructors.  "move" is an assignment between variables, registers and *)
(* constants; "load"/"store" an assignment from/to mem base offset;        *)
(* "update" an in-place arithmetic instruction, ++ and --; "compute" a     *)
(* comparison or a lea, which read two operands and overwrite a third.     *)

Instr(op, d, u, v, k, lab) ==
    [op |-> op, d |-> d, u |-> u, v |-> v, k |-> k, lab |-> lab]

Move(d, u)       == Instr("move", d, u, Imm, 0, NoLabel)
Load(d, base, k) == Instr("load", d, base, Imm, k, NoLabel)
Store(base, k, u) == Instr("store", base, u, Imm, k, NoLabel)
StackArg(d, k)   == Instr("stackarg", d, Imm, Imm, k, NoLabel)
Update(d, u)     == Instr("update", d, u, Imm, 0, NoLabel)
Shift(d, u)      == Instr("shift", d, u, Imm, 0, NoLabel)
Compute(d, u, v) == Instr("compute", d, u, v, 0, NoLabel)
LabelAt(l)       == Instr("label", Imm, Imm, Imm, 0, l)
Goto(l)          == Instr("goto", Imm, Imm, Imm, 0, l)
CJump(u, v, l)   == Instr("cjump", Imm, u, v, 0, l)
Call(target, n)  == Instr("call", Imm, target, Imm, n, NoLabel)
ErrorCall(n)     == Instr("error", Imm, Imm, Imm, n, NoLabel)
Return           == Instr("return", Imm, Imm, Imm, 0, NoLabel)

(* The well-formed instructions: operands a kind does not have are Imm,    *)
(* and a shift amount is a variable, rcx or a number.                      *)
Operands == Locations \cup {Imm}

Instructions ==
    {i \in [op : {"move", "load", "store", "stackarg", "update", "shift", "compute",
                  "label", "goto", "cjump", "call", "error", "return"},
            d : Operands, u : Operands, v : Operands, k : Int, lab : Labels] :
        /\ i.op \in {"label", "goto", "cjump", "call", "error", "return"} => i.d = Imm
        /\ i.op \in {"label", "goto", "error", "return", "stackarg"} =>
              i.u = Imm /\ i.v = Imm
        /\ i.op = "shift" => i.u \in Names \cup {RCX, Imm}}

-----------------------------------------------------------------------------
(* GEN and KILL.                                                           *)

(* The first n argument registers; a call beyond them passes on the stack. *)
ArgumentRegisters(n) == {ArgRegs[j] : j \in {m \in DOMAIN ArgRegs : m <= n}}

(* What each kind of instruction names: a store reads its base register,   *)
(* an update and a shift read their destination.                           *)
Gen(ins) ==
    LET operands == {ins.u, ins.v}
        readsDst == ins.op \in {"store", "update", "shift"}
        implicit == CASE ins.op \in {"call", "error"} -> ArgumentRegisters(ins.k)
                      [] ins.op = "return" -> {RAX} \cup CalleeSaved
                      [] OTHER -> {}
    IN  ((operands \cup (IF readsDst THEN {ins.d} ELSE {})) \cap Locations)
            \cup implicit

Kill(ins) ==
    CASE ins.op \in {"call", "error"} -> CallerSaved
      [] ins.op \in {"store", "label", "goto", "cjump", "return"} -> {}
      [] OTHER -> {ins.d} \cap Locations

-----------------------------------------------------------------------------
(* Control flow.                                                           *)

(* A jump goes to the first instruction that carries the label.            *)
LabelIndices(code, l) ==
    {j \in DOMAIN code : code[j].op = "label" /\ code[j].lab = l}

Targets(code, l) ==
    {j \in LabelIndices(code, l) : \A m \in LabelIndices(code, l) : j <= m}

(* findLabelIndex throws when there is none, which ends the compilation.   *)
LabelsResolve(code) ==
    \A i \in DOMAIN code : code[i].op \in {"goto", "cjump"} =>
                               LabelIndices(code, code[i].lab) # {}

Succ(code, i) ==
    LET next == {i + 1} \cap DOMAIN code
    IN  CASE code[i].op \in {"return", "error"} -> {}
          [] code[i].op = "goto"  -> Targets(code, code[i].lab)
          [] code[i].op = "cjump" -> Targets(code, code[i].lab) \cup next
          [] OTHER -> next

-----------------------------------------------------------------------------
(* instruction_replace_var: every occurrence of variable x as an operand   *)
(* becomes loc.                                                            *)
Replace(ins, x, loc) ==
    LET sub(o) == IF o = x THEN loc ELSE o
    IN  [ins EXCEPT !.d = sub(@), !.u = sub(@), !.v = sub(@)]

(* The variables that occur in a program.                                  *)
VarsOf(code) ==
    UNION {{code[i].d, code[i].u, code[i].v} \cap Names : i \in DOMAIN code}
=============================================================================
