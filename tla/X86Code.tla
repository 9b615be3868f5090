------------------------------ MODULE X86Code ------------------------------
(***************************************************************************)
(* From L1 to x86-64 (L1/src/L1.cpp): what is written for each instruction *)
(* of L1, run next to L1 itself.                                           *)
(*                                                                         *)
(* An instruction of L1 is a tree as the front end builds it.  One of the  *)
(* assembler is [op, args], the destination last, as the AT&T syntax has   *)
(* it.  A word has WordBits bits and the byte of a register ByteBits.      *)
(* Calls and returns end a run: what they do to the stack is CallFrame's.  *)
(***************************************************************************)
EXTENDS LowTexts, Bitwise

CONSTANTS
    WordBits, ByteBits,
    Addresses,    \* the words the names of functions and labels stand for
    Machines      \* the registers and the memory a run may start with

ASSUME WidthAssumption ==
    /\ WordBits \in Nat /\ ByteBits \in Nat
    /\ ByteBits < WordBits /\ WordBits <= 2^ByteBits

VARIABLES
    body,         \* the instructions of the L1 function that runs
    asm,          \* for each of them, what is written
    cpu,          \* the processor: registers, memory, flags, and where it is:
                  \* the instruction of L1, the one of the assembler within
    ideal         \* history: the state of L1 itself

machine == <<body, asm, cpu, ideal>>

Word(v) == v % 2^WordBits

Signed(w) == IF w < 2^(WordBits - 1) THEN w ELSE w - 2^WordBits

(* std::stoll: a number of the text.                                       *)
Value(t) == IF t[1] = "-" THEN -Magnitude(t) ELSE Magnitude(t)

(***************************************************************************)
(* The code.                                                               *)
(***************************************************************************)
Asm(op, args) == [op |-> op, args |-> args]

Imm(v) == [k |-> "imm", v |-> Word(v)]
Reg(node) == [k |-> "reg", r |-> node.t[1]]

(* %dil and the like: the low byte of the register.                        *)
Byte(node) == [k |-> "byte", r |-> node.t[1]]

IsNumber(node) == node.k = "Number"

MemoryOperand(node) ==
    [k |-> "mem", r |-> node.a[1].t[1], offset |-> Value(node.a[2].t)]

(* A label without its mark and with an underscore: :x and @x are the same *)
(* to the assembler.                                                       *)
AssemblyName(node) == Tail(node.t)

Operand(node) == IF node.k = "MemoryAddress" THEN MemoryOperand(node) ELSE Reg(node)

(* A dollar sign in front of a number or a label.                          *)
Source(node) ==
    CASE IsNumber(node)    -> Imm(Value(node.t))
      [] node.k = "Label" -> Imm(Addresses[AssemblyName(node)])
      [] OTHER -> Operand(node)

MoveCode(ins) == <<Asm("movq", <<Source(ins.a[2]), Operand(ins.a[1])>>)>>

ArithmeticCode(ins) ==
    LET op == [ADD_EQUAL |-> "addq", SUB_EQUAL |-> "subq", MUL_EQUAL |-> "imulq", AND_EQUAL |-> "andq"]
    IN  <<Asm(op[ins.t[1]], <<Source(ins.a[2]), Operand(ins.a[1])>>)>>

ShiftCode(ins) ==
    LET op    == [LEFT_SHIFT |-> "salq", RIGHT_SHIFT |-> "sarq"]
        count == ins.a[2]
    IN  <<Asm(op[ins.t[1]],
              <<IF IsNumber(count) THEN Imm(Value(count.t)) ELSE Byte(count), Reg(ins.a[1])>>)>>

(* staticComputable and staticValue: two numbers are compared here.        *)
IsStatic(left, right) == IsNumber(left) /\ IsNumber(right)

StaticValue(op, left, right) ==
    LET l == Value(left.t)
        r == Value(right.t)
        holds == CASE op = "LESS_THAN" -> l < r
                   [] op = "LESS_EQUAL" -> l <= r
                   [] op = "EQUAL" -> l = r
    IN  IF holds THEN 1 ELSE 0

(* The processor compares its second operand, never a number, with the     *)
(* first: a number on the left changes places.                             *)
CompareCode(left, right) ==
    IF IsNumber(left) THEN Asm("cmpq", <<Imm(Value(left.t)), Operand(right)>>)
    ELSE Asm("cmpq", <<Source(right), Operand(left)>>)

(* Variant: the conditions stay as they are.                               *)
ConditionPlain(op, left) ==
    CASE op = "LESS_THAN" -> "l" [] op = "LESS_EQUAL" -> "le" [] op = "EQUAL" -> "e"

(* The conditions change with the places.                                  *)
Condition(op, left) ==
    LET swapped == [LESS_THAN |-> "g", LESS_EQUAL |-> "ge", EQUAL |-> "e"]
        plain   == [LESS_THAN |-> "l", LESS_EQUAL |-> "le", EQUAL |-> "e"]
    IN  IF IsNumber(left) THEN swapped[op] ELSE plain[op]

CompareInstructionCode(ins) ==
    LET op == ins.t[1]  dst == ins.a[1]  left == ins.a[2]  right == ins.a[3]
    IN  IF IsStatic(left, right)
        THEN <<Asm("movq", <<Imm(StaticValue(op, left, right)), Reg(dst)>>)>>
        ELSE <<CompareCode(left, right), Asm("set", <<Condition(op, left), Byte(dst)>>),
               Asm("movzbq", <<Byte(dst), Reg(dst)>>)>>

JumpTo(label) == Asm("jmp", <<AssemblyName(label)>>)

ConditionalJumpCode(ins) ==
    LET op == ins.t[1]  left == ins.a[1]  right == ins.a[2]  label == ins.a[3]
    IN  CASE ~IsStatic(left, right) ->
                <<CompareCode(left, right),
                  Asm("jcc", <<Condition(op, left), AssemblyName(label)>>)>>
          [] IsStatic(left, right) /\ StaticValue(op, left, right) = 1 -> <<JumpTo(label)>>
          [] OTHER -> <<>>

LabelCode(ins) == <<Asm("label", <<AssemblyName(ins.a[1])>>)>>

LeaCode(ins) ==
    <<Asm("lea", <<Reg(ins.a[2]), Reg(ins.a[3]), Value(ins.a[4].t), Reg(ins.a[1])>>)>>

Code(ins) ==
    CASE ins.k = "Assignment" -> MoveCode(ins)
      [] ins.k = "Arithmetic" -> ArithmeticCode(ins)
      [] ins.k = "Shift"      -> ShiftCode(ins)
      [] ins.k = "Compare"    -> CompareInstructionCode(ins)
      [] ins.k = "ConditionalJump"  -> ConditionalJumpCode(ins)
      [] ins.k = "LabelInstruction" -> LabelCode(ins)
      [] ins.k = "Jump"       -> <<JumpTo(ins.a[1])>>
      [] ins.k = "Increment"  -> <<Asm("inc", <<Reg(ins.a[1])>>)>>
      [] ins.k = "Decrement"  -> <<Asm("dec", <<Reg(ins.a[1])>>)>>
      [] ins.k = "Lea"        -> LeaCode(ins)
      [] OTHER -> <<Asm("leave", <<>>)>>

(***************************************************************************)
(* The processor.                                                          *)
(***************************************************************************)
Get(c, o) ==
    CASE o.k = "imm"  -> o.v
      [] o.k = "reg"  -> c.reg[o.r]
      [] o.k = "byte" -> c.reg[o.r] % 2^ByteBits
      [] o.k = "mem"  -> c.mem[Word(c.reg[o.r] + o.offset)]

Put(c, o, v) ==
    CASE o.k = "reg"  -> [c EXCEPT !.reg[o.r] = Word(v)]
      [] o.k = "byte" -> [c EXCEPT !.reg[o.r] = (@ - (@ % 2^ByteBits)) + v]
      [] o.k = "mem"  -> [c EXCEPT !.mem[Word(c.reg[o.r] + o.offset)] = Word(v)]

(* The low bits of the count, as many as a word has places.                *)
ShiftCount(w) == w % WordBits

Computed(op, dst, src) ==
    CASE op \in {"movq", "movzbq"} -> src
      [] op = "addq"  -> dst + src
      [] op = "subq"  -> dst - src
      [] op = "imulq" -> Signed(dst) * Signed(src)
      [] op = "andq"  -> dst & src
      [] op = "salq"  -> dst * 2^ShiftCount(src)
      [] op = "sarq"  -> Signed(dst) \div 2^ShiftCount(src)

(* The flags after cmpq src, dst: of the difference dst - src its zero,    *)
(* its sign and its overflow.                                              *)
FlagsOf(dst, src) ==
    LET difference == Signed(dst) - Signed(src)
        kept       == Signed(Word(difference))
    IN  [zero |-> kept = 0, sign |-> kept < 0, overflow |-> kept # difference]

HoldsFlag(flags, condition) ==
    CASE condition = "e"  -> flags.zero
      [] condition = "l"  -> flags.sign # flags.overflow
      [] condition = "le" -> flags.zero \/ flags.sign # flags.overflow
      [] condition = "g"  -> ~flags.zero /\ flags.sign = flags.overflow
      [] condition = "ge" -> flags.sign = flags.overflow

(* The place of a label, or the end when another function has it.          *)
Place(name) ==
    LET places == {j \in DOMAIN asm : asm[j] = <<Asm("label", <<name>>)>>}
    IN  Min(places \cup {Len(asm) + 1})

At(c, j) == [c EXCEPT !.at = j, !.step = 1]

After(c) == IF c.step >= Len(asm[c.at]) THEN At(c, c.at + 1) ELSE [c EXCEPT !.step = @ + 1]

RunAsm(c, i) ==
    CASE i.op = "label" -> After(c)
      [] i.op = "cmpq" ->
            After([c EXCEPT !.flags = FlagsOf(Get(c, i.args[2]), Get(c, i.args[1]))])
      [] i.op = "set" -> After(Put(c, i.args[2], IF HoldsFlag(c.flags, i.args[1]) THEN 1 ELSE 0))
      [] i.op = "jmp" -> At(c, Place(i.args[1]))
      [] i.op = "jcc" -> IF HoldsFlag(c.flags, i.args[1]) THEN At(c, Place(i.args[2])) ELSE After(c)
      [] i.op = "inc" -> After(Put(c, i.args[1], Get(c, i.args[1]) + 1))
      [] i.op = "dec" -> After(Put(c, i.args[1], Get(c, i.args[1]) - 1))
      [] i.op = "lea" ->
            After(Put(c, i.args[4], Get(c, i.args[1]) + (Get(c, i.args[2]) * i.args[3])))
      [] OTHER ->
            After(Put(c, i.args[2], Computed(i.op, Get(c, i.args[2]), Get(c, i.args[1]))))

(***************************************************************************)
(* L1 itself, for the property.                                            *)
(***************************************************************************)
Location(m, node) == Word(m.reg[node.a[1].t[1]] + Value(node.a[2].t))

L1Value(m, node) ==
    CASE node.k = "Register" -> m.reg[node.t[1]]
      [] node.k = "Number"   -> Word(Value(node.t))
      [] node.k = "Label"    -> Addresses[Tail(node.t)]
      [] node.k = "MemoryAddress" -> m.mem[Location(m, node)]

L1Integer(m, node) == Signed(L1Value(m, node))

L1Write(m, node, v) ==
    IF node.k = "Register" THEN [m EXCEPT !.reg[node.t[1]] = Word(v)]
    ELSE [m EXCEPT !.mem[Location(m, node)] = Word(v)]

L1Operation(op, x, y) ==
    CASE op = "ADD_EQUAL" -> x + y
      [] op = "SUB_EQUAL" -> x - y
      [] op = "MUL_EQUAL" -> x * y
      [] op = "AND_EQUAL" -> Word(x) & Word(y)
      [] op = "LEFT_SHIFT"  -> x * 2^(y % WordBits)
      [] op = "RIGHT_SHIFT" -> x \div 2^(y % WordBits)

L1Holds(op, x, y) ==
    CASE op = "LESS_THAN" -> x < y [] op = "LESS_EQUAL" -> x <= y [] op = "EQUAL" -> x = y

L1Result(m, ins) ==
    LET v(j) == L1Integer(m, ins.a[j])
    IN  CASE ins.k = "Assignment" -> v(2)
          [] ins.k \in {"Arithmetic", "Shift"} -> L1Operation(ins.t[1], v(1), v(2))
          [] ins.k = "Compare"   -> IF L1Holds(ins.t[1], v(2), v(3)) THEN 1 ELSE 0
          [] ins.k = "Increment" -> v(1) + 1
          [] ins.k = "Decrement" -> v(1) - 1
          [] ins.k = "Lea"       -> v(2) + (v(3) * Value(ins.a[4].t))

L1Target(label) ==
    LET places == {j \in DOMAIN body : body[j].k = "LabelInstruction" /\ body[j].a[1] = label}
    IN  Min(places \cup {Len(body) + 1})

L1Step(m, ins) ==
    CASE ins.k = "LabelInstruction" -> [m EXCEPT !.at = @ + 1]
      [] ins.k = "Jump" -> [m EXCEPT !.at = L1Target(ins.a[1])]
      [] ins.k = "ConditionalJump" ->
            IF L1Holds(ins.t[1], L1Integer(m, ins.a[1]), L1Integer(m, ins.a[2]))
            THEN [m EXCEPT !.at = L1Target(ins.a[3])] ELSE [m EXCEPT !.at = @ + 1]
      [] OTHER -> [L1Write(m, ins.a[1], L1Result(m, ins)) EXCEPT !.at = @ + 1]

(***************************************************************************)
(* Behaviours.                                                             *)
(***************************************************************************)
NoMachine == body = <<>> /\ asm = <<>> /\ cpu = <<>> /\ ideal = <<>>

Unknown == [zero |-> FALSE, sign |-> FALSE, overflow |-> FALSE]

GenerateCode(function) ==
    \E start \in Machines :
        /\ body' = function.a[Len(function.a)].a
        /\ asm' = [j \in DOMAIN body' |-> Code(body'[j])]
        /\ cpu' = [reg |-> start.reg, mem |-> start.mem, flags |-> Unknown, at |-> 1, step |-> 1]
        /\ ideal' = [reg |-> start.reg, mem |-> start.mem, at |-> 1]

Running == cpu # <<>> /\ cpu.at <= Len(asm) /\ asm[cpu.at] # <<Asm("leave", <<>>)>>

(* An instruction of the processor; L1 takes its step with the first one   *)
(* of each of its own.                                                     *)
Execute ==
    /\ Running
    /\ cpu' = IF asm[cpu.at] = <<>> THEN After(cpu) ELSE RunAsm(cpu, asm[cpu.at][cpu.step])
    /\ ideal' = IF cpu.step = 1 THEN L1Step(ideal, body[cpu.at]) ELSE ideal
    /\ UNCHANGED <<body, asm>>

(* Between two instructions of L1 the processor is where L1 is, with the   *)
(* same values in the registers and in memory.                             *)
SameMachine ==
    (cpu # <<>> /\ cpu.step = 1) =>
        /\ cpu.at = ideal.at
        /\ cpu.reg = ideal.reg /\ cpu.mem = ideal.mem
=============================================================================
