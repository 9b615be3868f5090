------------------------------ MODULE LowTexts ------------------------------
(***************************************************************************)
(* The texts of L1 and L2: how they are printed (L2/src/*.cpp,             *)
(* L3/src/instruction_selection.cpp) and how they are read                 *)
(* (L1/src/parser.cpp, L2/src/parser.cpp).                                 *)
(*                                                                         *)
(* A node of a tree is [k, t, a]: its kind, its text, its children.  The   *)
(* tables that end in Rules are the grammar, those that end in Actions     *)
(* what the semantic action of a rule does, those that end in Form what    *)
(* the printer writes for a kind of node.                                  *)
(***************************************************************************)
EXTENDS Peg

(***************************************************************************)
(* L1: the grammar.                                                        *)
(***************************************************************************)
L1Lexical ==
    [blank |-> One({" ", "\t"}), spaces |-> Star(<<"blank">>), eol |-> One({"\n"}),
     slashes |-> Str(<<"/", "/">>), to_eolf |-> UntilEolf,
     comment |-> Disable(<<"slashes", "to_eolf">>),
     eol_or_comment |-> Sor(<<"eol", "comment">>),
     seps_with_comments |-> Star(<<"spaces", "eol_or_comment">>),
     name_first |-> NotOne(Symbols \cup Digits), name_rest |-> NotOne(Symbols),
     name_rests |-> Star(<<"name_rest">>), name |-> All(<<"name_first", "name_rests">>),
     at |-> One({"@"}), colon |-> One({":"}),
     l |-> All(<<"at", "name">>), label |-> All(<<"colon", "name">>),
     E |-> One({"1", "2", "4", "8"}), F |-> One({"1", "3", "4"}),
     sign |-> One({"-", "+"}), opt_sign |-> Opt(<<"sign">>), digit |-> One(Digits),
     more_digits |-> Star(<<"digit">>), digits |-> All(<<"digit", "more_digits">>),
     M |-> All(<<"opt_sign", "digits">>), N |-> All(<<"opt_sign", "digits">>)]

ArgumentRegisters == <<"rdi", "rsi", "rdx", "rcx", "r8", "r9">>

OtherRegisters == <<"rax", "rbx", "rbp", "r10", "r11", "r12", "r13", "r14", "r15">>

L1Registers ==
    [r \in Range(ArgumentRegisters \o OtherRegisters) \cup {"rsp"} |-> Str(<<r>>)]

L1Operators ==
    [op_add_equal |-> Str(<<"+", "=">>), op_sub_equal |-> Str(<<"-", "=">>),
     op_mul_equal |-> Str(<<"*", "=">>), op_and_equal |-> Str(<<"&", "=">>),
     op_arrow |-> Str(<<"<", "-">>),
     op_lshift_equal |-> Str(<<"<", "<", "=">>), op_rshift_equal |-> Str(<<">", ">", "=">>),
     op_less |-> Str(<<"<">>), op_less_equal |-> Str(<<"<", "=">>), op_equal |-> Str(<<"=">>),
     op_inc |-> Str(<<"+", "+">>), op_dec |-> Str(<<"-", "-">>),
     aop |-> Sor(<<"op_add_equal", "op_sub_equal", "op_mul_equal", "op_and_equal">>),
     sop |-> Sor(<<"op_lshift_equal", "op_rshift_equal">>),
     cmp |-> Sor(<<"op_less_equal", "op_less", "op_equal">>)]

L1Operands ==
    [w |-> Sor(<<"a">> \o OtherRegisters), a |-> Sor(ArgumentRegisters),
     s |-> Sor(<<"t", "label", "at_label">>), t |-> Sor(<<"x", "operand_literal">>),
     u |-> Sor(<<"w", "at_label">>), x |-> Sor(<<"w", "rsp">>),
     mem_addr |-> Spaced(<<"str_mem", "x", "M">>),
     shift_amount |-> Sor(<<"rcx", "operand_literal">>),
     at_label |-> L1Lexical.l, operand_literal |-> L1Lexical.N]

L1Words ==
    [str_mem |-> Str(<<"mem">>), str_cjump |-> Str(<<"cjump">>), str_goto |-> Str(<<"goto">>),
     str_return |-> Str(<<"return">>), str_call |-> Str(<<"call">>),
     str_print |-> Str(<<"print">>), str_input |-> Str(<<"input">>),
     str_allocate |-> Str(<<"allocate">>), str_tuple_error |-> Str(<<"tuple", "-", "error">>),
     str_tensor_error |-> Str(<<"tensor", "-", "error">>),
     zero |-> One({"0"}), one |-> One({"1"}), two |-> One({"2"}), three |-> One({"3"})]

L1Moves ==
    [inst_assign |-> Spaced(<<"w", "op_arrow", "s">>),
     inst_mem_load |-> Spaced(<<"w", "op_arrow", "mem_addr">>),
     inst_mem_store |-> Spaced(<<"mem_addr", "op_arrow", "s">>),
     inst_arithmetic |-> Spaced(<<"w", "aop", "t">>),
     inst_shift |-> Spaced(<<"w", "sop", "shift_amount">>),
     inst_mem_add_equal |-> Spaced(<<"mem_addr", "op_add_equal", "t">>),
     inst_mem_sub_equal |-> Spaced(<<"mem_addr", "op_sub_equal", "t">>),
     inst_add_equal_from_mem |-> Spaced(<<"w", "op_add_equal", "mem_addr">>),
     inst_sub_equal_from_mem |-> Spaced(<<"w", "op_sub_equal", "mem_addr">>),
     inst_compare |-> Spaced(<<"w", "op_arrow", "t", "cmp", "t">>),
     inst_inc |-> Spaced(<<"w", "op_inc">>), inst_dec |-> Spaced(<<"w", "op_dec">>),
     inst_lea |-> Spaced(<<"w", "at", "w", "w", "E">>)]

L1Control ==
    [inst_label |-> L1Lexical.label,
     inst_cjump |-> Spaced(<<"str_cjump", "t", "cmp", "t", "label">>),
     inst_goto |-> Spaced(<<"str_goto", "label">>), inst_return |-> All(<<"str_return">>),
     inst_call |-> Spaced(<<"str_call", "u", "num_call_args">>),
     inst_call_print |-> Spaced(<<"str_call", "str_print", "one">>),
     inst_call_input |-> Spaced(<<"str_call", "str_input", "zero">>),
     inst_call_allocate |-> Spaced(<<"str_call", "str_allocate", "two">>),
     inst_call_tuple_error |-> Spaced(<<"str_call", "str_tuple_error", "three">>),
     inst_call_tensor_error |-> Spaced(<<"str_call", "str_tensor_error", "F">>),
     num_call_args |-> L1Lexical.N]

(* The order of the alternatives: a comparison in front of the assignment  *)
(* it begins with, the calls of the runtime in front of the others.        *)
L1Instruction ==
    [instruction |->
        Sor(<<"inst_return", "inst_compare", "inst_assign", "inst_mem_load", "inst_mem_store",
              "inst_arithmetic", "inst_shift", "inst_mem_add_equal", "inst_mem_sub_equal",
              "inst_add_equal_from_mem", "inst_sub_equal_from_mem", "inst_cjump",
              "inst_label", "inst_goto", "inst_call_print", "inst_call_input",
              "inst_call_allocate", "inst_call_tuple_error", "inst_call_tensor_error",
              "inst_call", "inst_inc", "inst_dec", "inst_lea">>)]

L1Program ==
    [open |-> One({"("}), close |-> One({")"}),
     function_name |-> L1Lexical.l, num_function_args |-> L1Lexical.N, num_function_locals |-> L1Lexical.N,
     program |-> All(<<"seps_with_comments", "spaces", "open", "seps_with_comments",
                       "function_name", "seps_with_comments", "function_list",
                       "seps_with_comments", "spaces", "close", "seps_with_comments">>),
     function |-> All(<<"spaces", "open", "seps_with_comments", "spaces", "function_name",
                        "seps_with_comments", "spaces", "num_function_args",
                        "seps_with_comments", "spaces", "num_function_locals",
                        "seps_with_comments", "instruction_list", "seps_with_comments",
                        "spaces", "close">>),
     function_list |-> All(<<"seps_with_comments", "function", "seps_with_comments", "functions">>),
     functions |-> Star(<<"seps_with_comments", "function", "seps_with_comments">>),
     instruction_list |->
        Star(<<"seps_with_comments", "spaces", "instruction", "seps_with_comments">>),
     grammar |-> Must(<<"program">>)]

L1Rules ==
    L1Lexical @@ L1Registers @@ L1Operators @@ L1Operands @@ L1Words @@ L1Moves
        @@ L1Control @@ L1Instruction @@ L1Program

(***************************************************************************)
(* L1: the semantic actions.                                               *)
(***************************************************************************)
L1LeafActions ==
    [label |-> Push("Label"), l |-> Push("Label"), at_label |-> Push("Label"),
     M |-> Push("Number"), F |-> Push("Number"), E |-> Push("Number"),
     operand_literal |-> Push("Number"), num_call_args |-> Push("Number")]

L1RegisterActions == [r \in DOMAIN L1Registers |-> Push("Register")]

L1OperatorActions ==
    [op_add_equal |-> PushOp("ADD_EQUAL", "arithmetic_ops"),
     op_sub_equal |-> PushOp("SUB_EQUAL", "arithmetic_ops"),
     op_mul_equal |-> PushOp("MUL_EQUAL", "arithmetic_ops"),
     op_and_equal |-> PushOp("AND_EQUAL", "arithmetic_ops"),
     op_lshift_equal |-> PushOp("LEFT_SHIFT", "shift_ops"),
     op_rshift_equal |-> PushOp("RIGHT_SHIFT", "shift_ops"),
     op_less |-> PushOp("LESS_THAN", "compare_ops"),
     op_less_equal |-> PushOp("LESS_EQUAL", "compare_ops"),
     op_equal |-> PushOp("EQUAL", "compare_ops")]

L1MoveActions ==
    [mem_addr |-> Wrap("MemoryAddress", 2),
     inst_assign |-> Emit("Assignment", 2), inst_mem_load |-> Emit("Assignment", 2),
     inst_mem_store |-> Emit("Assignment", 2)]

L1ArithmeticActions ==
    [r \in {"inst_arithmetic", "inst_mem_add_equal", "inst_mem_sub_equal",
            "inst_add_equal_from_mem", "inst_sub_equal_from_mem"} |->
        EmitOp("Arithmetic", 2, "arithmetic_ops")]
    @@ [inst_shift |-> EmitOp("Shift", 2, "shift_ops")]

L1CompareActions ==
    [inst_compare |-> EmitOp("Compare", 3, "compare_ops"),
     inst_cjump |-> EmitOp("ConditionalJump", 3, "compare_ops")]

L1CallActions ==
    [inst_goto |-> Emit("Jump", 1), inst_return |-> Emit("Return", 0),
     inst_call |-> Emit("Call", 2), inst_call_print |-> Emit("CallPrint", 0),
     inst_call_input |-> Emit("CallInput", 0), inst_call_allocate |-> Emit("CallAllocate", 0),
     inst_call_tuple_error |-> Emit("CallTupleError", 0),
     inst_call_tensor_error |-> Emit("CallTensorError", 1)]

L1UpdateActions ==
    [inst_inc |-> Emit("Increment", 1), inst_dec |-> Emit("Decrement", 1),
     inst_lea |-> Emit("Lea", 4)]

L1Actions ==
    L1LeafActions @@ L1RegisterActions @@ L1OperatorActions @@ L1MoveActions
        @@ L1ArithmeticActions @@ L1CompareActions @@ L1CallActions @@ L1UpdateActions

L1Specials == {"inst_label", "function_name", "num_function_args", "num_function_locals"}

L1Function(name) ==
    Node("Function", name, <<Leaf("Number", <<"0">>), Leaf("Number", <<"0">>), Leaf("Body", <<>>)>>)

(* The first function name is the entry point.                             *)
L1FunctionName(g, text) ==
    IF g.entry = <<>> THEN [g EXCEPT !.entry = text] ELSE AddFunction(g, L1Function(text))

InstLabel(g, text) == AddInstruction(g, Node("LabelInstruction", <<>>, <<Leaf("Label", text)>>))

Offset(g, text) ==
    IF Magnitude(text) % 8 = 0 THEN Act(Push("Number"), g, text) ELSE [g EXCEPT !.thrown = TRUE]

L1Apply(g, event) ==
    CASE event.rule = "function_name" -> L1FunctionName(g, event.text)
      [] event.rule = "num_function_args" -> SetChild(g, 1, Leaf("Number", Numeral(event.text)))
      [] event.rule = "num_function_locals" -> SetChild(g, 2, Leaf("Number", Numeral(event.text)))
      [] event.rule = "inst_label" -> InstLabel(g, event.text)
      [] event.rule = "M" -> Offset(g, event.text)
      [] OTHER -> Act(L1Actions[event.rule], g, event.text)

OpStacks == {"arithmetic_ops", "shift_ops", "compare_ops"}

ReadL1(text) ==
    Outcome(Parse(text, L1Rules, DOMAIN L1Actions \cup L1Specials, "grammar"),
            ParserStart(OpStacks, {}), L1Apply)

(***************************************************************************)
(* L1: as L2 prints it.                                                    *)
(***************************************************************************)
OpSpelling ==
    [ADD_EQUAL |-> <<"+", "=">>, SUB_EQUAL |-> <<"-", "=">>, MUL_EQUAL |-> <<"*", "=">>,
     AND_EQUAL |-> <<"&", "=">>, LEFT_SHIFT |-> <<"<", "<", "=">>,
     RIGHT_SHIFT |-> <<">", ">", "=">>, LESS_THAN |-> <<"<">>, LESS_EQUAL |-> <<"<", "=">>,
     EQUAL |-> <<"=">>]

L1OperandForm ==
    [Label |-> <<"$t">>, Number |-> <<"$t">>, Register |-> <<"$t">>,
     MemoryAddress |-> <<"mem", " ", "$1", " ", "$2">>]

L1MoveForm ==
    [Assignment |-> <<"$1", " ", "<", "-", " ", "$2">>,
     Arithmetic |-> <<"$1", " ", "$op", " ", "$2">>,
     Shift |-> <<"$1", " ", "$op", " ", "$2">>,
     Compare |-> <<"$1", " ", "<", "-", " ", "$2", " ", "$op", " ", "$3">>]

L1UpdateForm ==
    [Increment |-> <<"$1", "+", "+">>, Decrement |-> <<"$1", "-", "-">>,
     Lea |-> <<"$1", " ", "@", " ", "$2", " ", "$3", " ", "$4">>]

L1ControlForm ==
    [ConditionalJump |-> <<"cjump", " ", "$1", " ", "$op", " ", "$2", " ", "$3">>,
     LabelInstruction |-> <<"$1">>, Jump |-> <<"goto", " ", "$1">>, Return |-> <<"return">>,
     Call |-> <<"call", " ", "$1", " ", "$2">>,
     CallPrint |-> <<"call", " ", "print", " ", "1">>,
     CallAllocate |-> <<"call", " ", "allocate", " ", "2">>,
     CallInput |-> <<"call", " ", "input", " ", "0">>,
     CallTupleError |-> <<"call", " ", "tuple", "-", "error", " ", "3">>,
     CallTensorError |-> <<"call", " ", "tensor", "-", "error", " ", "$1">>]

L1ProgramForm ==
    [Program |-> <<"(", "$t", "\n", "$all", ")", "\n">>,
     Function |-> <<"\t", "(", "$t", "\n", "\t", "\t", "$1", " ", "$2", "\n", "$3",
                    "\t", ")", "\n", "\n">>,
     Body |-> <<"$lines">>, line |-> <<"\t", "\t", "$1", "\n">>]

PrintL1(program) ==
    Write(L1OperandForm @@ L1MoveForm @@ L1UpdateForm @@ L1ControlForm @@ L1ProgramForm,
          OpSpelling, program)

(***************************************************************************)
(* L2: the grammar.  It is L1's but for the registers, the variables, the  *)
(* stack arguments and what surrounds the functions.                       *)
(***************************************************************************)
L2Lexical ==
    [percent |-> One({"%"}), var |-> All(<<"percent", "name">>)] @@ L1Lexical

L2Registers == [r \in Range(ArgumentRegisters) \cup {"rax", "rsp"} |-> Str(<<r>>)]

L2Operands ==
    [w |-> Sor(<<"a", "rax">>), a |-> Sor(<<"rdi", "rsi", "rdx", "sx", "r8", "r9">>),
     sx |-> Sor(<<"rcx", "var">>), shift_amount |-> Sor(<<"sx", "operand_literal">>)]
    @@ L1Operands

L2Moves ==
    [str_stack_arg |-> Str(<<"stack", "-", "arg">>),
     inst_stack_arg |-> Spaced(<<"w", "op_arrow", "str_stack_arg", "M">>)] @@ L1Moves

L2Instruction ==
    [instruction |->
        Sor(<<"inst_return", "inst_compare", "inst_assign", "inst_mem_load", "inst_mem_store",
              "inst_stack_arg", "inst_arithmetic", "inst_shift", "inst_mem_add_equal",
              "inst_mem_sub_equal", "inst_add_equal_from_mem", "inst_sub_equal_from_mem",
              "inst_cjump", "inst_label", "inst_goto", "inst_call_print", "inst_call_input",
              "inst_call_allocate", "inst_call_tuple_error", "inst_call_tensor_error",
              "inst_call", "inst_inc", "inst_dec", "inst_lea">>)]

(* A file is a program, a function with two variables for the spill test,  *)
(* or a function.                                                          *)
L2Program ==
    [entry_function_name |-> L1Lexical.l,
     program |-> All(<<"seps_with_comments", "spaces", "open", "seps_with_comments",
                       "entry_function_name", "seps_with_comments", "function_list",
                       "seps_with_comments", "spaces", "close", "seps_with_comments">>),
     function |-> All(<<"spaces", "open", "seps_with_comments", "spaces", "function_name",
                        "seps_with_comments", "spaces", "num_function_args",
                        "seps_with_comments", "seps_with_comments", "instruction_list",
                        "seps_with_comments", "spaces", "close">>),
     spill_test |-> All(<<"function", "seps_with_comments", "var", "seps_with_comments", "var">>),
     file |-> Sor(<<"program", "spill_test", "function">>), grammar |-> Must(<<"file">>)]
    @@ L1Program

L2Rules ==
    L2Lexical @@ L2Registers @@ L1Operators @@ L2Operands @@ L1Words @@ L2Moves
        @@ L1Control @@ L2Instruction @@ L2Program

(***************************************************************************)
(* L2: the semantic actions.                                               *)
(***************************************************************************)
L2LeafActions ==
    [r \in {"label", "at_label"} |-> Push("Label")] @@ [var |-> Push("Var")]
    @@ [r \in {"M", "F", "E", "operand_literal", "num_call_args"} |-> Push("Number")]
    @@ [r \in DOMAIN L2Registers |-> Push("Register")]

L2OperatorActions == L1OperatorActions

L2MoveActions == L1MoveActions

L2ArithmeticActions == L1ArithmeticActions

L2ControlActions ==
    [inst_compare |-> EmitOp("Compare", 3, "compare_ops"),
     inst_cjump |-> EmitOp("ConditionalJump", 3, "compare_ops"),
     inst_goto |-> Emit("Jump", 1), inst_return |-> Emit("Return", 0),
     inst_call |-> Emit("Call", 2), inst_call_print |-> Emit("CallPrint", 0)]

L2UpdateActions ==
    [inst_call_input |-> Emit("CallInput", 0), inst_call_allocate |-> Emit("CallAllocate", 0),
     inst_call_tuple_error |-> Emit("CallTupleError", 0),
     inst_call_tensor_error |-> Emit("CallTensorError", 1),
     inst_inc |-> Emit("Increment", 1), inst_dec |-> Emit("Decrement", 1),
     inst_lea |-> Emit("Lea", 4)]

L2Actions ==
    L2LeafActions @@ L2OperatorActions @@ L2MoveActions @@ L2ArithmeticActions
        @@ L2ControlActions @@ L2UpdateActions

L2Specials ==
    {"inst_label", "inst_stack_arg", "entry_function_name", "function_name",
     "num_function_args", "spill_test"}

L2Function(name) == Node("Function", name, <<Leaf("Number", <<"0">>), Leaf("Body", <<>>)>>)

(* The offset is taken out of the stack and put in a node of its own.      *)
InstStackArg(g) ==
    AddInstruction(Drop(g, 2),
        Node("Assignment", <<>>,
            <<g.items[Len(g.items) - 1], Node("StackArg", <<>>, Top(g.items, 1))>>))

(* The prefix and the variable of a spill test; only the tests use them.   *)
SpillTest(g) == Drop(g, 2)

L2Apply(g, event) ==
    CASE event.rule = "entry_function_name" -> [g EXCEPT !.entry = event.text]
      [] event.rule = "function_name" -> AddFunction(g, L2Function(event.text))
      [] event.rule = "num_function_args" -> SetChild(g, 1, Leaf("Number", Numeral(event.text)))
      [] event.rule = "spill_test" -> SpillTest(g)
      [] event.rule = "inst_label" -> InstLabel(g, event.text)
      [] event.rule = "inst_stack_arg" -> InstStackArg(g)
      [] event.rule = "M" -> Offset(g, event.text)
      [] OTHER -> Act(L2Actions[event.rule], g, event.text)

ReadL2(text) ==
    Outcome(Parse(text, L2Rules, DOMAIN L2Actions \cup L2Specials, "grammar"),
            ParserStart(OpStacks, {}), L2Apply)

(***************************************************************************)
(* L2: as L3 prints it, one instruction on a line.                         *)
(***************************************************************************)
L2OperandForm == [Var |-> <<"$t">>, StackArg |-> <<"stack", "-", "arg", " ", "$1">>]

L2ProgramForm ==
    [Program |-> <<"(", "$t", "\n", "$all", ")">>,
     Function |-> <<"(", "$t", " ", "$1", "\n", "$2", ")", "\n">>,
     FunctionFile |-> <<"$1">>, SpillTestFile |-> <<"$1", "\n", "$2", "\n", "$3">>,
     Body |-> <<"$lines">>, line |-> <<"$1", "\n">>]

PrintL2(program) ==
    Write(L1OperandForm @@ L2OperandForm @@ L1MoveForm @@ L1UpdateForm @@ L1ControlForm
              @@ L2ProgramForm, OpSpelling, program)
=============================================================================
