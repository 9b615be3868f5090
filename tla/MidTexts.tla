------------------------------ MODULE MidTexts ------------------------------
(***************************************************************************)
(* The texts of L3 and IR: how they are printed                            *)
(* (IR/src/codegen_visitor.cpp, LA/src/*.cpp) and how they are read        *)
(* (L3/src/parser.cpp, IR/src/parser.cpp).                                 *)
(***************************************************************************)
EXTENDS LowTexts

(***************************************************************************)
(* L3: the grammar.                                                        *)
(***************************************************************************)
L3Lexical == [r \in DOMAIN L2Lexical \ {"M", "E", "F"} |-> L2Lexical[r]]

L3Operators ==
    [op_add |-> Str(<<"+">>), op_sub |-> Str(<<"-">>), op_mul |-> Str(<<"*">>),
     op_and |-> Str(<<"&">>), op_lshift |-> Str(<<"<", "<">>), op_rshift |-> Str(<<">", ">">>),
     op_less |-> Str(<<"<">>), op_less_equal |-> Str(<<"<", "=">>), op_equal |-> Str(<<"=">>),
     op_greater_equal |-> Str(<<">", "=">>), op_greater |-> Str(<<">">>),
     op_arrow |-> Str(<<"<", "-">>)]

L3Operands ==
    [s |-> Sor(<<"t", "label", "l">>), t |-> Sor(<<"var", "N">>), u |-> Sor(<<"var", "l">>),
     op |-> Sor(<<"op_add", "op_sub", "op_mul", "op_and", "op_lshift", "op_rshift">>),
     cmp |-> Sor(<<"op_less_equal", "op_greater_equal", "op_equal", "op_less", "op_greater">>)]

L3Callees ==
    [str_print |-> Str(<<"print">>), str_allocate |-> Str(<<"allocate">>),
     str_input |-> Str(<<"input">>), str_tuple_error |-> Str(<<"tuple", "-", "error">>),
     str_tensor_error |-> Str(<<"tensor", "-", "error">>)]

L3Words ==
    [str_load |-> Str(<<"load">>), str_store |-> Str(<<"store">>),
     str_return |-> Str(<<"return">>), str_br |-> Str(<<"br">>), str_call |-> Str(<<"call">>),
     str_define |-> Str(<<"define">>)]

L3Lists ==
    [callee |-> Sor(<<"u", "str_print", "str_allocate", "str_input", "str_tuple_error",
                      "str_tensor_error">>),
     comma |-> One({","}), comma_sep |-> All(<<"spaces", "comma", "spaces">>),
     vars_list |-> All(<<"var", "vars_more">>), vars_more |-> Star(<<"comma_sep", "var">>),
     vars |-> Opt(<<"vars_list">>),
     args_list |-> All(<<"t", "args_more">>), args_more |-> Star(<<"comma_sep", "t">>),
     args |-> Opt(<<"args_list">>)]

L3Instructions ==
    [inst_assign |-> Spaced(<<"var", "op_arrow", "s">>),
     inst_assign_arithmetic |-> Spaced(<<"var", "op_arrow", "t", "op", "t">>),
     inst_assign_comp |-> Spaced(<<"var", "op_arrow", "t", "cmp", "t">>),
     inst_load |-> Spaced(<<"var", "op_arrow", "str_load", "var">>),
     inst_store |-> Spaced(<<"str_store", "var", "op_arrow", "s">>),
     inst_return |-> All(<<"str_return">>), inst_return_val |-> Spaced(<<"str_return", "t">>),
     inst_label |-> All(<<"label">>), inst_branch |-> Spaced(<<"str_br", "label">>),
     inst_conditional_branch |-> Spaced(<<"str_br", "t", "label">>),
     inst_call |-> Spaced(<<"str_call", "callee", "open", "args", "close">>),
     inst_assign_call |->
        Spaced(<<"var", "op_arrow", "str_call", "callee", "open", "args", "close">>)]

(* The order of the alternatives: what begins with "t" and an operator in  *)
(* front of the assignment that ends after the "t".                        *)
L3Inst ==
    [inst |->
        Sor(<<"inst_assign_arithmetic", "inst_assign_comp", "inst_assign_call", "inst_assign",
              "inst_load", "inst_store", "inst_return_val", "inst_return", "inst_label",
              "inst_conditional_branch", "inst_branch", "inst_call">>)]

L3Program ==
    [open |-> One({"("}), close |-> One({")"}), begin |-> One({"{"}), end |-> One({"}"}),
     function_name |-> L1Lexical.l, function_vars |-> L3Lists.vars,
     one_inst |-> All(<<"seps_with_comments", "spaces", "inst", "spaces", "seps_with_comments">>),
     insts |-> Star(<<"one_inst">>), inst_list |-> All(<<"one_inst", "insts">>),
     function |->
        All(<<"str_define", "spaces", "function_name", "spaces", "open", "spaces",
              "function_vars", "spaces", "close", "spaces", "seps_with_comments", "begin",
              "spaces", "seps_with_comments", "inst_list", "seps_with_comments", "spaces",
              "seps_with_comments", "end", "spaces">>),
     one_function |->
        All(<<"seps_with_comments", "spaces", "function", "spaces", "seps_with_comments">>),
     functions |-> Star(<<"one_function">>), program |-> All(<<"one_function", "functions">>),
     grammar |-> Must(<<"program">>)]

L3Rules ==
    L3Lexical @@ L3Operators @@ L3Operands @@ L3Callees @@ L3Words @@ L3Lists
        @@ L3Instructions @@ L3Inst @@ L3Program

(***************************************************************************)
(* L3: the semantic actions.                                               *)
(***************************************************************************)
L3OperatorActions ==
    [op_add |-> PushOp("ADD", "arithmetic_ops"), op_sub |-> PushOp("SUB", "arithmetic_ops"),
     op_mul |-> PushOp("MUL", "arithmetic_ops"), op_and |-> PushOp("AND", "arithmetic_ops"),
     op_lshift |-> PushOp("LSHIFT", "arithmetic_ops"),
     op_rshift |-> PushOp("RSHIFT", "arithmetic_ops"),
     op_less |-> PushOp("LT", "compare_ops"), op_less_equal |-> PushOp("LE", "compare_ops"),
     op_equal |-> PushOp("EQ", "compare_ops"), op_greater_equal |-> PushOp("GE", "compare_ops"),
     op_greater |-> PushOp("GT", "compare_ops")]

L3LeafActions ==
    [label |-> Push("Label"), l |-> Push("Label"), var |-> Push("Var"), N |-> Push("Number")]

L3CalleeActions ==
    [str_print |-> PushOp("PRINT", "enum_callee"),
     str_allocate |-> PushOp("ALLOCATE", "enum_callee"),
     str_input |-> PushOp("INPUT", "enum_callee"),
     str_tuple_error |-> PushOp("TUPLE_ERROR", "enum_callee"),
     str_tensor_error |-> PushOp("TENSOR_ERROR", "enum_callee")]

L3AssignActions ==
    [inst_assign |-> Emit("Assign", 2),
     inst_assign_arithmetic |-> EmitOp("AssignOp", 3, "arithmetic_ops"),
     inst_assign_comp |-> EmitOp("AssignOp", 3, "compare_ops")]

L3MemoryActions == [inst_load |-> Emit("Load", 2), inst_store |-> Emit("Store", 2)]

L3ControlActions ==
    [inst_return |-> Emit("Return", 0), inst_return_val |-> Emit("ReturnVal", 1),
     inst_label |-> Emit("LabelInstruction", 1), inst_branch |-> Emit("Branch", 1),
     inst_conditional_branch |-> Emit("ConditionalBranch", 2)]

L3Actions ==
    L3LeafActions @@ L3OperatorActions @@ L3CalleeActions @@ L3AssignActions
        @@ L3MemoryActions @@ L3ControlActions

L3Specials ==
    {"args_list", "vars_list", "inst_call", "inst_assign_call", "function_name", "function_vars"}

(* A list is counted by the commas of its text.                            *)
Commas(text) == Len(SelectSeq(text, LAMBDA p : p = ","))

L3Count(g, counter, text) == [g EXCEPT !.count[counter] = 1 + Commas(text)]

(* The arguments, then the callee: a runtime function when the stack of    *)
(* those is not empty, and else the node under the arguments; then, for an *)
(* assignment, what the result is assigned to.                             *)
L3Call(g, kind, dst) ==
    LET args    == Node("Args", <<>>, Top(g.items, g.count["argCount"]))
        rest    == Drop(g, g.count["argCount"])
        runtime == rest.ops["enum_callee"] # <<>>
        callee  == IF runtime THEN Leaf("Runtime", Operator(rest, "enum_callee"))
                   ELSE Top(rest.items, 1)[1]
        left    == IF runtime THEN PopOp(rest, "enum_callee") ELSE Drop(rest, 1)
    IN  [AddInstruction(Drop(left, dst),
                        Node(kind, <<>>, Top(left.items, dst) \o <<callee, args>>))
         EXCEPT !.count["argCount"] = 0]

L3Function(name) == Node("Function", name, <<Leaf("Vars", <<>>), Leaf("Body", <<>>)>>)

FunctionVars(g) ==
    LET n == g.count["varCount"]
    IN  [SetChild(Drop(g, n), 1, Node("Vars", <<>>, Top(g.items, n)))
         EXCEPT !.count["varCount"] = 0]

L3Apply(g, event) ==
    CASE event.rule = "args_list"        -> L3Count(g, "argCount", event.text)
      [] event.rule = "vars_list"        -> L3Count(g, "varCount", event.text)
      [] event.rule = "inst_call"        -> L3Call(g, "Call", 0)
      [] event.rule = "inst_assign_call" -> L3Call(g, "AssignCall", 1)
      [] event.rule = "function_name"    -> AddFunction(g, L3Function(event.text))
      [] event.rule = "function_vars"    -> FunctionVars(g)
      [] OTHER -> Act(L3Actions[event.rule], g, event.text)

ReadL3(text) ==
    Outcome(Parse(text, L3Rules, DOMAIN L3Actions \cup L3Specials, "grammar"),
            ParserStart({"arithmetic_ops", "compare_ops", "enum_callee"},
                        {"argCount", "varCount"}), L3Apply)

(***************************************************************************)
(* L3: as IR prints it.                                                    *)
(***************************************************************************)
CalleeSpelling ==
    [PRINT |-> <<"print">>, ALLOCATE |-> <<"allocate">>, INPUT |-> <<"input">>,
     TUPLE_ERROR |-> <<"tuple", "-", "error">>, TENSOR_ERROR |-> <<"tensor", "-", "error">>]

L3Spelling ==
    [ADD |-> <<"+">>, SUB |-> <<"-">>, MUL |-> <<"*">>, AND |-> <<"&">>,
     LSHIFT |-> <<"<", "<">>, RSHIFT |-> <<">", ">">>, LT |-> <<"<">>, LE |-> <<"<", "=">>,
     EQ |-> <<"=">>, GE |-> <<">", "=">>, GT |-> <<">">>] @@ CalleeSpelling

L3OperandForm ==
    [Var |-> <<"$t">>, Label |-> <<"$t">>, Number |-> <<"$t">>, Runtime |-> <<"$op">>]

L3AssignForm ==
    [Assign |-> <<"$1", " ", "<", "-", " ", "$2">>,
     AssignOp |-> <<"$1", " ", "<", "-", " ", "$2", " ", "$op", " ", "$3">>]

L3MemoryForm ==
    [Load |-> <<"$1", " ", "<", "-", " ", "load", " ", "$2">>,
     Store |-> <<"store", " ", "$1", " ", "<", "-", " ", "$2">>]

CallForm ==
    [Call |-> <<"call", " ", "$1", " ", "(", "$2", ")">>, Args |-> <<"$list">>,
     separator |-> <<",", " ">>]

L3ControlForm ==
    [AssignCall |-> <<"$1", " ", "<", "-", " ", "call", " ", "$2", " ", "(", "$3", ")">>,
     Return |-> <<"return">>, ReturnVal |-> <<"return", " ", "$1">>,
     LabelInstruction |-> <<"$1">>, Branch |-> <<"br", " ", "$1">>,
     ConditionalBranch |-> <<"br", " ", "$1", " ", "$2">>]

L3ProgramForm ==
    [Program |-> <<"$rows">>, Vars |-> <<"$list">>, Body |-> <<"$lines">>,
     Function |-> <<"define", " ", "$t", " ", "(", "$1", ")", " ", "{", "\n", "$2", "\n",
                    "}", "\n">>,
     line |-> <<" ", "$1", "\n">>]

PrintL3(program) ==
    Write(L3OperandForm @@ L3AssignForm @@ L3MemoryForm @@ CallForm @@ L3ControlForm
              @@ L3ProgramForm, L3Spelling, program)

(***************************************************************************)
(* IR: the grammar.                                                        *)
(***************************************************************************)
IRLexical == L3Lexical

IROperators == L3Operators

IRTypes ==
    [str_int64 |-> Str(<<"int64">>), str_tuple |-> Str(<<"tuple">>), str_code |-> Str(<<"code">>),
     str_void |-> Str(<<"void">>), str_brackets |-> Str(<<"[", "]">>),
     brackets |-> Star(<<"str_brackets">>), int64_type |-> All(<<"str_int64", "brackets">>),
     type |-> Sor(<<"int64_type", "str_tuple", "str_code">>), T |-> Sor(<<"type", "str_void">>)]

IROperands ==
    [s |-> Sor(<<"t", "l">>), t |-> Sor(<<"var", "N">>), u |-> Sor(<<"var", "l">>),
     op |-> Sor(<<"op_add", "op_sub", "op_mul", "op_and", "op_lshift", "op_rshift",
                  "op_less_equal", "op_greater_equal", "op_equal", "op_less", "op_greater">>)]

IRCallees == [r \in DOMAIN L3Callees \ {"str_allocate"} |-> L3Callees[r]]

IRWords ==
    [str_length |-> Str(<<"length">>), str_return |-> Str(<<"return">>), str_br |-> Str(<<"br">>),
     str_call |-> Str(<<"call">>), str_define |-> Str(<<"define">>), str_new |-> Str(<<"new">>),
     str_Array |-> Str(<<"Array">>), str_Tuple |-> Str(<<"Tuple">>)]

IRExpressions ==
    [callee |-> Sor(<<"u", "str_print", "str_input", "str_tuple_error", "str_tensor_error">>),
     oper |-> Spaced(<<"t", "op", "t">>),
     lbracket |-> One({"["}), rbracket |-> One({"]"}), index |-> IROperands.t,
     one_index |-> Spaced(<<"lbracket", "index", "rbracket">>),
     more_indices |-> Star(<<"one_index">>),
     var_index |-> All(<<"var", "spaces", "one_index", "more_indices">>),
     function_call |-> Spaced(<<"str_call", "callee", "open", "args", "close">>),
     new_array |-> Spaced(<<"str_Array", "open", "args", "close">>),
     new_tuple |-> Spaced(<<"str_Tuple", "open", "t", "close">>),
     array_length |-> Spaced(<<"str_length", "var", "t">>),
     tuple_length |-> Spaced(<<"str_length", "var">>)]

IRLists ==
    [comma |-> One({","}), comma_sep |-> All(<<"spaces", "comma", "spaces">>),
     arg |-> IROperands.t, args_list |-> All(<<"arg", "args_more">>),
     args_more |-> Star(<<"comma_sep", "arg">>), args |-> Opt(<<"args_list">>),
     param |-> Spaced(<<"type", "var">>), param_list |-> All(<<"param", "params_more">>),
     params_more |-> Star(<<"comma_sep", "param">>), params |-> Opt(<<"param_list">>)]

IRInstructions ==
    [inst_var_def |-> Spaced(<<"type", "var">>),
     inst_var_num_label_assign |-> Spaced(<<"var", "op_arrow", "s">>),
     inst_op_assign |-> Spaced(<<"var", "op_arrow", "oper">>),
     inst_index_load |-> Spaced(<<"var", "op_arrow", "var_index">>),
     inst_index_store |-> Spaced(<<"var_index", "op_arrow", "s">>),
     inst_array_length |-> Spaced(<<"var", "op_arrow", "array_length">>),
     inst_tuple_length |-> Spaced(<<"var", "op_arrow", "tuple_length">>),
     inst_call |-> All(<<"function_call">>),
     inst_call_assign |-> Spaced(<<"var", "op_arrow", "function_call">>),
     inst_assign_new_array |-> Spaced(<<"var", "op_arrow", "str_new", "new_array">>),
     inst_assign_new_tuple |-> Spaced(<<"var", "op_arrow", "str_new", "new_tuple">>),
     inst_branch |-> Spaced(<<"str_br", "label">>),
     inst_cond_branch |-> Spaced(<<"str_br", "t", "label", "label">>),
     inst_return |-> All(<<"str_return">>), inst_return_val |-> Spaced(<<"str_return", "t">>)]

(* Variant: the length of a tuple is tried before that of a dimension.     *)
IRInstShortFirst ==
    [inst |->
        Sor(<<"inst_var_def", "inst_op_assign", "inst_index_load", "inst_index_store",
              "inst_tuple_length", "inst_array_length", "inst_var_num_label_assign",
              "inst_call", "inst_call_assign", "inst_assign_new_array",
              "inst_assign_new_tuple">>),
     te |-> Sor(<<"inst_cond_branch", "inst_branch", "inst_return_val", "inst_return">>)]

(* The order of the alternatives: an operation and an access in front of   *)
(* the assignment they begin like, two lengths in front of one.            *)
IRInst ==
    [inst |->
        Sor(<<"inst_var_def", "inst_op_assign", "inst_index_load", "inst_index_store",
              "inst_array_length", "inst_tuple_length", "inst_var_num_label_assign",
              "inst_call", "inst_call_assign", "inst_assign_new_array",
              "inst_assign_new_tuple">>),
     te |-> Sor(<<"inst_cond_branch", "inst_branch", "inst_return_val", "inst_return">>)]

IRProgram ==
    [open |-> One({"("}), close |-> One({")"}), begin |-> One({"{"}), end |-> One({"}"}),
     function_name |-> L1Lexical.l, function_params |-> IRLists.params,
     bb_label |-> L1Lexical.label,
     inst_list |->
        Star(<<"seps_with_comments", "spaces", "inst", "spaces", "seps_with_comments">>),
     bb |-> All(<<"spaces", "bb_label", "seps_with_comments", "inst_list",
                  "seps_with_comments", "spaces", "te">>),
     one_bb |-> All(<<"seps_with_comments", "bb", "seps_with_comments">>),
     bbs |-> Star(<<"one_bb">>), bb_list |-> All(<<"one_bb", "bbs">>),
     function |->
        All(<<"str_define", "spaces", "T", "spaces", "function_name", "spaces", "open",
              "spaces", "function_params", "spaces", "close", "spaces", "seps_with_comments",
              "begin", "bb_list", "seps_with_comments", "spaces", "end">>)]
    @@ [r \in {"one_function", "functions", "program", "grammar"} |-> L3Program[r]]

IRRules ==
    IRLexical @@ IROperators @@ IRTypes @@ IROperands @@ IRCallees @@ IRWords
        @@ IRExpressions @@ IRLists @@ IRInstructions @@ IRInst @@ IRProgram

(***************************************************************************)
(* IR: the semantic actions.                                               *)
(***************************************************************************)
IRLeafActions ==
    [l |-> Push("Label"), label |-> Push("Label"), var |-> Push("Var"), type |-> Push("Type"),
     str_void |-> Push("Type"), N |-> Push("Number")]

IROperatorActions ==
    [op_add |-> PushOp("PLUS", "enum_op"), op_sub |-> PushOp("SUB", "enum_op"),
     op_mul |-> PushOp("MUL", "enum_op"), op_and |-> PushOp("AND", "enum_op"),
     op_lshift |-> PushOp("LSHIFT", "enum_op"), op_rshift |-> PushOp("RSHIFT", "enum_op"),
     op_less |-> PushOp("LT", "enum_op"), op_less_equal |-> PushOp("LE", "enum_op"),
     op_equal |-> PushOp("EQ", "enum_op"), op_greater_equal |-> PushOp("GE", "enum_op"),
     op_greater |-> PushOp("GT", "enum_op")]

IRCalleeActions ==
    [str_print |-> PushOp("PRINT", "enum_callee"), str_input |-> PushOp("INPUT", "enum_callee"),
     str_tuple_error |-> PushOp("TUPLE_ERROR", "enum_callee"),
     str_tensor_error |-> PushOp("TENSOR_ERROR", "enum_callee")]

IRExpressionActions ==
    [index |-> Count("indexCounter"), arg |-> Count("argCounter"),
     new_tuple |-> Wrap("NewTuple", 1), array_length |-> Wrap("ArrayLength", 2),
     tuple_length |-> Wrap("TupleLength", 1)]

IRAssignActions ==
    [inst_var_def |-> Emit("VarDef", 2), inst_var_num_label_assign |-> Emit("Assign", 2),
     inst_op_assign |-> Emit("Assign", 2), inst_index_load |-> Emit("Assign", 2),
     inst_index_store |-> Emit("Assign", 2), inst_array_length |-> Emit("Assign", 2),
     inst_tuple_length |-> Emit("Assign", 2)]

IRCallActions ==
    [inst_call |-> Emit("CallInstruction", 1), inst_call_assign |-> Emit("Assign", 2),
     inst_assign_new_array |-> Emit("Assign", 2), inst_assign_new_tuple |-> Emit("Assign", 2)]

IRBranchActions ==
    [inst_branch |-> Emit("Branch", 1), inst_cond_branch |-> Emit("ConditionalBranch", 3),
     inst_return |-> Emit("Return", 0), inst_return_val |-> Emit("ReturnVal", 1)]

IRActions ==
    IRLeafActions @@ IROperatorActions @@ IRCalleeActions @@ IRExpressionActions
        @@ IRAssignActions @@ IRCallActions @@ IRBranchActions

IRSpecials ==
    {"callee", "oper", "var_index", "function_call", "new_array", "param", "function_name",
     "function_params", "bb_label"}

(* The callee of a call: a runtime function when one has been read, and    *)
(* else the node on top of the stack.                                      *)
CalleeAction(g) ==
    IF g.ops["enum_callee"] # <<>>
    THEN Item(PopOp(g, "enum_callee"), Leaf("Runtime", Operator(g, "enum_callee")))
    ELSE Item(Drop(g, 1), Node("Callee", <<>>, Top(g.items, 1)))

OperAction(g, kind) ==
    Item(PopOp(Drop(g, 2), "enum_op"),
         Node(kind, Operator(g, "enum_op"), Top(g.items, 2)))

(* As many nodes as the counter says, over "below" others that come first; *)
(* the counter is back at zero.                                            *)
Gather(g, kind, below, several, counter) ==
    LET n    == g.count[counter]
        list == Node(several, <<>>, Top(g.items, n))
        rest == Drop(g, n)
    IN  Item([Drop(rest, below) EXCEPT !.count[counter] = 0],
             Node(kind, <<>>, Top(rest.items, below) \o <<list>>))

VarIndexAction(g) == Gather(g, "Index", 1, "Indices", "indexCounter")

FunctionCallAction(g) == Gather(g, "Call", 1, "Args", "argCounter")

NewArrayAction(g) == Gather(g, "NewArray", 0, "Args", "argCounter")

ParamAction(g) ==
    Item([Drop(g, 2) EXCEPT !.count["paramCounter"] = @ + 1],
         Node("Parameter", <<>>, Top(g.items, 2)))

(* The type of the function lies on the stack from before its name.        *)
IRFunctionName(g, name) ==
    AddFunction(Drop(g, 1), Node("Function", name, Top(g.items, 1) \o <<Leaf("Params", <<>>)>>))

FunctionParams(g) ==
    LET n == g.count["paramCounter"]
    IN  [SetChild(Drop(g, n), 2, Node("Params", <<>>, Top(g.items, n)))
         EXCEPT !.count["paramCounter"] = 0]

BlockLabel(g, label) == AddBlock(g, Leaf("BasicBlock", label))

IRApply(g, event) ==
    CASE event.rule = "callee"          -> CalleeAction(g)
      [] event.rule = "oper"            -> OperAction(g, "Operator")
      [] event.rule = "var_index"       -> VarIndexAction(g)
      [] event.rule = "function_call"   -> FunctionCallAction(g)
      [] event.rule = "new_array"       -> NewArrayAction(g)
      [] event.rule = "param"           -> ParamAction(g)
      [] event.rule = "function_name"   -> IRFunctionName(g, event.text)
      [] event.rule = "function_params" -> FunctionParams(g)
      [] event.rule = "bb_label"        -> BlockLabel(g, event.text)
      [] OTHER -> Act(IRActions[event.rule], g, event.text)

ReadIR(text) ==
    Outcome(Parse(text, IRRules, DOMAIN IRActions \cup IRSpecials, "grammar"),
            ParserStart({"enum_op", "enum_callee"},
                        {"indexCounter", "argCounter", "paramCounter"}), IRApply)

(***************************************************************************)
(* IR: as LA prints it.                                                    *)
(***************************************************************************)
IRSpelling == (("PLUS" :> <<"+">>) @@ L3Spelling)

IRExpressionForm ==
    [Callee |-> <<"$1">>, Operator |-> <<"$1", " ", "$op", " ", "$2">>,
     Index |-> <<"$1", "$2">>, Indices |-> <<"$items">>, item |-> <<"[", "$1", "]">>,
     NewArray |-> <<"new", " ", "Array", "(", "$1", ")">>,
     NewTuple |-> <<"new", " ", "Tuple", "(", "$1", ")">>,
     ArrayLength |-> <<"length", " ", "$1", " ", "$2">>,
     TupleLength |-> <<"length", " ", "$1", " ">>]

IRInstructionForm ==
    [VarDef |-> <<"$1", " ", "$2">>, Assign |-> <<"$1", " ", "<", "-", " ", "$2">>,
     CallInstruction |-> <<"$1">>, Branch |-> <<"br", " ", "$1">>,
     ConditionalBranch |-> <<"br", " ", "$1", " ", "$2", " ", "$3">>,
     Return |-> <<"return">>, ReturnVal |-> <<"return", " ", "$1">>]

IRProgramForm ==
    [Program |-> <<"$rows">>, Params |-> <<"$list">>, Parameter |-> <<"$1", " ", "$2">>,
     Type |-> <<"$t">>, BasicBlock |-> <<"$t", "\n", "$lines">>, line |-> <<" ", "$1", "\n">>,
     Function |-> <<"define", " ", "$1", " ", "$t", " ", "(", "$2", ")", " ", "{", "\n", "\n",
                    "$rest", "}">>]

PrintIR(program) ==
    Write(L3OperandForm @@ CallForm @@ IRExpressionForm @@ IRInstructionForm @@ IRProgramForm,
          IRSpelling, program)
=============================================================================
