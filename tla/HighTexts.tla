----------------------------- MODULE HighTexts -----------------------------
(***************************************************************************)
(* The texts of LA and LB: how they are printed (LB/src/*.cpp) and how     *)
(* they are read (LA/src/parser.cpp, LB/src/parser.cpp).                   *)
(***************************************************************************)
EXTENDS MidTexts

(***************************************************************************)
(* LA: the grammar.  Names have no sign in front, so a word of the         *)
(* language is also a name, and the order of the alternatives decides.     *)
(***************************************************************************)
LALexical ==
    [var_name |-> L1Lexical.name, label_name |-> L1Lexical.name,
     label |-> All(<<"colon", "label_name">>)]
    @@ [r \in DOMAIN L3Lexical \ {"at", "l", "percent", "var", "label"} |-> L3Lexical[r]]

LAOperators == L3Operators

LATypes == IRTypes

LAOperands ==
    [t |-> Sor(<<"var_name", "N">>), op |-> IROperands.op]

LAWords == [r \in DOMAIN IRWords \ {"str_call"} |-> IRWords[r]]

LAExpressions ==
    [oper |-> Spaced(<<"t", "op", "t">>),
     lbracket |-> One({"["}), rbracket |-> One({"]"}), index |-> LAOperands.t,
     one_index |-> Spaced(<<"lbracket", "index", "rbracket">>),
     more_indices |-> Star(<<"one_index">>),
     name_index |-> All(<<"var_name", "spaces", "one_index", "more_indices">>),
     function_call |-> Spaced(<<"var_name", "open", "args", "close">>),
     new_array |-> Spaced(<<"str_new", "str_Array", "open", "args", "close">>),
     new_tuple |-> Spaced(<<"str_new", "str_Tuple", "open", "t", "close">>),
     length_index |-> LAOperands.t, opt_length_index |-> Opt(<<"length_index">>),
     length |-> Spaced(<<"str_length", "var_name", "opt_length_index">>)]

LALists ==
    [comma |-> One({","}), comma_sep |-> All(<<"spaces", "comma", "spaces">>),
     arg |-> LAOperands.t, args_list |-> All(<<"arg", "args_more">>),
     args_more |-> Star(<<"comma_sep", "arg">>), args |-> Opt(<<"args_list">>),
     param |-> Spaced(<<"type", "var_name">>), param_list |-> All(<<"param", "params_more">>),
     params_more |-> Star(<<"comma_sep", "param">>), params |-> Opt(<<"param_list">>)]

LAInstructions ==
    [inst_name_def |-> Spaced(<<"type", "var_name">>),
     inst_name_num_assign |-> Spaced(<<"var_name", "op_arrow", "t">>),
     inst_op_assign |-> Spaced(<<"var_name", "op_arrow", "oper">>),
     inst_label |-> All(<<"label">>), inst_branch |-> Spaced(<<"str_br", "label">>),
     inst_cond_branch |-> Spaced(<<"str_br", "t", "label", "label">>),
     inst_return |-> All(<<"str_return">>), inst_return_val |-> Spaced(<<"str_return", "t">>),
     inst_index_load |-> Spaced(<<"var_name", "op_arrow", "name_index">>),
     inst_index_store |-> Spaced(<<"name_index", "op_arrow", "t">>),
     inst_length |-> Spaced(<<"var_name", "op_arrow", "length">>),
     inst_call |-> All(<<"function_call">>),
     inst_call_assign |-> Spaced(<<"var_name", "op_arrow", "function_call">>),
     inst_new_array_assign |-> Spaced(<<"var_name", "op_arrow", "new_array">>),
     inst_new_tuple_assign |-> Spaced(<<"var_name", "op_arrow", "new_tuple">>)]

LAInst ==
    [inst |->
        Sor(<<"inst_name_def", "inst_op_assign", "inst_index_load", "inst_index_store",
              "inst_length", "inst_call", "inst_call_assign", "inst_new_array_assign",
              "inst_new_tuple_assign", "inst_name_num_assign", "inst_cond_branch",
              "inst_branch", "inst_return_val", "inst_return", "inst_label">>)]

LAProgram ==
    [open |-> One({"("}), close |-> One({")"}), begin |-> One({"{"}), end |-> One({"}"}),
     function_name |-> LALexical.var_name, function_params |-> LALists.params,
     inst_list |->
        Star(<<"seps_with_comments", "spaces", "inst", "spaces", "seps_with_comments">>),
     function |->
        All(<<"T", "spaces", "function_name", "spaces", "open", "spaces", "function_params",
              "spaces", "close", "spaces", "seps_with_comments", "begin", "inst_list",
              "seps_with_comments", "spaces", "end">>)]
    @@ [r \in {"one_function", "functions", "program", "grammar"} |-> L3Program[r]]

LARules ==
    LALexical @@ LAOperators @@ LATypes @@ LAOperands @@ LAWords @@ LAExpressions
        @@ LALists @@ LAInstructions @@ LAInst @@ LAProgram

(***************************************************************************)
(* LA: the semantic actions.                                               *)
(***************************************************************************)
LALeafActions ==
    [label |-> Push("Label"), var_name |-> Push("Name"), type |-> Push("Type"),
     str_void |-> Push("Type"), N |-> Push("Number")]

LAOperatorActions == IROperatorActions

LAExpressionActions ==
    [index |-> Count("indexCounter"), arg |-> Count("argCounter"),
     length_index |-> Count("existsLengthIndex"), new_tuple |-> Wrap("NewTuple", 1)]

LAAssignActions ==
    [inst_name_def |-> Emit("VarDef", 2), inst_name_num_assign |-> Emit("Assign", 2),
     inst_op_assign |-> Emit("Assign", 2)]

LABranchActions ==
    [inst_label |-> Emit("LabelInstruction", 1), inst_branch |-> Emit("Branch", 1),
     inst_cond_branch |-> Emit("ConditionalBranch", 3), inst_return |-> Emit("Return", 0),
     inst_return_val |-> Emit("ReturnVal", 1)]

LAAccessActions ==
    [inst_index_load |-> Emit("Assign", 2), inst_index_store |-> Emit("Assign", 2),
     inst_length |-> Emit("Assign", 2), inst_call |-> Emit("CallInstruction", 1),
     inst_call_assign |-> Emit("Assign", 2), inst_new_array_assign |-> Emit("Assign", 2),
     inst_new_tuple_assign |-> Emit("Assign", 2)]

LAActions ==
    LALeafActions @@ LAOperatorActions @@ LAExpressionActions @@ LAAssignActions
        @@ LABranchActions @@ LAAccessActions

LASpecials ==
    {"oper", "name_index", "function_call", "new_array", "length", "param", "function_name",
     "function_params"}

(* Variant: the flag is not cleared.                                       *)
LengthActionKept(g) ==
    LET n == 1 + g.count["existsLengthIndex"]
    IN  Item(Drop(g, n),
             Node(IF n = 1 THEN "TupleLength" ELSE "ArrayLength", <<>>, Top(g.items, n)))

(* existsLengthIndex is a flag: one when a dimension follows the name.     *)
LengthAction(g) ==
    LET n == 1 + g.count["existsLengthIndex"]
    IN  Item([Drop(g, n) EXCEPT !.count["existsLengthIndex"] = 0],
             Node(IF n = 1 THEN "TupleLength" ELSE "ArrayLength", <<>>, Top(g.items, n)))

LAFunction(g, name) ==
    AddFunction(Drop(g, 1),
        Node("Function", name, Top(g.items, 1) \o <<Leaf("Params", <<>>), Leaf("Body", <<>>)>>))

LAApply(g, event) ==
    CASE event.rule = "oper"            -> OperAction(g, "Operator")
      [] event.rule = "name_index"      -> Gather(g, "Index", 1, "Indices", "indexCounter")
      [] event.rule = "function_call"   -> Gather(g, "Call", 1, "Args", "argCounter")
      [] event.rule = "new_array"       -> Gather(g, "NewArray", 0, "Args", "argCounter")
      [] event.rule = "length"          -> LengthAction(g)
      [] event.rule = "param"           -> ParamAction(g)
      [] event.rule = "function_name"   -> LAFunction(g, event.text)
      [] event.rule = "function_params" -> FunctionParams(g)
      [] OTHER -> Act(LAActions[event.rule], g, event.text)

ReadLA(text) ==
    Outcome(Parse(text, LARules, DOMAIN LAActions \cup LASpecials, "grammar"),
            ParserStart({"enum_op"},
                        {"indexCounter", "argCounter", "paramCounter", "existsLengthIndex"}),
            LAApply)

(***************************************************************************)
(* LA: as LB prints it.                                                    *)
(***************************************************************************)
LASpelling == IRSpelling

LAOperandForm ==
    [Name |-> <<"$t">>, Number |-> <<"$t">>, Label |-> <<"$t">>, Type |-> <<"$t">>,
     Parameter |-> <<"$1", " ", "$2">>]

LAExpressionForm ==
    [Operator |-> <<"$1", " ", "$op", " ", "$2">>,
     Index |-> <<"$1", "$2">>, Indices |-> <<"$items">>, item |-> <<"[", "$1", "]">>,
     ArrayLength |-> <<"length", " ", "$1", " ", "$2">>, TupleLength |-> <<"length", " ", "$1">>,
     Call |-> <<"$1", "(", "$2", ")">>, Args |-> <<"$list">>, separator |-> <<",", " ">>,
     NewArray |-> <<"new", " ", "Array", "(", "$1", ")">>,
     NewTuple |-> <<"new", " ", "Tuple", "(", "$1", ")">>]

LAInstructionForm ==
    [VarDef |-> <<" ", " ", "$1", " ", "$2", "\n">>,
     Assign |-> <<" ", " ", "$1", " ", "<", "-", " ", "$2", "\n">>,
     LabelInstruction |-> <<"$1", "\n">>, Branch |-> <<" ", " ", "br", " ", "$1", "\n">>,
     ConditionalBranch |-> <<" ", " ", "br", " ", "$1", " ", "$2", " ", "$3", "\n">>,
     Return |-> <<" ", " ", "return", "\n">>, ReturnVal |-> <<" ", " ", "return", " ", "$1", "\n">>,
     CallInstruction |-> <<" ", " ", "$1", "\n">>]

LAProgramForm ==
    [Program |-> <<"$rows">>, Params |-> <<"$list">>, Body |-> <<"$all">>,
     Function |-> <<"$1", " ", "$t", "(", "$2", ")", " ", "{", "\n", "$3", "}", "\n">>]

PrintLA(program) ==
    Write(LAOperandForm @@ LAExpressionForm @@ LAInstructionForm @@ LAProgramForm,
          LASpelling, program)

(***************************************************************************)
(* LB: the grammar.  Blanks, line breaks and comments separate; "spaces"   *)
(* are one or more blanks or line breaks.                                  *)
(***************************************************************************)
(* The items of a rule with optional white space in between.               *)
Loose(rules) ==
    All([j \in 1..(2 * Len(rules) - 1) |-> IF j % 2 = 1 THEN rules[(j + 1) \div 2] ELSE "ws"])

LBLexical ==
    [space |-> One({" ", "\t", "\n"}), slashes |-> Str(<<"/", "/">>), to_eolf |-> UntilEolf,
     comment |-> Disable(<<"slashes", "to_eolf">>), ws_unit |-> Sor(<<"space", "comment">>),
     ws |-> Star(<<"ws_unit">>), more_spaces |-> Star(<<"space">>),
     spaces |-> All(<<"space", "more_spaces">>),
     comma |-> One({","}), comma_sep |-> All(<<"ws", "comma", "ws">>)]

LBOperand == Sor(<<"value_name", "N">>)

LBNames ==
    [name_first |-> L1Lexical.name_first, name_rest |-> L1Lexical.name_rest,
     name_rests |-> L1Lexical.name_rests, identifier |-> L1Lexical.name,
     colon |-> One({":"}), label |-> All(<<"colon", "identifier">>)]
    @@ [r \in {"value_name", "decl_name", "param_name", "call_name", "function_name_tok"} |->
            L1Lexical.name]
    @@ [r \in {"sign", "opt_sign", "digit", "more_digits", "digits", "N"} |-> L1Lexical[r]]

LBWords ==
    [str_if |-> Str(<<"if">>), str_while |-> Str(<<"while">>), str_goto |-> Str(<<"goto">>),
     str_return |-> Str(<<"return">>), str_continue |-> Str(<<"continue">>),
     str_break |-> Str(<<"break">>), str_new |-> Str(<<"new">>), str_Array |-> Str(<<"Array">>),
     str_Tuple |-> Str(<<"Tuple">>), str_length |-> Str(<<"length">>)]

LBOperators ==
    [cmp |-> L3Operands.cmp,
     op |-> Sor(<<"op_add", "op_sub", "op_mul", "op_and", "op_lshift", "op_rshift", "cmp">>)]
    @@ L3Operators

LBExpressions ==
    [t |-> LBOperand,
     cond |-> Loose(<<"t", "cmp", "t">>), oper |-> Loose(<<"t", "op", "t">>),
     lbracket |-> One({"["}), rbracket |-> One({"]"}), index_item |-> LBOperand,
     one_index |-> Loose(<<"lbracket", "index_item", "rbracket">>),
     more_indices |-> Star(<<"ws", "one_index">>),
     name_index |-> All(<<"value_name", "ws", "one_index", "more_indices">>),
     length_index |-> LBOperand, opt_length_index |-> Opt(<<"spaces", "length_index">>),
     length |-> All(<<"str_length", "spaces", "value_name", "opt_length_index">>),
     function_call |-> Loose(<<"call_name", "open", "args", "close">>),
     after_new_array |-> Loose(<<"str_Array", "open", "args", "close">>),
     new_array |-> All(<<"str_new", "spaces", "after_new_array">>),
     after_new_tuple |-> Loose(<<"str_Tuple", "open", "t", "close">>),
     new_tuple |-> All(<<"str_new", "spaces", "after_new_tuple">>)]

LBLists ==
    [must_decl |-> Must(<<"decl_name">>), more_names |-> Star(<<"comma_sep", "must_decl">>),
     names |-> All(<<"decl_name", "more_names">>),
     arg |-> LBOperand, more_args |-> Star(<<"comma_sep", "arg">>),
     args_list |-> All(<<"arg", "more_args">>), args |-> Opt(<<"args_list">>),
     params_entry |-> All(<<"type", "spaces", "param_name">>),
     more_params |-> Star(<<"comma_sep", "params_entry">>),
     params_list |-> All(<<"params_entry", "more_params">>), params |-> Opt(<<"params_list">>)]

LBScope == All(<<"scope_open", "ws", "insts", "scope_close">>)

LBScopeRules ==
    [scope_open |-> One({"{"}), scope_close |-> One({"}"}), insts |-> Star(<<"inst", "ws">>),
     scope |-> LBScope, inst_scope |-> LBScope, function_scope |-> LBScope]

LBInstructions ==
    [inst_name_def |-> All(<<"type", "spaces", "names">>),
     inst_op_assign |-> Loose(<<"value_name", "op_arrow", "oper">>),
     inst_name_num_assign |-> Loose(<<"value_name", "op_arrow", "t">>),
     inst_label |-> All(<<"label">>),
     inst_if |-> Loose(<<"str_if", "open", "cond", "close", "label", "label">>),
     inst_goto |-> All(<<"str_goto", "spaces", "label">>),
     inst_return_val |-> All(<<"str_return", "spaces", "t">>),
     inst_return |-> All(<<"str_return">>),
     inst_while |-> Loose(<<"str_while", "open", "cond", "close", "label", "label">>),
     inst_continue |-> All(<<"str_continue">>), inst_break |-> All(<<"str_break">>),
     inst_index_load |-> Loose(<<"value_name", "op_arrow", "name_index">>),
     inst_index_store |-> Loose(<<"name_index", "op_arrow", "t">>),
     inst_length |-> Loose(<<"value_name", "op_arrow", "length">>),
     inst_call |-> All(<<"function_call">>),
     inst_call_assign |-> Loose(<<"value_name", "op_arrow", "function_call">>),
     inst_new_array_assign |-> Loose(<<"value_name", "op_arrow", "new_array">>),
     inst_new_tuple_assign |-> Loose(<<"value_name", "op_arrow", "new_tuple">>)]

LBInst ==
    [inst |->
        Sor(<<"inst_name_def", "inst_new_array_assign", "inst_new_tuple_assign",
              "inst_call_assign", "inst_length", "inst_index_load", "inst_index_store",
              "inst_op_assign", "inst_name_num_assign", "inst_if", "inst_goto",
              "inst_return_val", "inst_return", "inst_while", "inst_continue", "inst_break",
              "inst_call", "inst_label", "inst_scope">>)]

LBProgram ==
    [open |-> One({"("}), close |-> One({")"}), function_params |-> LBLists.params,
     function |-> Loose(<<"T", "function_name_tok", "open", "function_params", "close",
                          "function_scope">>),
     one_function |-> All(<<"ws", "function", "ws">>), functions |-> Star(<<"one_function">>),
     program |-> All(<<"one_function", "functions">>), eof |-> Eof,
     grammar |-> Must(<<"program", "eof">>)]

LBRules ==
    LBLexical @@ LBNames @@ LBWords @@ IRTypes @@ LBOperators @@ LBExpressions @@ LBLists
        @@ LBScopeRules @@ LBInstructions @@ LBInst @@ LBProgram

(***************************************************************************)
(* LB: the semantic actions.                                               *)
(***************************************************************************)
LBLeafActions ==
    [value_name |-> Push("Name"), param_name |-> Push("Name"), call_name |-> Push("Name"),
     label |-> Push("Label"), type |-> Push("Type"), str_void |-> Push("Type"),
     N |-> Push("Number")]

LBOperatorActions == IROperatorActions

LBCountActions ==
    [index_item |-> Count("indexCounter"), arg |-> Count("argCounter"),
     length_index |-> Count("existsLengthIndex"), new_tuple |-> Wrap("NewTuple", 1)]

LBAssignActions ==
    [inst_name_num_assign |-> Emit("Assign", 2), inst_op_assign |-> Emit("Assign", 2),
     inst_label |-> Emit("LabelInstruction", 1), inst_if |-> Emit("If", 3),
     inst_goto |-> Emit("Branch", 1), inst_return |-> Emit("Return", 0),
     inst_return_val |-> Emit("ReturnVal", 1), inst_while |-> Emit("While", 3),
     inst_continue |-> Emit("Continue", 0), inst_break |-> Emit("Break", 0)]

LBAccessActions == LAAccessActions

LBActions ==
    LBLeafActions @@ LBOperatorActions @@ LBCountActions @@ LBAssignActions @@ LBAccessActions

LBSpecials ==
    {"decl_name", "oper", "cond", "name_index", "function_call", "new_array", "length",
     "params_entry", "inst_name_def", "function_name_tok", "function_params", "scope_open",
     "scope_close", "function_scope"}

(* add_instruction: at the end of the innermost open scope.                *)
InScope(g, nodes) ==
    LET scopes == g.ops["scope_instruction_stack"]
    IN  [g EXCEPT !.ops["scope_instruction_stack"][Len(scopes)] = @ \o nodes]

DeclName(g, name) ==
    [Item(g, Leaf("Name", name)) EXCEPT !.count["declCounter"] = @ + 1]

(* One declaration for each name of the list.                              *)
NameDef(g) ==
    LET n     == g.count["declCounter"]
        names == Top(g.items, n)
        type  == Top(g.items, n + 1)[1]
    IN  InScope([Drop(g, n + 1) EXCEPT !.count["declCounter"] = 0],
                [j \in 1..n |-> Node("VarDef", <<>>, <<type, names[j]>>)])

ScopeOpen(g) == [g EXCEPT !.ops["scope_instruction_stack"] = Append(@, <<>>)]

(* A closed scope is a statement of the scope around it, or else a node    *)
(* for the function to take.                                               *)
ScopeClose(g) ==
    LET closed == Node("Scope", <<>>, Operator(g, "scope_instruction_stack")[1])
        left   == PopOp(g, "scope_instruction_stack")
    IN  IF left.ops["scope_instruction_stack"] = <<>> THEN Item(left, closed)
        ELSE InScope(left, <<closed>>)

FunctionScope(g) == SetChild(Drop(g, 1), 3, Top(g.items, 1)[1])

LBInstruction(act, g) == InScope(Left(act, g), <<Made(act, g)>>)

LBApply(g, event) ==
    CASE event.rule = "decl_name"         -> DeclName(g, event.text)
      [] event.rule = "oper"              -> OperAction(g, "Operator")
      [] event.rule = "cond"              -> OperAction(g, "CondOperator")
      [] event.rule = "name_index"        -> Gather(g, "Index", 1, "Indices", "indexCounter")
      [] event.rule = "function_call"     -> Gather(g, "Call", 1, "Args", "argCounter")
      [] event.rule = "new_array"         -> Gather(g, "NewArray", 0, "Args", "argCounter")
      [] event.rule = "length"            -> LengthAction(g)
      [] event.rule = "params_entry"      -> ParamAction(g)
      [] event.rule = "inst_name_def"     -> NameDef(g)
      [] event.rule = "function_name_tok" -> LAFunction(g, event.text)
      [] event.rule = "function_params"   -> FunctionParams(g)
      [] event.rule = "scope_open"        -> ScopeOpen(g)
      [] event.rule = "scope_close"       -> ScopeClose(g)
      [] event.rule = "function_scope"    -> FunctionScope(g)
      [] event.rule \in DOMAIN (LBAssignActions @@ LBAccessActions) ->
            LBInstruction(LBActions[event.rule], g)
      [] OTHER -> Act(LBActions[event.rule], g, event.text)

ReadLB(text) ==
    Outcome(Parse(text, LBRules, DOMAIN LBActions \cup LBSpecials, "grammar"),
            ParserStart({"enum_op", "scope_instruction_stack"},
                        {"indexCounter", "argCounter", "paramCounter", "declCounter",
                         "existsLengthIndex"}), LBApply)

(***************************************************************************)
(* LB: as its to_string writes it; it never writes the declaration of      *)
(* several names.                                                          *)
(***************************************************************************)
LBStatementForm ==
    [VarDef |-> <<"$1", " ", "$2">>, Assign |-> <<"$1", " ", "<", "-", " ", "$2">>,
     LabelInstruction |-> <<"$1">>, Branch |-> <<"goto", " ", "$1">>, Return |-> <<"return">>,
     If |-> <<"if", " ", "(", "$1", ")", " ", "$2", " ", "$3">>,
     While |-> <<"while", " ", "(", "$1", ")", " ", "$2", " ", "$3">>,
     ReturnVal |-> <<"return", " ", "$1">>, Continue |-> <<"continue">>, Break |-> <<"break">>,
     CallInstruction |-> <<"$1">>]

LBConditionForm == [CondOperator |-> <<"$1", " ", "$op", " ", "$2">>]

LBListForm == [Declaration |-> <<"$1", " ", "$2">>, Names |-> <<"$list">>]

LBProgramForm ==
    [Program |-> <<"$rows">>, Params |-> <<"$list">>, Scope |-> <<"{", "\n", "$lines", "}">>,
     line |-> <<" ", " ", "$1", "\n">>,
     Function |-> <<"$1", " ", "$t", "(", "$2", ")", " ", "$3", "\n">>]

PrintLB(program) ==
    Write(LAOperandForm @@ LAExpressionForm @@ LBStatementForm @@ LBConditionForm
              @@ LBListForm @@ LBProgramForm, LASpelling, program)
=============================================================================
