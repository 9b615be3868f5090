---------------------------- MODULE MCFrontEnds ----------------------------
(***************************************************************************)
(* The programs whose texts are read: every statement of a language on its *)
(* own, two in a row of which the second is of a few kinds, and the second *)
(* function of two.                                                        *)
(***************************************************************************)
EXTENDS FrontEnds

L(kind, piece) == Leaf(kind, <<piece>>)

N(kind, children) == Node(kind, <<>>, children)

Op(kind, op, children) == Node(kind, <<op>>, children)

Bodies(statements, others) ==
    {<<s>> : s \in statements} \cup {<<s, o>> : s \in statements, o \in others}

Programs(entry, Function(_, _), statements, others) ==
    {Node("Program", entry, <<Function("f", b)>>) : b \in Bodies(statements, others)}
    \cup {Node("Program", entry, <<Function("f", <<N("Return", <<>>)>>), Function("g", <<s>>)>>) :
              s \in statements}

(* The statements of a few kinds.                                          *)
Only(statements, kinds) == {s \in statements : s.k \in kinds}

LowOthers(statements) ==
    Only(statements, {"Return", "Lea", "LabelInstruction", "ConditionalJump", "Increment"})

(* Two statements with lists in a row, so that one could take what belongs *)
(* to the other.                                                           *)
TwoLists(Function(_, _), statements) ==
    {Node("Program", <<>>, <<Function("g", <<s, o>>)>>) : s \in statements, o \in statements}

WithLists(target, values) == {N("Assign", <<target, value>>) : value \in values}

(***************************************************************************)
(* L1 and L2.                                                              *)
(***************************************************************************)
five == L("Number", "5")
minus == Leaf("Number", <<"-", "1", "6">>)
colonx == Leaf("Label", <<":", "x">>)
atg == Leaf("Label", <<"@", "g">>)
rdi == L("Register", "rdi")
rcx == L("Register", "rcx")

LowStatements(r, s) ==
    LET mem == N("MemoryAddress", <<L("Register", "rsp"), minus>>)
    IN  {N("Assignment", <<r, x>>) : x \in {five, colonx, atg, s, mem}}
        \cup {N("Assignment", <<mem, x>>) : x \in {five, atg, s}}
        \cup {Op("Arithmetic", "AND_EQUAL", <<r, s>>), Op("Arithmetic", "MUL_EQUAL", <<r, five>>),
              Op("Arithmetic", "ADD_EQUAL", <<mem, s>>), Op("Arithmetic", "SUB_EQUAL", <<mem, five>>),
              Op("Arithmetic", "ADD_EQUAL", <<r, mem>>), Op("Arithmetic", "SUB_EQUAL", <<r, mem>>),
              Op("Shift", "LEFT_SHIFT", <<r, rcx>>), Op("Shift", "RIGHT_SHIFT", <<r, five>>),
              Op("Compare", "LESS_THAN", <<r, s, five>>), Op("Compare", "LESS_EQUAL", <<r, five, s>>),
              Op("Compare", "EQUAL", <<r, five, minus>>),
              Op("Compare", "LESS_EQUAL", <<r, s, r>>),
              Op("ConditionalJump", "LESS_THAN", <<s, five, colonx>>),
              Op("ConditionalJump", "LESS_EQUAL", <<five, s, colonx>>),
              Op("ConditionalJump", "LESS_THAN", <<five, minus, colonx>>),
              N("LabelInstruction", <<colonx>>), N("Jump", <<colonx>>), N("Return", <<>>),
              N("Call", <<atg, five>>), N("Call", <<s, five>>), N("CallPrint", <<>>),
              N("CallInput", <<>>), N("CallAllocate", <<>>), N("CallTupleError", <<>>),
              N("CallTensorError", <<L("Number", "3")>>), N("Increment", <<r>>),
              N("Decrement", <<s>>), N("Lea", <<r, s, rdi, L("Number", "8")>>)}

L1Statements == LowStatements(rdi, L("Register", "r10"))

L1Text(name, lines) ==
    Node("Function", <<"@", name>>, <<L("Number", "7"), L("Number", "2"), N("Body", lines)>>)

variable == Leaf("Var", <<"%", "a">>)

L2Statements ==
    LowStatements(L("Register", "rax"), variable)
        \cup {N("Assignment", <<variable, N("StackArg", <<minus>>)>>)}

L2Text(name, lines) == Node("Function", <<"@", name>>, <<L("Number", "7"), N("Body", lines)>>)

L2Files ==
    {N("FunctionFile", <<L2Text("f", <<s>>)>>) : s \in L2Statements}
    \cup {N("SpillTestFile", <<L2Text("f", <<s>>), variable, Leaf("Var", <<"%", "S">>)>>) :
              s \in L2Statements}

(***************************************************************************)
(* L3 and IR.                                                              *)
(***************************************************************************)
va == Leaf("Var", <<"%", "a">>)
vb == Leaf("Var", <<"%", "b">>)
vars3 == N("Vars", <<va, vb, Leaf("Var", <<"%", "c">>)>>)
args3 == N("Args", <<va, five, vb>>)
print == L("Runtime", "PRINT")

L3Statements ==
    {N("Assign", <<va, s>>) : s \in {vb, five, atg, colonx}}
    \cup {Op("AssignOp", op, <<va, vb, minus>>) : op \in {"ADD", "SUB", "MUL", "AND", "LSHIFT", "RSHIFT",
                                                          "LT", "LE", "EQ", "GE", "GT"}}
    \cup {N("Load", <<va, vb>>), N("Store", <<va, vb>>), N("Store", <<va, atg>>),
          N("Return", <<>>), N("ReturnVal", <<vb>>), N("LabelInstruction", <<colonx>>),
          N("Branch", <<colonx>>), N("ConditionalBranch", <<va, colonx>>),
          N("Call", <<atg, args3>>), N("Call", <<vb, N("Args", <<>>)>>),
          N("Call", <<L("Runtime", "TUPLE_ERROR"), args3>>),
          N("Call", <<L("Runtime", "TENSOR_ERROR"), N("Args", <<five>>)>>),
          N("AssignCall", <<va, L("Runtime", "INPUT"), N("Args", <<>>)>>),
          N("AssignCall", <<va, L("Runtime", "ALLOCATE"), N("Args", <<five, vb>>)>>),
          N("AssignCall", <<va, vb, args3>>), N("Call", <<print, N("Args", <<va>>)>>)}

L3Text(name, lines) ==
    Node("Function", <<"@", name>>,
         <<IF name = "f" THEN N("Vars", <<>>) ELSE vars3, N("Body", lines)>>)

Access(x) == N("Index", <<x, N("Indices", <<va, five>>)>>)

Callee(x) == N("Callee", <<x>>)

(* A label may be assigned, stored and called, and nothing else.           *)
IRStatements ==
    {N("VarDef", <<t, va>>) : t \in {Leaf("Type", <<"int64", "[", "]">>), L("Type", "tuple")}}
    \cup {N("Assign", <<va, s>>) :
            s \in {vb, five, atg, Op("Operator", "PLUS", <<vb, five>>), Access(vb),
                   Op("Operator", "LT", <<five, vb>>), N("TupleLength", <<vb>>),
                   N("ArrayLength", <<vb, five>>), N("Call", <<Callee(atg), args3>>),
                   N("Call", <<L("Runtime", "INPUT"), N("Args", <<>>)>>),
                   N("NewArray", <<args3>>), N("NewTuple", <<five>>)}}
    \cup {N("Assign", <<Access(va), s>>) : s \in {vb, atg}}
    \cup {N("CallInstruction", <<N("Call", c)>>) :
            c \in {<<print, N("Args", <<va>>)>>, <<Callee(vb), args3>>,
                   <<L("Runtime", "TENSOR_ERROR"), args3>>, <<Callee(atg), N("Args", <<>>)>>,
                   <<Callee(atg), N("Args", <<va, atg>>)>>}}

ListStatements ==
    WithLists(va, {Access(vb), N("Call", <<Callee(vb), args3>>), N("NewArray", <<args3>>),
                   N("ArrayLength", <<vb, five>>), N("TupleLength", <<vb>>)})

IREnds ==
    {N("Branch", <<colonx>>), N("ConditionalBranch", <<va, colonx, colonx>>), N("Return", <<>>),
     N("ReturnVal", <<vb>>), N("ReturnVal", <<atg>>)}

IRText(name, lines) ==
    LET block(s) == Node("BasicBlock", <<":", "x">>, s)
        params   == N("Params", <<N("Parameter", <<L("Type", "int64"), va>>),
                                  N("Parameter", <<L("Type", "code"), vb>>)>>)
    IN  Node("Function", <<"@", name>>,
             <<L("Type", "void"), IF name = "f" THEN N("Params", <<>>) ELSE params,
               block(<<lines[1], N("Branch", <<colonx>>)>>), block(Tail(lines))>>)

IREnded(name, lines) == IRText(name, Append(lines, N("Return", <<>>)))

IRPrograms ==
    TwoLists(IREnded, ListStatements) \cup
    {Node("Program", <<>>, <<IRText("f", <<s, e>>)>>) : s \in IRStatements, e \in IREnds}
    \cup {Node("Program", <<>>, <<IRText("g", <<s, o, N("Return", <<>>)>>)>>) :
              s \in IRStatements, o \in Only(IRStatements, {"VarDef", "CallInstruction"})}
    \cup {Node("Program", <<>>, <<IRText("f", <<s, e>>), IRText("g", <<s, e>>)>>) :
              s \in IRStatements, e \in Only(IREnds, {"Return", "ReturnVal"})}

(***************************************************************************)
(* LA and LB.                                                              *)
(***************************************************************************)
x == L("Name", "x")
y == L("Name", "y")
keyword(piece) == Leaf("Name", <<piece, "B">>)
names3 == N("Args", <<x, five, y>>)
Names(n) == N("Index", <<n, N("Indices", <<x, five>>)>>)

HighStatements ==
    {N("VarDef", <<t, x>>) : t \in {Leaf("Type", <<"int64", "[", "]", "[", "]">>), L("Type", "code")}}
    \cup {N("Assign", <<x, s>>) :
            s \in {y, five, Op("Operator", "PLUS", <<y, minus>>), Names(y),
                   Op("Operator", "LT", <<five, y>>), Op("Operator", "GE", <<x, y>>),
                   N("TupleLength", <<y>>), N("ArrayLength", <<y, five>>), N("Call", <<y, names3>>),
                   N("Call", <<L("Name", "input"), N("Args", <<>>)>>),
                   N("NewArray", <<names3>>), N("NewTuple", <<five>>)}}
    \cup {N("Assign", <<Names(x), y>>), N("LabelInstruction", <<colonx>>), N("Branch", <<colonx>>),
          N("Return", <<>>), N("ReturnVal", <<y>>), N("CallInstruction", <<N("Call", <<x, names3>>)>>)}

(* Variables whose names begin like a word of the language.                *)
KeywordStatements ==
    {N("Assign", <<keyword(w), five>>) : w \in {"code", "int64", "length", "return", "new"}}
    \cup {N("Assign", <<x, s>>) :
            s \in {keyword("length"), keyword("new"), N("Call", <<keyword("length"), names3>>),
                   Op("Operator", "SUB", <<keyword("length"), five>>), Names(keyword("length")),
                   N("TupleLength", <<keyword("length")>>)}}
    \cup {N("CallInstruction", <<N("Call", <<keyword(w), names3>>)>>) :
            w \in {"code", "return", "br", "break", "if"}}

LAStatements ==
    HighStatements \cup KeywordStatements \cup {N("ConditionalBranch", <<x, colonx, colonx>>)}

HighLists ==
    WithLists(x, {Names(y), N("Call", <<y, names3>>), N("NewArray", <<names3>>),
                  N("ArrayLength", <<y, five>>), N("TupleLength", <<y>>)})

Params(name) ==
    IF name = "f" THEN N("Params", <<>>)
    ELSE N("Params", <<N("Parameter", <<L("Type", "int64"), x>>),
                       N("Parameter", <<L("Type", "code"), y>>)>>)

LAText(name, lines) ==
    Node("Function", <<name>>, <<L("Type", "tuple"), Params(name), N("Body", lines)>>)

cond == Op("CondOperator", "LE", <<x, five>>)

LBStatements ==
    HighStatements \cup KeywordStatements
    \cup {N("If", <<cond, colonx, colonx>>), N("While", <<cond, colonx, colonx>>), N("Continue", <<>>),
          N("Break", <<>>), N("Scope", <<>>), N("Scope", <<N("Scope", <<N("Break", <<>>)>>)>>),
          N("Scope", <<N("Assign", <<x, N("TupleLength", <<y>>)>>), N("LabelInstruction", <<colonx>>)>>),
          N("Declaration", <<L("Type", "tuple"), N("Names", <<x, y>>)>>)}

LBText(name, lines) ==
    Node("Function", <<name>>, <<L("Type", "void"), Params(name), N("Scope", lines)>>)

MCSources ==
    [L1 |-> Programs(<<"@", "f">>, L1Text, L1Statements, LowOthers(L1Statements)),
     L2 |-> L2Files \cup Programs(<<"@", "f">>, L2Text, L2Statements, LowOthers(L2Statements)),
     L3 |-> Programs(<<>>, L3Text, L3Statements,
                     Only(L3Statements, {"Return", "ReturnVal", "Store", "LabelInstruction"})),
     IR |-> IRPrograms,
     LA |-> TwoLists(LAText, HighLists)
            \cup Programs(<<>>, LAText, LAStatements,
                          Only(LAStatements, {"Return", "VarDef", "Branch", "LabelInstruction"})),
     LB |-> TwoLists(LBText, HighLists)
            \cup Programs(<<>>, LBText, LBStatements,
                          Only(LBStatements, {"Return", "ReturnVal", "While", "Scope",
                                              "LabelInstruction", "Declaration"}))]

MCLayouts ==
    [l \in {"L1", "L2", "L3", "IR", "LA", "LB"} |->
        CASE l = "LB" -> {"printed", "commented", "one_line"}
          [] OTHER -> {"printed", "commented"}]

(***************************************************************************)
(* The processor: words of 8 bits with bytes of 4, and one word of memory. *)
(***************************************************************************)
MCAddresses == <<"x">> :> 72 @@ <<"g">> :> 200

MCMachines ==
    {[reg |-> [rdi |-> v[1], r10 |-> v[2], rcx |-> v[3], rsp |-> 40], mem |-> (24 :> v[4])] :
        v \in {5, 127, 240} \X {5, 128, 251} \X {1, 19} \X {7}}
=============================================================================
